------------------------- MODULE ClientJournal_proof -------------------------
(***************************************************************************)
(* Proofs about ClientJournal, for any number of actions, retries, exits    *)
(* and crashes: the types; that no action disappears, nor hides from the    *)
(* walk at the next start before it is on the disk; that no wake-up is      *)
(* lost.                                                                    *)
(***************************************************************************)
EXTENDS ClientJournal, TLAPS

\* A preparation that goes on has a retry left.
Tried == pc = "try" => tries < MaxRetry

\* Every place holds actions of the user.
Bounded ==
    /\ cache \subseteq 1..acted /\ raw \subseteq 1..acted
    /\ fin \subseteq 1..acted /\ river \subseteq 1..acted
    /\ vec \subseteq 1..acted /\ tail \subseteq 1..acted
    /\ unsaved \subseteq 1..acted

(***************************************************************************)
(* The vector is in the file, but for what was inserted since the last      *)
(* flush, which is still in the lock file, and for what a write left out.   *)
(* While the run knows an anchor, the file has nothing that the vector does *)
(* not have and that still matters.                                         *)
(***************************************************************************)
Written ==
    /\ pc = "off" => vec = {} /\ unsaved = {}
    /\ pc \in Starting => vec = tail /\ unsaved = {}
    /\ pc # "ins" => vec \subseteq tail \cup unsaved
    /\ pc = "ins" => vec \subseteq tail \cup fin \cup unsaved
    /\ pc # "off" /\ anchored => tail \cup unsaved \subseteq vec \cup sent \cup gone
    /\ pc = "work" => tail \cup unsaved \cup vec \subseteq up \cup sent \cup gone

\* A run without an anchor, or a start without one, will walk the whole disk.
Relied == filed \/ (pc # "off" /\ anchored)

(***************************************************************************)
(* Kept, for a program that ends now as well: the vector is not counted.    *)
(***************************************************************************)
KeptSafe ==
    Relied =>
        \A a \in 1..acted :
            a \in cache \cup raw \cup fin \cup tail \cup unsaved \cup sent \cup gone

\* What a round sends covers what no other place has.
Sending ==
    pc = "work" =>
        \A a \in 1..acted :
            a \in cache \cup raw \cup fin \cup up \cup sent \cup gone

\* RiverKept, also for the anchor of this run.
RiverSafe ==
    Relied =>
        \A a \in river : a \in fin \cup tail \cup unsaved \cup sent \cup gone

RiverSending ==
    pc = "work" => \A a \in river : a \in fin \cup up \cup sent \cup gone

\* The preparation that the program's start calls has nothing to retry.
Called ==
    call = "start" =>
        /\ pc \in {"off", "ins", "final"} \cup Starting
        /\ pc = "final" => lv # -1

(***************************************************************************)
(* Where the last report of the watcher is remembered: in the event, in     *)
(* dwPrevioOperati while the thread is not preparing, in the preparation    *)
(* that has still to look at it, or in the answer below zero that will set  *)
(* dwPrevioOperati.                                                         *)
(***************************************************************************)
Heard ==
    last # "zero" =>
        \/ event \/ closed \/ deaf
        \/ pc \in {"wait", "sync", "erase", "work"} /\ again
        \/ pc \in {"open", "copy", "stop"}
        \/ pc \in {"try", "end", "final"} /\ lv < 0

(***************************************************************************)
(* The two ways in which an answer changes dwPrevioOperati.                 *)
(***************************************************************************)
LEMMA AnswerBelow ==
    ASSUME NEW v \in {-1, 0, 1}, v < 0, call = "loop", Answer(v)
    PROVE  again' = TRUE /\ Loop
<1>1. ~(v > 0) /\ (v < 0) = TRUE
  OBVIOUS
<1>2. again' = (v < 0) /\ Loop
  BY <1>1 DEF Answer
<1>3. QED
  BY <1>1, <1>2

LEMMA AnswerType ==
    ASSUME NEW v, Answer(v), again \in BOOLEAN
    PROVE  again' \in BOOLEAN
<1>1. again' = again \/ again' = FALSE \/ again' = (v < 0)
  BY DEF Answer
<1>2. (v < 0) \in BOOLEAN
  OBVIOUS
<1>3. QED
  BY <1>1, <1>2

\* Every step keeps the types.
LEMMA TypeStep ==
    ASSUME TypeOK, Tried, Next \/ UNCHANGED vars
    PROVE  TypeOK' /\ Tried'
<1> USE JournalAssumption
         DEF TypeOK, Tried, Acts, Ticks, Places, watcher, lockfile, anchors, prepare,
             user, history
<1>1. CASE Act
  <2>1. acted' \in 0..MaxActs /\ stops' \in 0..MaxStops
    BY <1>1 DEF Act, HasEvent, Starting
  <2>2. cache' \subseteq Acts /\ raw' \subseteq Acts /\ fin' \subseteq Acts
    BY <1>1 DEF Act, HasEvent, Starting
  <2>3. vec' \subseteq Acts /\ tail' \subseteq Acts /\ river' \subseteq Acts
    BY <1>1 DEF Act, HasEvent, Starting
  <2>4. up' \subseteq Acts
    BY <1>1 DEF Act, HasEvent, Starting
  <2>5. unsaved' \subseteq Acts
    BY <1>1 DEF Act, HasEvent, Starting
  <2>6. sent' \subseteq Acts /\ gone' \subseteq Acts
    BY <1>1 DEF Act, HasEvent, Starting
  <2>7. last' \in {"zero"} \cup Ticks
    BY <1>1 DEF Act, HasEvent, Starting
  <2>8. quiet' \in BOOLEAN /\ event' \in BOOLEAN /\ deaf' \in BOOLEAN
    BY <1>1 DEF Act, HasEvent, Starting
  <2>9. anchored' \in BOOLEAN /\ filed' \in BOOLEAN
    BY <1>1 DEF Act, HasEvent, Starting
  <2>10. pc' \in Places /\ call' \in {"start", "loop", "exit"}
    BY <1>1 DEF Act, HasEvent, Starting
  <2>11. tries' \in 0..MaxRetry /\ Tried'
    BY <1>1 DEF Act, HasEvent, Starting
  <2>12. lv' \in {-1, 0, 1}
    BY <1>1 DEF Act, HasEvent, Starting
  <2>13. pv' \in BOOLEAN
    BY <1>1 DEF Act, HasEvent, Starting
  <2>14. closed' \in BOOLEAN /\ leaving' \in BOOLEAN
    BY <1>1 DEF Act, HasEvent, Starting
  <2>15. again' \in BOOLEAN
    BY <1>1 DEF Act, HasEvent, Starting
  <2>16. QED
    BY <2>1, <2>2, <2>3, <2>4, <2>5, <2>6, <2>7, <2>8, <2>9, <2>10, <2>11, <2>12,
         <2>13, <2>14, <2>15
<1>2. CASE Quiet
  <2>1. acted' \in 0..MaxActs /\ stops' \in 0..MaxStops
    BY <1>2 DEF Quiet
  <2>2. cache' \subseteq Acts /\ raw' \subseteq Acts /\ fin' \subseteq Acts
    BY <1>2 DEF Quiet
  <2>3. vec' \subseteq Acts /\ tail' \subseteq Acts /\ river' \subseteq Acts
    BY <1>2 DEF Quiet
  <2>4. up' \subseteq Acts
    BY <1>2 DEF Quiet
  <2>5. unsaved' \subseteq Acts
    BY <1>2 DEF Quiet
  <2>6. sent' \subseteq Acts /\ gone' \subseteq Acts
    BY <1>2 DEF Quiet
  <2>7. last' \in {"zero"} \cup Ticks
    BY <1>2 DEF Quiet
  <2>8. quiet' \in BOOLEAN /\ event' \in BOOLEAN /\ deaf' \in BOOLEAN
    BY <1>2 DEF Quiet
  <2>9. anchored' \in BOOLEAN /\ filed' \in BOOLEAN
    BY <1>2 DEF Quiet
  <2>10. pc' \in Places /\ call' \in {"start", "loop", "exit"}
    BY <1>2 DEF Quiet
  <2>11. tries' \in 0..MaxRetry /\ Tried'
    BY <1>2 DEF Quiet
  <2>12. lv' \in {-1, 0, 1}
    BY <1>2 DEF Quiet
  <2>13. pv' \in BOOLEAN
    BY <1>2 DEF Quiet
  <2>14. closed' \in BOOLEAN /\ leaving' \in BOOLEAN
    BY <1>2 DEF Quiet
  <2>15. again' \in BOOLEAN
    BY <1>2 DEF Quiet
  <2>16. QED
    BY <2>1, <2>2, <2>3, <2>4, <2>5, <2>6, <2>7, <2>8, <2>9, <2>10, <2>11, <2>12,
         <2>13, <2>14, <2>15
<1>3. CASE Boot
  <2>1. acted' \in 0..MaxActs /\ stops' \in 0..MaxStops
    BY <1>3 DEF Boot
  <2>2. cache' \subseteq Acts /\ raw' \subseteq Acts /\ fin' \subseteq Acts
    BY <1>3 DEF Boot
  <2>3. vec' \subseteq Acts /\ tail' \subseteq Acts /\ river' \subseteq Acts
    BY <1>3 DEF Boot
  <2>4. up' \subseteq Acts
    BY <1>3 DEF Boot
  <2>5. unsaved' \subseteq Acts
    BY <1>3 DEF Boot
  <2>6. sent' \subseteq Acts /\ gone' \subseteq Acts
    BY <1>3 DEF Boot
  <2>7. last' \in {"zero"} \cup Ticks
    BY <1>3 DEF Boot
  <2>8. quiet' \in BOOLEAN /\ event' \in BOOLEAN /\ deaf' \in BOOLEAN
    BY <1>3 DEF Boot
  <2>9. anchored' \in BOOLEAN /\ filed' \in BOOLEAN
    BY <1>3 DEF Boot
  <2>10. pc' \in Places /\ call' \in {"start", "loop", "exit"}
    BY <1>3 DEF Boot
  <2>11. tries' \in 0..MaxRetry /\ Tried'
    BY <1>3 DEF Boot
  <2>12. lv' \in {-1, 0, 1}
    BY <1>3 DEF Boot
  <2>13. pv' \in BOOLEAN
    BY <1>3 DEF Boot
  <2>14. closed' \in BOOLEAN /\ leaving' \in BOOLEAN
    BY <1>3 DEF Boot
  <2>15. again' \in BOOLEAN
    BY <1>3 DEF Boot
  <2>16. QED
    BY <2>1, <2>2, <2>3, <2>4, <2>5, <2>6, <2>7, <2>8, <2>9, <2>10, <2>11, <2>12,
         <2>13, <2>14, <2>15
<1>4. CASE Initialize
  <2>1. acted' \in 0..MaxActs /\ stops' \in 0..MaxStops
    BY <1>4 DEF Initialize
  <2>2. cache' \subseteq Acts /\ raw' \subseteq Acts /\ fin' \subseteq Acts
    BY <1>4 DEF Initialize
  <2>3. vec' \subseteq Acts /\ tail' \subseteq Acts /\ river' \subseteq Acts
    BY <1>4 DEF Initialize
  <2>4. up' \subseteq Acts
    BY <1>4 DEF Initialize
  <2>5. unsaved' \subseteq Acts
    BY <1>4 DEF Initialize
  <2>6. sent' \subseteq Acts /\ gone' \subseteq Acts
    BY <1>4 DEF Initialize
  <2>7. last' \in {"zero"} \cup Ticks
    BY <1>4 DEF Initialize
  <2>8. quiet' \in BOOLEAN /\ event' \in BOOLEAN /\ deaf' \in BOOLEAN
    BY <1>4 DEF Initialize
  <2>9. anchored' \in BOOLEAN /\ filed' \in BOOLEAN
    BY <1>4 DEF Initialize
  <2>10. pc' \in Places /\ call' \in {"start", "loop", "exit"}
    BY <1>4 DEF Initialize
  <2>11. tries' \in 0..MaxRetry /\ Tried'
    BY <1>4 DEF Initialize
  <2>12. lv' \in {-1, 0, 1}
    BY <1>4 DEF Initialize
  <2>13. pv' \in BOOLEAN
    BY <1>4 DEF Initialize
  <2>14. closed' \in BOOLEAN /\ leaving' \in BOOLEAN
    BY <1>4 DEF Initialize
  <2>15. again' \in BOOLEAN
    BY <1>4 DEF Initialize
  <2>16. QED
    BY <2>1, <2>2, <2>3, <2>4, <2>5, <2>6, <2>7, <2>8, <2>9, <2>10, <2>11, <2>12,
         <2>13, <2>14, <2>15
<1>5. CASE Scan
  <2>1. acted' \in 0..MaxActs /\ stops' \in 0..MaxStops
    BY <1>5 DEF Scan
  <2>2. cache' \subseteq Acts /\ raw' \subseteq Acts /\ fin' \subseteq Acts
    BY <1>5 DEF Scan
  <2>3. vec' \subseteq Acts /\ tail' \subseteq Acts /\ river' \subseteq Acts
    BY <1>5 DEF Scan
  <2>4. up' \subseteq Acts
    BY <1>5 DEF Scan
  <2>5. unsaved' \subseteq Acts
    BY <1>5 DEF Scan
  <2>6. sent' \subseteq Acts /\ gone' \subseteq Acts
    BY <1>5 DEF Scan
  <2>7. last' \in {"zero"} \cup Ticks
    BY <1>5 DEF Scan
  <2>8. quiet' \in BOOLEAN /\ event' \in BOOLEAN /\ deaf' \in BOOLEAN
    BY <1>5 DEF Scan
  <2>9. anchored' \in BOOLEAN /\ filed' \in BOOLEAN
    BY <1>5 DEF Scan
  <2>10. pc' \in Places /\ call' \in {"start", "loop", "exit"}
    BY <1>5 DEF Scan
  <2>11. tries' \in 0..MaxRetry /\ Tried'
    BY <1>5 DEF Scan
  <2>12. lv' \in {-1, 0, 1}
    BY <1>5 DEF Scan
  <2>13. pv' \in BOOLEAN
    BY <1>5 DEF Scan
  <2>14. closed' \in BOOLEAN /\ leaving' \in BOOLEAN
    BY <1>5 DEF Scan
  <2>15. again' \in BOOLEAN
    BY <1>5 DEF Scan
  <2>16. QED
    BY <2>1, <2>2, <2>3, <2>4, <2>5, <2>6, <2>7, <2>8, <2>9, <2>10, <2>11, <2>12,
         <2>13, <2>14, <2>15
<1>6. CASE Clear
  <2>1. acted' \in 0..MaxActs /\ stops' \in 0..MaxStops
    BY <1>6 DEF Clear
  <2>2. cache' \subseteq Acts /\ raw' \subseteq Acts /\ fin' \subseteq Acts
    BY <1>6 DEF Clear
  <2>3. vec' \subseteq Acts /\ tail' \subseteq Acts /\ river' \subseteq Acts
    BY <1>6 DEF Clear
  <2>4. up' \subseteq Acts
    BY <1>6 DEF Clear
  <2>5. unsaved' \subseteq Acts
    BY <1>6 DEF Clear
  <2>6. sent' \subseteq Acts /\ gone' \subseteq Acts
    BY <1>6 DEF Clear
  <2>7. last' \in {"zero"} \cup Ticks
    BY <1>6 DEF Clear
  <2>8. quiet' \in BOOLEAN /\ event' \in BOOLEAN /\ deaf' \in BOOLEAN
    BY <1>6 DEF Clear
  <2>9. anchored' \in BOOLEAN /\ filed' \in BOOLEAN
    BY <1>6 DEF Clear
  <2>10. pc' \in Places /\ call' \in {"start", "loop", "exit"}
    BY <1>6 DEF Clear
  <2>11. tries' \in 0..MaxRetry /\ Tried'
    BY <1>6 DEF Clear
  <2>12. lv' \in {-1, 0, 1}
    BY <1>6 DEF Clear
  <2>13. pv' \in BOOLEAN
    BY <1>6 DEF Clear
  <2>14. closed' \in BOOLEAN /\ leaving' \in BOOLEAN
    BY <1>6 DEF Clear
  <2>15. again' \in BOOLEAN
    BY <1>6 DEF Clear
  <2>16. QED
    BY <2>1, <2>2, <2>3, <2>4, <2>5, <2>6, <2>7, <2>8, <2>9, <2>10, <2>11, <2>12,
         <2>13, <2>14, <2>15
<1>7. CASE Refused
  <2>1. acted' \in 0..MaxActs /\ stops' \in 0..MaxStops
    BY <1>7 DEF Refused, Loop, Caller
  <2>2. cache' \subseteq Acts /\ raw' \subseteq Acts /\ fin' \subseteq Acts
    BY <1>7 DEF Refused, Loop, Caller
  <2>3. vec' \subseteq Acts /\ tail' \subseteq Acts /\ river' \subseteq Acts
    BY <1>7 DEF Refused, Loop, Caller
  <2>4. up' \subseteq Acts
    BY <1>7 DEF Refused, Loop, Caller
  <2>5. unsaved' \subseteq Acts
    BY <1>7 DEF Refused, Loop, Caller
  <2>6. sent' \subseteq Acts /\ gone' \subseteq Acts
    BY <1>7 DEF Refused, Loop, Caller
  <2>7. last' \in {"zero"} \cup Ticks
    BY <1>7 DEF Refused, Loop, Caller
  <2>8. quiet' \in BOOLEAN /\ event' \in BOOLEAN /\ deaf' \in BOOLEAN
    BY <1>7 DEF Refused, Loop, Caller
  <2>9. anchored' \in BOOLEAN /\ filed' \in BOOLEAN
    BY <1>7 DEF Refused, Loop, Caller
  <2>10. pc' \in Places /\ call' \in {"start", "loop", "exit"}
    BY <1>7 DEF Refused, Loop, Caller
  <2>11. tries' \in 0..MaxRetry /\ Tried'
    BY <1>7 DEF Refused, Loop, Caller
  <2>12. lv' \in {-1, 0, 1}
    BY <1>7 DEF Refused, Loop, Caller
  <2>13. pv' \in BOOLEAN
    BY <1>7 DEF Refused, Loop, Caller
  <2>14. closed' \in BOOLEAN /\ leaving' \in BOOLEAN
    BY <1>7 DEF Refused, Loop, Caller
  <2>15. again' \in BOOLEAN
    BY <1>7 DEF Refused, Loop, Caller
  <2>16. QED
    BY <2>1, <2>2, <2>3, <2>4, <2>5, <2>6, <2>7, <2>8, <2>9, <2>10, <2>11, <2>12,
         <2>13, <2>14, <2>15
<1>8. CASE Passed
  <2>1. acted' \in 0..MaxActs /\ stops' \in 0..MaxStops
    BY <1>8 DEF Passed
  <2>2. cache' \subseteq Acts /\ raw' \subseteq Acts /\ fin' \subseteq Acts
    BY <1>8 DEF Passed
  <2>3. vec' \subseteq Acts /\ tail' \subseteq Acts /\ river' \subseteq Acts
    BY <1>8 DEF Passed
  <2>4. up' \subseteq Acts
    BY <1>8 DEF Passed
  <2>5. unsaved' \subseteq Acts
    BY <1>8 DEF Passed
  <2>6. sent' \subseteq Acts /\ gone' \subseteq Acts
    BY <1>8 DEF Passed
  <2>7. last' \in {"zero"} \cup Ticks
    BY <1>8 DEF Passed
  <2>8. quiet' \in BOOLEAN /\ event' \in BOOLEAN /\ deaf' \in BOOLEAN
    BY <1>8 DEF Passed
  <2>9. anchored' \in BOOLEAN /\ filed' \in BOOLEAN
    BY <1>8 DEF Passed
  <2>10. pc' \in Places /\ call' \in {"start", "loop", "exit"}
    BY <1>8 DEF Passed
  <2>11. tries' \in 0..MaxRetry /\ Tried'
    BY <1>8 DEF Passed
  <2>12. lv' \in {-1, 0, 1}
    BY <1>8 DEF Passed
  <2>13. pv' \in BOOLEAN
    BY <1>8 DEF Passed
  <2>14. closed' \in BOOLEAN /\ leaving' \in BOOLEAN
    BY <1>8 DEF Passed
  <2>15. again' \in BOOLEAN
    BY <1>8 DEF Passed
  <2>16. QED
    BY <2>1, <2>2, <2>3, <2>4, <2>5, <2>6, <2>7, <2>8, <2>9, <2>10, <2>11, <2>12,
         <2>13, <2>14, <2>15
<1>9. CASE Open
  <2>1. acted' \in 0..MaxActs /\ stops' \in 0..MaxStops
    BY <1>9 DEF Open
  <2>2. cache' \subseteq Acts /\ raw' \subseteq Acts /\ fin' \subseteq Acts
    BY <1>9 DEF Open
  <2>3. vec' \subseteq Acts /\ tail' \subseteq Acts /\ river' \subseteq Acts
    BY <1>9 DEF Open
  <2>4. up' \subseteq Acts
    BY <1>9 DEF Open
  <2>5. unsaved' \subseteq Acts
    BY <1>9 DEF Open
  <2>6. sent' \subseteq Acts /\ gone' \subseteq Acts
    BY <1>9 DEF Open
  <2>7. last' \in {"zero"} \cup Ticks
    BY <1>9 DEF Open
  <2>8. quiet' \in BOOLEAN /\ event' \in BOOLEAN /\ deaf' \in BOOLEAN
    BY <1>9 DEF Open
  <2>9. anchored' \in BOOLEAN /\ filed' \in BOOLEAN
    BY <1>9 DEF Open
  <2>10. pc' \in Places /\ call' \in {"start", "loop", "exit"}
    BY <1>9 DEF Open
  <2>11. tries' \in 0..MaxRetry /\ Tried'
    BY <1>9 DEF Open
  <2>12. lv' \in {-1, 0, 1}
    BY <1>9 DEF Open
  <2>13. pv' \in BOOLEAN
    BY <1>9 DEF Open
  <2>14. closed' \in BOOLEAN /\ leaving' \in BOOLEAN
    BY <1>9 DEF Open
  <2>15. again' \in BOOLEAN
    BY <1>9 DEF Open
  <2>16. QED
    BY <2>1, <2>2, <2>3, <2>4, <2>5, <2>6, <2>7, <2>8, <2>9, <2>10, <2>11, <2>12,
         <2>13, <2>14, <2>15
<1>10. CASE OpenFails
  <2>1. acted' \in 0..MaxActs /\ stops' \in 0..MaxStops
    BY <1>10 DEF OpenFails, Answer, Loop, Caller
  <2>2. cache' \subseteq Acts /\ raw' \subseteq Acts /\ fin' \subseteq Acts
    BY <1>10 DEF OpenFails, Answer, Loop, Caller
  <2>3. vec' \subseteq Acts /\ tail' \subseteq Acts /\ river' \subseteq Acts
    BY <1>10 DEF OpenFails, Answer, Loop, Caller
  <2>4. up' \subseteq Acts
    BY <1>10 DEF OpenFails, Answer, Loop, Caller
  <2>5. unsaved' \subseteq Acts
    BY <1>10 DEF OpenFails, Answer, Loop, Caller
  <2>6. sent' \subseteq Acts /\ gone' \subseteq Acts
    BY <1>10 DEF OpenFails, Answer, Loop, Caller
  <2>7. last' \in {"zero"} \cup Ticks
    BY <1>10 DEF OpenFails, Answer, Loop, Caller
  <2>8. quiet' \in BOOLEAN /\ event' \in BOOLEAN /\ deaf' \in BOOLEAN
    BY <1>10 DEF OpenFails, Answer, Loop, Caller
  <2>9. anchored' \in BOOLEAN /\ filed' \in BOOLEAN
    BY <1>10 DEF OpenFails, Answer, Loop, Caller
  <2>10. pc' \in Places /\ call' \in {"start", "loop", "exit"}
    BY <1>10 DEF OpenFails, Answer, Loop, Caller
  <2>11. tries' \in 0..MaxRetry /\ Tried'
    BY <1>10 DEF OpenFails, Answer, Loop, Caller
  <2>12. lv' \in {-1, 0, 1}
    BY <1>10 DEF OpenFails, Answer, Loop, Caller
  <2>13. pv' \in BOOLEAN
    BY <1>10 DEF OpenFails, Answer, Loop, Caller
  <2>14. closed' \in BOOLEAN /\ leaving' \in BOOLEAN
    BY <1>10 DEF OpenFails, Answer, Loop, Caller
  <2>15. again' \in BOOLEAN
    <3>1. Answer(-1)
      BY <1>10 DEF OpenFails
    <3>2. QED
      BY <3>1, AnswerType
  <2>16. QED
    BY <2>1, <2>2, <2>3, <2>4, <2>5, <2>6, <2>7, <2>8, <2>9, <2>10, <2>11, <2>12,
         <2>13, <2>14, <2>15
<1>11. CASE Copy
  <2>1. acted' \in 0..MaxActs /\ stops' \in 0..MaxStops
    BY <1>11 DEF Copy, CacheActioCopy, CanCopy
  <2>2. cache' \subseteq Acts /\ raw' \subseteq Acts /\ fin' \subseteq Acts
    BY <1>11 DEF Copy, CacheActioCopy, CanCopy
  <2>3. vec' \subseteq Acts /\ tail' \subseteq Acts /\ river' \subseteq Acts
    BY <1>11 DEF Copy, CacheActioCopy, CanCopy
  <2>4. up' \subseteq Acts
    BY <1>11 DEF Copy, CacheActioCopy, CanCopy
  <2>5. unsaved' \subseteq Acts
    BY <1>11 DEF Copy, CacheActioCopy, CanCopy
  <2>6. sent' \subseteq Acts /\ gone' \subseteq Acts
    BY <1>11 DEF Copy, CacheActioCopy, CanCopy
  <2>7. last' \in {"zero"} \cup Ticks
    BY <1>11 DEF Copy, CacheActioCopy, CanCopy
  <2>8. quiet' \in BOOLEAN /\ event' \in BOOLEAN /\ deaf' \in BOOLEAN
    BY <1>11 DEF Copy, CacheActioCopy, CanCopy
  <2>9. anchored' \in BOOLEAN /\ filed' \in BOOLEAN
    BY <1>11 DEF Copy, CacheActioCopy, CanCopy
  <2>10. pc' \in Places /\ call' \in {"start", "loop", "exit"}
    BY <1>11 DEF Copy, CacheActioCopy, CanCopy
  <2>11. tries' \in 0..MaxRetry /\ Tried'
    BY <1>11 DEF Copy, CacheActioCopy, CanCopy
  <2>12. lv' \in {-1, 0, 1}
    BY <1>11 DEF Copy, CacheActioCopy, CanCopy
  <2>13. pv' \in BOOLEAN
    BY <1>11 DEF Copy, CacheActioCopy, CanCopy
  <2>14. closed' \in BOOLEAN /\ leaving' \in BOOLEAN
    BY <1>11 DEF Copy, CacheActioCopy, CanCopy
  <2>15. again' \in BOOLEAN
    BY <1>11 DEF Copy, CacheActioCopy, CanCopy
  <2>16. QED
    BY <2>1, <2>2, <2>3, <2>4, <2>5, <2>6, <2>7, <2>8, <2>9, <2>10, <2>11, <2>12,
         <2>13, <2>14, <2>15
<1>12. CASE Undone
  <2>1. acted' \in 0..MaxActs /\ stops' \in 0..MaxStops
    BY <1>12 DEF Undone
  <2>2. cache' \subseteq Acts /\ raw' \subseteq Acts /\ fin' \subseteq Acts
    BY <1>12 DEF Undone
  <2>3. vec' \subseteq Acts /\ tail' \subseteq Acts /\ river' \subseteq Acts
    BY <1>12 DEF Undone
  <2>4. up' \subseteq Acts
    BY <1>12 DEF Undone
  <2>5. unsaved' \subseteq Acts
    BY <1>12 DEF Undone
  <2>6. sent' \subseteq Acts /\ gone' \subseteq Acts
    BY <1>12 DEF Undone
  <2>7. last' \in {"zero"} \cup Ticks
    BY <1>12 DEF Undone
  <2>8. quiet' \in BOOLEAN /\ event' \in BOOLEAN /\ deaf' \in BOOLEAN
    BY <1>12 DEF Undone
  <2>9. anchored' \in BOOLEAN /\ filed' \in BOOLEAN
    BY <1>12 DEF Undone
  <2>10. pc' \in Places /\ call' \in {"start", "loop", "exit"}
    BY <1>12 DEF Undone
  <2>11. tries' \in 0..MaxRetry /\ Tried'
    BY <1>12 DEF Undone
  <2>12. lv' \in {-1, 0, 1}
    BY <1>12 DEF Undone
  <2>13. pv' \in BOOLEAN
    BY <1>12 DEF Undone
  <2>14. closed' \in BOOLEAN /\ leaving' \in BOOLEAN
    BY <1>12 DEF Undone
  <2>15. again' \in BOOLEAN
    BY <1>12 DEF Undone
  <2>16. QED
    BY <2>1, <2>2, <2>3, <2>4, <2>5, <2>6, <2>7, <2>8, <2>9, <2>10, <2>11, <2>12,
         <2>13, <2>14, <2>15
<1>13. CASE Pass
  <2>1. acted' \in 0..MaxActs /\ stops' \in 0..MaxStops
    BY <1>13 DEF Pass
  <2>2. cache' \subseteq Acts /\ raw' \subseteq Acts /\ fin' \subseteq Acts
    BY <1>13 DEF Pass
  <2>3. vec' \subseteq Acts /\ tail' \subseteq Acts /\ river' \subseteq Acts
    BY <1>13 DEF Pass
  <2>4. up' \subseteq Acts
    BY <1>13 DEF Pass
  <2>5. unsaved' \subseteq Acts
    BY <1>13 DEF Pass
  <2>6. sent' \subseteq Acts /\ gone' \subseteq Acts
    BY <1>13 DEF Pass
  <2>7. last' \in {"zero"} \cup Ticks
    BY <1>13 DEF Pass
  <2>8. quiet' \in BOOLEAN /\ event' \in BOOLEAN /\ deaf' \in BOOLEAN
    BY <1>13 DEF Pass
  <2>9. anchored' \in BOOLEAN /\ filed' \in BOOLEAN
    BY <1>13 DEF Pass
  <2>10. pc' \in Places /\ call' \in {"start", "loop", "exit"}
    BY <1>13 DEF Pass
  <2>11. tries' \in 0..MaxRetry /\ Tried'
    BY <1>13 DEF Pass
  <2>12. lv' \in {-1, 0, 1}
    BY <1>13 DEF Pass
  <2>13. pv' \in BOOLEAN
    BY <1>13 DEF Pass
  <2>14. closed' \in BOOLEAN /\ leaving' \in BOOLEAN
    BY <1>13 DEF Pass
  <2>15. again' \in BOOLEAN
    BY <1>13 DEF Pass
  <2>16. QED
    BY <2>1, <2>2, <2>3, <2>4, <2>5, <2>6, <2>7, <2>8, <2>9, <2>10, <2>11, <2>12,
         <2>13, <2>14, <2>15
<1>14. CASE Retry
  <2>1. acted' \in 0..MaxActs /\ stops' \in 0..MaxStops
    BY <1>14 DEF Retry
  <2>2. cache' \subseteq Acts /\ raw' \subseteq Acts /\ fin' \subseteq Acts
    BY <1>14 DEF Retry
  <2>3. vec' \subseteq Acts /\ tail' \subseteq Acts /\ river' \subseteq Acts
    BY <1>14 DEF Retry
  <2>4. up' \subseteq Acts
    BY <1>14 DEF Retry
  <2>5. unsaved' \subseteq Acts
    BY <1>14 DEF Retry
  <2>6. sent' \subseteq Acts /\ gone' \subseteq Acts
    BY <1>14 DEF Retry
  <2>7. last' \in {"zero"} \cup Ticks
    BY <1>14 DEF Retry
  <2>8. quiet' \in BOOLEAN /\ event' \in BOOLEAN /\ deaf' \in BOOLEAN
    BY <1>14 DEF Retry
  <2>9. anchored' \in BOOLEAN /\ filed' \in BOOLEAN
    BY <1>14 DEF Retry
  <2>10. pc' \in Places /\ call' \in {"start", "loop", "exit"}
    BY <1>14 DEF Retry
  <2>11. tries' \in 0..MaxRetry /\ Tried'
    BY <1>14 DEF Retry
  <2>12. lv' \in {-1, 0, 1}
    BY <1>14 DEF Retry
  <2>13. pv' \in BOOLEAN
    BY <1>14 DEF Retry
  <2>14. closed' \in BOOLEAN /\ leaving' \in BOOLEAN
    BY <1>14 DEF Retry
  <2>15. again' \in BOOLEAN
    BY <1>14 DEF Retry
  <2>16. QED
    BY <2>1, <2>2, <2>3, <2>4, <2>5, <2>6, <2>7, <2>8, <2>9, <2>10, <2>11, <2>12,
         <2>13, <2>14, <2>15
<1>15. CASE End
  <2>1. acted' \in 0..MaxActs /\ stops' \in 0..MaxStops
    BY <1>15 DEF End
  <2>2. cache' \subseteq Acts /\ raw' \subseteq Acts /\ fin' \subseteq Acts
    BY <1>15 DEF End
  <2>3. vec' \subseteq Acts /\ tail' \subseteq Acts /\ river' \subseteq Acts
    BY <1>15 DEF End
  <2>4. up' \subseteq Acts
    BY <1>15 DEF End
  <2>5. unsaved' \subseteq Acts
    BY <1>15 DEF End
  <2>6. sent' \subseteq Acts /\ gone' \subseteq Acts
    BY <1>15 DEF End
  <2>7. last' \in {"zero"} \cup Ticks
    BY <1>15 DEF End
  <2>8. quiet' \in BOOLEAN /\ event' \in BOOLEAN /\ deaf' \in BOOLEAN
    BY <1>15 DEF End
  <2>9. anchored' \in BOOLEAN /\ filed' \in BOOLEAN
    BY <1>15 DEF End
  <2>10. pc' \in Places /\ call' \in {"start", "loop", "exit"}
    BY <1>15 DEF End
  <2>11. tries' \in 0..MaxRetry /\ Tried'
    BY <1>15 DEF End
  <2>12. lv' \in {-1, 0, 1}
    BY <1>15 DEF End
  <2>13. pv' \in BOOLEAN
    BY <1>15 DEF End
  <2>14. closed' \in BOOLEAN /\ leaving' \in BOOLEAN
    BY <1>15 DEF End
  <2>15. again' \in BOOLEAN
    BY <1>15 DEF End
  <2>16. QED
    BY <2>1, <2>2, <2>3, <2>4, <2>5, <2>6, <2>7, <2>8, <2>9, <2>10, <2>11, <2>12,
         <2>13, <2>14, <2>15
<1>16. CASE Insert
  <2>1. acted' \in 0..MaxActs /\ stops' \in 0..MaxStops
    BY <1>16 DEF Insert
  <2>2. cache' \subseteq Acts /\ raw' \subseteq Acts /\ fin' \subseteq Acts
    BY <1>16 DEF Insert
  <2>3. vec' \subseteq Acts /\ tail' \subseteq Acts /\ river' \subseteq Acts
    BY <1>16 DEF Insert
  <2>4. up' \subseteq Acts
    BY <1>16 DEF Insert
  <2>5. unsaved' \subseteq Acts
    BY <1>16 DEF Insert
  <2>6. sent' \subseteq Acts /\ gone' \subseteq Acts
    BY <1>16 DEF Insert
  <2>7. last' \in {"zero"} \cup Ticks
    BY <1>16 DEF Insert
  <2>8. quiet' \in BOOLEAN /\ event' \in BOOLEAN /\ deaf' \in BOOLEAN
    BY <1>16 DEF Insert
  <2>9. anchored' \in BOOLEAN /\ filed' \in BOOLEAN
    BY <1>16 DEF Insert
  <2>10. pc' \in Places /\ call' \in {"start", "loop", "exit"}
    BY <1>16 DEF Insert
  <2>11. tries' \in 0..MaxRetry /\ Tried'
    BY <1>16 DEF Insert
  <2>12. lv' \in {-1, 0, 1}
    BY <1>16 DEF Insert
  <2>13. pv' \in BOOLEAN
    BY <1>16 DEF Insert
  <2>14. closed' \in BOOLEAN /\ leaving' \in BOOLEAN
    BY <1>16 DEF Insert
  <2>15. again' \in BOOLEAN
    BY <1>16 DEF Insert
  <2>16. QED
    BY <2>1, <2>2, <2>3, <2>4, <2>5, <2>6, <2>7, <2>8, <2>9, <2>10, <2>11, <2>12,
         <2>13, <2>14, <2>15
<1>17. CASE Flush
  <2>1. acted' \in 0..MaxActs /\ stops' \in 0..MaxStops
    BY <1>17 DEF Flush, Parts, LeftOut
  <2>2. cache' \subseteq Acts /\ raw' \subseteq Acts /\ fin' \subseteq Acts
    BY <1>17 DEF Flush, Parts, LeftOut
  <2>3. vec' \subseteq Acts /\ tail' \subseteq Acts /\ river' \subseteq Acts
    BY <1>17 DEF Flush, Parts, LeftOut
  <2>4. up' \subseteq Acts
    BY <1>17 DEF Flush, Parts, LeftOut
  <2>5. unsaved' \subseteq Acts
    BY <1>17 DEF Flush, Parts, LeftOut
  <2>6. sent' \subseteq Acts /\ gone' \subseteq Acts
    BY <1>17 DEF Flush, Parts, LeftOut
  <2>7. last' \in {"zero"} \cup Ticks
    BY <1>17 DEF Flush, Parts, LeftOut
  <2>8. quiet' \in BOOLEAN /\ event' \in BOOLEAN /\ deaf' \in BOOLEAN
    BY <1>17 DEF Flush, Parts, LeftOut
  <2>9. anchored' \in BOOLEAN /\ filed' \in BOOLEAN
    BY <1>17 DEF Flush, Parts, LeftOut
  <2>10. pc' \in Places /\ call' \in {"start", "loop", "exit"}
    BY <1>17 DEF Flush, Parts, LeftOut
  <2>11. tries' \in 0..MaxRetry /\ Tried'
    BY <1>17 DEF Flush, Parts, LeftOut
  <2>12. lv' \in {-1, 0, 1}
    BY <1>17 DEF Flush, Parts, LeftOut
  <2>13. pv' \in BOOLEAN
    BY <1>17 DEF Flush, Parts, LeftOut
  <2>14. closed' \in BOOLEAN /\ leaving' \in BOOLEAN
    BY <1>17 DEF Flush, Parts, LeftOut
  <2>15. again' \in BOOLEAN
    BY <1>17 DEF Flush, Parts, LeftOut
  <2>16. QED
    BY <2>1, <2>2, <2>3, <2>4, <2>5, <2>6, <2>7, <2>8, <2>9, <2>10, <2>11, <2>12,
         <2>13, <2>14, <2>15
<1>18. CASE Final
  <2>1. acted' \in 0..MaxActs /\ stops' \in 0..MaxStops
    BY <1>18 DEF Final, Answer, Loop, Caller
  <2>2. cache' \subseteq Acts /\ raw' \subseteq Acts /\ fin' \subseteq Acts
    BY <1>18 DEF Final, Answer, Loop, Caller
  <2>3. vec' \subseteq Acts /\ tail' \subseteq Acts /\ river' \subseteq Acts
    BY <1>18 DEF Final, Answer, Loop, Caller
  <2>4. up' \subseteq Acts
    BY <1>18 DEF Final, Answer, Loop, Caller
  <2>5. unsaved' \subseteq Acts
    BY <1>18 DEF Final, Answer, Loop, Caller
  <2>6. sent' \subseteq Acts /\ gone' \subseteq Acts
    BY <1>18 DEF Final, Answer, Loop, Caller
  <2>7. last' \in {"zero"} \cup Ticks
    BY <1>18 DEF Final, Answer, Loop, Caller
  <2>8. quiet' \in BOOLEAN /\ event' \in BOOLEAN /\ deaf' \in BOOLEAN
    BY <1>18 DEF Final, Answer, Loop, Caller
  <2>9. anchored' \in BOOLEAN /\ filed' \in BOOLEAN
    BY <1>18 DEF Final, Answer, Loop, Caller
  <2>10. pc' \in Places /\ call' \in {"start", "loop", "exit"}
    BY <1>18 DEF Final, Answer, Loop, Caller
  <2>11. tries' \in 0..MaxRetry /\ Tried'
    BY <1>18 DEF Final, Answer, Loop, Caller
  <2>12. lv' \in {-1, 0, 1}
    BY <1>18 DEF Final, Answer, Loop, Caller
  <2>13. pv' \in BOOLEAN
    BY <1>18 DEF Final, Answer, Loop, Caller
  <2>14. closed' \in BOOLEAN /\ leaving' \in BOOLEAN
    BY <1>18 DEF Final, Answer, Loop, Caller
  <2>15. again' \in BOOLEAN
    <3>1. Answer(IF pv THEN -1 ELSE lv)
      BY <1>18 DEF Final
    <3>2. QED
      BY <3>1, AnswerType
  <2>16. QED
    BY <2>1, <2>2, <2>3, <2>4, <2>5, <2>6, <2>7, <2>8, <2>9, <2>10, <2>11, <2>12,
         <2>13, <2>14, <2>15
<1>19. CASE NoRound
  <2>1. acted' \in 0..MaxActs /\ stops' \in 0..MaxStops
    BY <1>19 DEF NoRound, Loop, Caller
  <2>2. cache' \subseteq Acts /\ raw' \subseteq Acts /\ fin' \subseteq Acts
    BY <1>19 DEF NoRound, Loop, Caller
  <2>3. vec' \subseteq Acts /\ tail' \subseteq Acts /\ river' \subseteq Acts
    BY <1>19 DEF NoRound, Loop, Caller
  <2>4. up' \subseteq Acts
    BY <1>19 DEF NoRound, Loop, Caller
  <2>5. unsaved' \subseteq Acts
    BY <1>19 DEF NoRound, Loop, Caller
  <2>6. sent' \subseteq Acts /\ gone' \subseteq Acts
    BY <1>19 DEF NoRound, Loop, Caller
  <2>7. last' \in {"zero"} \cup Ticks
    BY <1>19 DEF NoRound, Loop, Caller
  <2>8. quiet' \in BOOLEAN /\ event' \in BOOLEAN /\ deaf' \in BOOLEAN
    BY <1>19 DEF NoRound, Loop, Caller
  <2>9. anchored' \in BOOLEAN /\ filed' \in BOOLEAN
    BY <1>19 DEF NoRound, Loop, Caller
  <2>10. pc' \in Places /\ call' \in {"start", "loop", "exit"}
    BY <1>19 DEF NoRound, Loop, Caller
  <2>11. tries' \in 0..MaxRetry /\ Tried'
    BY <1>19 DEF NoRound, Loop, Caller
  <2>12. lv' \in {-1, 0, 1}
    BY <1>19 DEF NoRound, Loop, Caller
  <2>13. pv' \in BOOLEAN
    BY <1>19 DEF NoRound, Loop, Caller
  <2>14. closed' \in BOOLEAN /\ leaving' \in BOOLEAN
    BY <1>19 DEF NoRound, Loop, Caller
  <2>15. again' \in BOOLEAN
    BY <1>19 DEF NoRound, Loop, Caller
  <2>16. QED
    BY <2>1, <2>2, <2>3, <2>4, <2>5, <2>6, <2>7, <2>8, <2>9, <2>10, <2>11, <2>12,
         <2>13, <2>14, <2>15
<1>20. CASE BuildFast
  <2>1. acted' \in 0..MaxActs /\ stops' \in 0..MaxStops
    BY <1>20 DEF BuildFast
  <2>2. cache' \subseteq Acts /\ raw' \subseteq Acts /\ fin' \subseteq Acts
    BY <1>20 DEF BuildFast
  <2>3. vec' \subseteq Acts /\ tail' \subseteq Acts /\ river' \subseteq Acts
    BY <1>20 DEF BuildFast
  <2>4. up' \subseteq Acts
    BY <1>20 DEF BuildFast
  <2>5. unsaved' \subseteq Acts
    BY <1>20 DEF BuildFast
  <2>6. sent' \subseteq Acts /\ gone' \subseteq Acts
    BY <1>20 DEF BuildFast
  <2>7. last' \in {"zero"} \cup Ticks
    BY <1>20 DEF BuildFast
  <2>8. quiet' \in BOOLEAN /\ event' \in BOOLEAN /\ deaf' \in BOOLEAN
    BY <1>20 DEF BuildFast
  <2>9. anchored' \in BOOLEAN /\ filed' \in BOOLEAN
    BY <1>20 DEF BuildFast
  <2>10. pc' \in Places /\ call' \in {"start", "loop", "exit"}
    BY <1>20 DEF BuildFast
  <2>11. tries' \in 0..MaxRetry /\ Tried'
    BY <1>20 DEF BuildFast
  <2>12. lv' \in {-1, 0, 1}
    BY <1>20 DEF BuildFast
  <2>13. pv' \in BOOLEAN
    BY <1>20 DEF BuildFast
  <2>14. closed' \in BOOLEAN /\ leaving' \in BOOLEAN
    BY <1>20 DEF BuildFast
  <2>15. again' \in BOOLEAN
    BY <1>20 DEF BuildFast
  <2>16. QED
    BY <2>1, <2>2, <2>3, <2>4, <2>5, <2>6, <2>7, <2>8, <2>9, <2>10, <2>11, <2>12,
         <2>13, <2>14, <2>15
<1>21. CASE BuildSlow
  <2>1. acted' \in 0..MaxActs /\ stops' \in 0..MaxStops
    BY <1>21 DEF BuildSlow
  <2>2. cache' \subseteq Acts /\ raw' \subseteq Acts /\ fin' \subseteq Acts
    BY <1>21 DEF BuildSlow
  <2>3. vec' \subseteq Acts /\ tail' \subseteq Acts /\ river' \subseteq Acts
    BY <1>21 DEF BuildSlow
  <2>4. up' \subseteq Acts
    <3>1. up' = up \/ up' = 1..acted
      BY <1>21 DEF BuildSlow
    <3>2. 1..acted \subseteq Acts
      OBVIOUS
    <3>3. CASE up' = up
      BY <3>3
    <3>4. CASE up' = 1..acted
      BY <3>2, <3>4
    <3>5. QED
      BY <3>1, <3>3, <3>4
  <2>5. unsaved' \subseteq Acts
    BY <1>21 DEF BuildSlow
  <2>6. sent' \subseteq Acts /\ gone' \subseteq Acts
    BY <1>21 DEF BuildSlow
  <2>7. last' \in {"zero"} \cup Ticks
    BY <1>21 DEF BuildSlow
  <2>8. quiet' \in BOOLEAN /\ event' \in BOOLEAN /\ deaf' \in BOOLEAN
    BY <1>21 DEF BuildSlow
  <2>9. anchored' \in BOOLEAN /\ filed' \in BOOLEAN
    BY <1>21 DEF BuildSlow
  <2>10. pc' \in Places /\ call' \in {"start", "loop", "exit"}
    BY <1>21 DEF BuildSlow
  <2>11. tries' \in 0..MaxRetry /\ Tried'
    BY <1>21 DEF BuildSlow
  <2>12. lv' \in {-1, 0, 1}
    BY <1>21 DEF BuildSlow
  <2>13. pv' \in BOOLEAN
    BY <1>21 DEF BuildSlow
  <2>14. closed' \in BOOLEAN /\ leaving' \in BOOLEAN
    BY <1>21 DEF BuildSlow
  <2>15. again' \in BOOLEAN
    BY <1>21 DEF BuildSlow
  <2>16. QED
    BY <2>1, <2>2, <2>3, <2>4, <2>5, <2>6, <2>7, <2>8, <2>9, <2>10, <2>11, <2>12,
         <2>13, <2>14, <2>15
<1>22. CASE EraseIndex
  <2>1. acted' \in 0..MaxActs /\ stops' \in 0..MaxStops
    BY <1>22 DEF EraseIndex
  <2>2. cache' \subseteq Acts /\ raw' \subseteq Acts /\ fin' \subseteq Acts
    BY <1>22 DEF EraseIndex
  <2>3. vec' \subseteq Acts /\ tail' \subseteq Acts /\ river' \subseteq Acts
    BY <1>22 DEF EraseIndex
  <2>4. up' \subseteq Acts
    BY <1>22 DEF EraseIndex
  <2>5. unsaved' \subseteq Acts
    BY <1>22 DEF EraseIndex
  <2>6. sent' \subseteq Acts /\ gone' \subseteq Acts
    BY <1>22 DEF EraseIndex
  <2>7. last' \in {"zero"} \cup Ticks
    BY <1>22 DEF EraseIndex
  <2>8. quiet' \in BOOLEAN /\ event' \in BOOLEAN /\ deaf' \in BOOLEAN
    BY <1>22 DEF EraseIndex
  <2>9. anchored' \in BOOLEAN /\ filed' \in BOOLEAN
    BY <1>22 DEF EraseIndex
  <2>10. pc' \in Places /\ call' \in {"start", "loop", "exit"}
    BY <1>22 DEF EraseIndex
  <2>11. tries' \in 0..MaxRetry /\ Tried'
    BY <1>22 DEF EraseIndex
  <2>12. lv' \in {-1, 0, 1}
    BY <1>22 DEF EraseIndex
  <2>13. pv' \in BOOLEAN
    BY <1>22 DEF EraseIndex
  <2>14. closed' \in BOOLEAN /\ leaving' \in BOOLEAN
    BY <1>22 DEF EraseIndex
  <2>15. again' \in BOOLEAN
    BY <1>22 DEF EraseIndex
  <2>16. QED
    BY <2>1, <2>2, <2>3, <2>4, <2>5, <2>6, <2>7, <2>8, <2>9, <2>10, <2>11, <2>12,
         <2>13, <2>14, <2>15
<1>23. CASE RoundDone
  <2>1. acted' \in 0..MaxActs /\ stops' \in 0..MaxStops
    BY <1>23 DEF RoundDone, Recorded, Parts, Loop, Caller
  <2>2. cache' \subseteq Acts /\ raw' \subseteq Acts /\ fin' \subseteq Acts
    BY <1>23 DEF RoundDone, Recorded, Parts, Loop, Caller
  <2>3. vec' \subseteq Acts /\ tail' \subseteq Acts /\ river' \subseteq Acts
    BY <1>23 DEF RoundDone, Recorded, Parts, Loop, Caller
  <2>4. up' \subseteq Acts
    BY <1>23 DEF RoundDone, Recorded, Parts, Loop, Caller
  <2>5. unsaved' \subseteq Acts
    BY <1>23 DEF RoundDone, Recorded, Parts, Loop, Caller
  <2>6. sent' \subseteq Acts /\ gone' \subseteq Acts
    BY <1>23 DEF RoundDone, Recorded, Parts, Loop, Caller
  <2>7. last' \in {"zero"} \cup Ticks
    BY <1>23 DEF RoundDone, Recorded, Parts, Loop, Caller
  <2>8. quiet' \in BOOLEAN /\ event' \in BOOLEAN /\ deaf' \in BOOLEAN
    BY <1>23 DEF RoundDone, Recorded, Parts, Loop, Caller
  <2>9. anchored' \in BOOLEAN /\ filed' \in BOOLEAN
    BY <1>23 DEF RoundDone, Recorded, Parts, Loop, Caller
  <2>10. pc' \in Places /\ call' \in {"start", "loop", "exit"}
    BY <1>23 DEF RoundDone, Recorded, Parts, Loop, Caller
  <2>11. tries' \in 0..MaxRetry /\ Tried'
    BY <1>23 DEF RoundDone, Recorded, Parts, Loop, Caller
  <2>12. lv' \in {-1, 0, 1}
    BY <1>23 DEF RoundDone, Recorded, Parts, Loop, Caller
  <2>13. pv' \in BOOLEAN
    BY <1>23 DEF RoundDone, Recorded, Parts, Loop, Caller
  <2>14. closed' \in BOOLEAN /\ leaving' \in BOOLEAN
    BY <1>23 DEF RoundDone, Recorded, Parts, Loop, Caller
  <2>15. again' \in BOOLEAN
    BY <1>23 DEF RoundDone, Recorded, Parts, Loop, Caller
  <2>16. QED
    BY <2>1, <2>2, <2>3, <2>4, <2>5, <2>6, <2>7, <2>8, <2>9, <2>10, <2>11, <2>12,
         <2>13, <2>14, <2>15
<1>24. CASE RoundSkips
  <2>1. acted' \in 0..MaxActs /\ stops' \in 0..MaxStops
    BY <1>24 DEF RoundSkips, Recorded, Parts, Loop, Caller
  <2>2. cache' \subseteq Acts /\ raw' \subseteq Acts /\ fin' \subseteq Acts
    BY <1>24 DEF RoundSkips, Recorded, Parts, Loop, Caller
  <2>3. vec' \subseteq Acts /\ tail' \subseteq Acts /\ river' \subseteq Acts
    BY <1>24 DEF RoundSkips, Recorded, Parts, Loop, Caller
  <2>4. up' \subseteq Acts
    BY <1>24 DEF RoundSkips, Recorded, Parts, Loop, Caller
  <2>5. unsaved' \subseteq Acts
    BY <1>24 DEF RoundSkips, Recorded, Parts, Loop, Caller
  <2>6. sent' \subseteq Acts /\ gone' \subseteq Acts
    BY <1>24 DEF RoundSkips, Recorded, Parts, Loop, Caller
  <2>7. last' \in {"zero"} \cup Ticks
    BY <1>24 DEF RoundSkips, Recorded, Parts, Loop, Caller
  <2>8. quiet' \in BOOLEAN /\ event' \in BOOLEAN /\ deaf' \in BOOLEAN
    BY <1>24 DEF RoundSkips, Recorded, Parts, Loop, Caller
  <2>9. anchored' \in BOOLEAN /\ filed' \in BOOLEAN
    BY <1>24 DEF RoundSkips, Recorded, Parts, Loop, Caller
  <2>10. pc' \in Places /\ call' \in {"start", "loop", "exit"}
    BY <1>24 DEF RoundSkips, Recorded, Parts, Loop, Caller
  <2>11. tries' \in 0..MaxRetry /\ Tried'
    BY <1>24 DEF RoundSkips, Recorded, Parts, Loop, Caller
  <2>12. lv' \in {-1, 0, 1}
    BY <1>24 DEF RoundSkips, Recorded, Parts, Loop, Caller
  <2>13. pv' \in BOOLEAN
    BY <1>24 DEF RoundSkips, Recorded, Parts, Loop, Caller
  <2>14. closed' \in BOOLEAN /\ leaving' \in BOOLEAN
    BY <1>24 DEF RoundSkips, Recorded, Parts, Loop, Caller
  <2>15. again' \in BOOLEAN
    BY <1>24 DEF RoundSkips, Recorded, Parts, Loop, Caller
  <2>16. QED
    BY <2>1, <2>2, <2>3, <2>4, <2>5, <2>6, <2>7, <2>8, <2>9, <2>10, <2>11, <2>12,
         <2>13, <2>14, <2>15
<1>25. CASE RoundFails
  <2>1. acted' \in 0..MaxActs /\ stops' \in 0..MaxStops
    BY <1>25 DEF RoundFails, Loop, Caller
  <2>2. cache' \subseteq Acts /\ raw' \subseteq Acts /\ fin' \subseteq Acts
    BY <1>25 DEF RoundFails, Loop, Caller
  <2>3. vec' \subseteq Acts /\ tail' \subseteq Acts /\ river' \subseteq Acts
    BY <1>25 DEF RoundFails, Loop, Caller
  <2>4. up' \subseteq Acts
    BY <1>25 DEF RoundFails, Loop, Caller
  <2>5. unsaved' \subseteq Acts
    BY <1>25 DEF RoundFails, Loop, Caller
  <2>6. sent' \subseteq Acts /\ gone' \subseteq Acts
    BY <1>25 DEF RoundFails, Loop, Caller
  <2>7. last' \in {"zero"} \cup Ticks
    BY <1>25 DEF RoundFails, Loop, Caller
  <2>8. quiet' \in BOOLEAN /\ event' \in BOOLEAN /\ deaf' \in BOOLEAN
    BY <1>25 DEF RoundFails, Loop, Caller
  <2>9. anchored' \in BOOLEAN /\ filed' \in BOOLEAN
    BY <1>25 DEF RoundFails, Loop, Caller
  <2>10. pc' \in Places /\ call' \in {"start", "loop", "exit"}
    BY <1>25 DEF RoundFails, Loop, Caller
  <2>11. tries' \in 0..MaxRetry /\ Tried'
    BY <1>25 DEF RoundFails, Loop, Caller
  <2>12. lv' \in {-1, 0, 1}
    BY <1>25 DEF RoundFails, Loop, Caller
  <2>13. pv' \in BOOLEAN
    BY <1>25 DEF RoundFails, Loop, Caller
  <2>14. closed' \in BOOLEAN /\ leaving' \in BOOLEAN
    BY <1>25 DEF RoundFails, Loop, Caller
  <2>15. again' \in BOOLEAN
    BY <1>25 DEF RoundFails, Loop, Caller
  <2>16. QED
    BY <2>1, <2>2, <2>3, <2>4, <2>5, <2>6, <2>7, <2>8, <2>9, <2>10, <2>11, <2>12,
         <2>13, <2>14, <2>15
<1>26. CASE Exit
  <2>1. acted' \in 0..MaxActs /\ stops' \in 0..MaxStops
    BY <1>26 DEF Exit, Parts, LeftOut, Ended
  <2>2. cache' \subseteq Acts /\ raw' \subseteq Acts /\ fin' \subseteq Acts
    BY <1>26 DEF Exit, Parts, LeftOut, Ended
  <2>3. vec' \subseteq Acts /\ tail' \subseteq Acts /\ river' \subseteq Acts
    BY <1>26 DEF Exit, Parts, LeftOut, Ended
  <2>4. up' \subseteq Acts
    BY <1>26 DEF Exit, Parts, LeftOut, Ended
  <2>5. unsaved' \subseteq Acts
    BY <1>26 DEF Exit, Parts, LeftOut, Ended
  <2>6. sent' \subseteq Acts /\ gone' \subseteq Acts
    BY <1>26 DEF Exit, Parts, LeftOut, Ended
  <2>7. last' \in {"zero"} \cup Ticks
    BY <1>26 DEF Exit, Parts, LeftOut, Ended
  <2>8. quiet' \in BOOLEAN /\ event' \in BOOLEAN /\ deaf' \in BOOLEAN
    BY <1>26 DEF Exit, Parts, LeftOut, Ended
  <2>9. anchored' \in BOOLEAN /\ filed' \in BOOLEAN
    BY <1>26 DEF Exit, Parts, LeftOut, Ended
  <2>10. pc' \in Places /\ call' \in {"start", "loop", "exit"}
    BY <1>26 DEF Exit, Parts, LeftOut, Ended
  <2>11. tries' \in 0..MaxRetry /\ Tried'
    BY <1>26 DEF Exit, Parts, LeftOut, Ended
  <2>12. lv' \in {-1, 0, 1}
    BY <1>26 DEF Exit, Parts, LeftOut, Ended
  <2>13. pv' \in BOOLEAN
    BY <1>26 DEF Exit, Parts, LeftOut, Ended
  <2>14. closed' \in BOOLEAN /\ leaving' \in BOOLEAN
    BY <1>26 DEF Exit, Parts, LeftOut, Ended
  <2>15. again' \in BOOLEAN
    BY <1>26 DEF Exit, Parts, LeftOut, Ended
  <2>16. QED
    BY <2>1, <2>2, <2>3, <2>4, <2>5, <2>6, <2>7, <2>8, <2>9, <2>10, <2>11, <2>12,
         <2>13, <2>14, <2>15
<1>27. CASE Close
  <2>1. acted' \in 0..MaxActs /\ stops' \in 0..MaxStops
    BY <1>27 DEF Close, Running
  <2>2. cache' \subseteq Acts /\ raw' \subseteq Acts /\ fin' \subseteq Acts
    BY <1>27 DEF Close, Running
  <2>3. vec' \subseteq Acts /\ tail' \subseteq Acts /\ river' \subseteq Acts
    BY <1>27 DEF Close, Running
  <2>4. up' \subseteq Acts
    BY <1>27 DEF Close, Running
  <2>5. unsaved' \subseteq Acts
    BY <1>27 DEF Close, Running
  <2>6. sent' \subseteq Acts /\ gone' \subseteq Acts
    BY <1>27 DEF Close, Running
  <2>7. last' \in {"zero"} \cup Ticks
    BY <1>27 DEF Close, Running
  <2>8. quiet' \in BOOLEAN /\ event' \in BOOLEAN /\ deaf' \in BOOLEAN
    BY <1>27 DEF Close, Running
  <2>9. anchored' \in BOOLEAN /\ filed' \in BOOLEAN
    BY <1>27 DEF Close, Running
  <2>10. pc' \in Places /\ call' \in {"start", "loop", "exit"}
    BY <1>27 DEF Close, Running
  <2>11. tries' \in 0..MaxRetry /\ Tried'
    BY <1>27 DEF Close, Running
  <2>12. lv' \in {-1, 0, 1}
    BY <1>27 DEF Close, Running
  <2>13. pv' \in BOOLEAN
    BY <1>27 DEF Close, Running
  <2>14. closed' \in BOOLEAN /\ leaving' \in BOOLEAN
    BY <1>27 DEF Close, Running
  <2>15. again' \in BOOLEAN
    BY <1>27 DEF Close, Running
  <2>16. QED
    BY <2>1, <2>2, <2>3, <2>4, <2>5, <2>6, <2>7, <2>8, <2>9, <2>10, <2>11, <2>12,
         <2>13, <2>14, <2>15
<1>28. CASE Resume
  <2>1. acted' \in 0..MaxActs /\ stops' \in 0..MaxStops
    BY <1>28 DEF Resume, Running
  <2>2. cache' \subseteq Acts /\ raw' \subseteq Acts /\ fin' \subseteq Acts
    BY <1>28 DEF Resume, Running
  <2>3. vec' \subseteq Acts /\ tail' \subseteq Acts /\ river' \subseteq Acts
    BY <1>28 DEF Resume, Running
  <2>4. up' \subseteq Acts
    BY <1>28 DEF Resume, Running
  <2>5. unsaved' \subseteq Acts
    BY <1>28 DEF Resume, Running
  <2>6. sent' \subseteq Acts /\ gone' \subseteq Acts
    BY <1>28 DEF Resume, Running
  <2>7. last' \in {"zero"} \cup Ticks
    BY <1>28 DEF Resume, Running
  <2>8. quiet' \in BOOLEAN /\ event' \in BOOLEAN /\ deaf' \in BOOLEAN
    BY <1>28 DEF Resume, Running
  <2>9. anchored' \in BOOLEAN /\ filed' \in BOOLEAN
    BY <1>28 DEF Resume, Running
  <2>10. pc' \in Places /\ call' \in {"start", "loop", "exit"}
    BY <1>28 DEF Resume, Running
  <2>11. tries' \in 0..MaxRetry /\ Tried'
    BY <1>28 DEF Resume, Running
  <2>12. lv' \in {-1, 0, 1}
    BY <1>28 DEF Resume, Running
  <2>13. pv' \in BOOLEAN
    BY <1>28 DEF Resume, Running
  <2>14. closed' \in BOOLEAN /\ leaving' \in BOOLEAN
    BY <1>28 DEF Resume, Running
  <2>15. again' \in BOOLEAN
    BY <1>28 DEF Resume, Running
  <2>16. QED
    BY <2>1, <2>2, <2>3, <2>4, <2>5, <2>6, <2>7, <2>8, <2>9, <2>10, <2>11, <2>12,
         <2>13, <2>14, <2>15
<1>29. CASE Leave
  <2>1. acted' \in 0..MaxActs /\ stops' \in 0..MaxStops
    BY <1>29 DEF Leave, Running
  <2>2. cache' \subseteq Acts /\ raw' \subseteq Acts /\ fin' \subseteq Acts
    BY <1>29 DEF Leave, Running
  <2>3. vec' \subseteq Acts /\ tail' \subseteq Acts /\ river' \subseteq Acts
    BY <1>29 DEF Leave, Running
  <2>4. up' \subseteq Acts
    BY <1>29 DEF Leave, Running
  <2>5. unsaved' \subseteq Acts
    BY <1>29 DEF Leave, Running
  <2>6. sent' \subseteq Acts /\ gone' \subseteq Acts
    BY <1>29 DEF Leave, Running
  <2>7. last' \in {"zero"} \cup Ticks
    BY <1>29 DEF Leave, Running
  <2>8. quiet' \in BOOLEAN /\ event' \in BOOLEAN /\ deaf' \in BOOLEAN
    BY <1>29 DEF Leave, Running
  <2>9. anchored' \in BOOLEAN /\ filed' \in BOOLEAN
    BY <1>29 DEF Leave, Running
  <2>10. pc' \in Places /\ call' \in {"start", "loop", "exit"}
    BY <1>29 DEF Leave, Running
  <2>11. tries' \in 0..MaxRetry /\ Tried'
    BY <1>29 DEF Leave, Running
  <2>12. lv' \in {-1, 0, 1}
    BY <1>29 DEF Leave, Running
  <2>13. pv' \in BOOLEAN
    BY <1>29 DEF Leave, Running
  <2>14. closed' \in BOOLEAN /\ leaving' \in BOOLEAN
    BY <1>29 DEF Leave, Running
  <2>15. again' \in BOOLEAN
    BY <1>29 DEF Leave, Running
  <2>16. QED
    BY <2>1, <2>2, <2>3, <2>4, <2>5, <2>6, <2>7, <2>8, <2>9, <2>10, <2>11, <2>12,
         <2>13, <2>14, <2>15
<1>30. CASE Crash
  <2>1. acted' \in 0..MaxActs /\ stops' \in 0..MaxStops
    BY <1>30 DEF Crash, Ended, CanCopy
  <2>2. cache' \subseteq Acts /\ raw' \subseteq Acts /\ fin' \subseteq Acts
    BY <1>30 DEF Crash, Ended, CanCopy
  <2>3. vec' \subseteq Acts /\ tail' \subseteq Acts /\ river' \subseteq Acts
    BY <1>30 DEF Crash, Ended, CanCopy
  <2>4. up' \subseteq Acts
    BY <1>30 DEF Crash, Ended, CanCopy
  <2>5. unsaved' \subseteq Acts
    BY <1>30 DEF Crash, Ended, CanCopy
  <2>6. sent' \subseteq Acts /\ gone' \subseteq Acts
    BY <1>30 DEF Crash, Ended, CanCopy
  <2>7. last' \in {"zero"} \cup Ticks
    BY <1>30 DEF Crash, Ended, CanCopy
  <2>8. quiet' \in BOOLEAN /\ event' \in BOOLEAN /\ deaf' \in BOOLEAN
    BY <1>30 DEF Crash, Ended, CanCopy
  <2>9. anchored' \in BOOLEAN /\ filed' \in BOOLEAN
    BY <1>30 DEF Crash, Ended, CanCopy
  <2>10. pc' \in Places /\ call' \in {"start", "loop", "exit"}
    BY <1>30 DEF Crash, Ended, CanCopy
  <2>11. tries' \in 0..MaxRetry /\ Tried'
    BY <1>30 DEF Crash, Ended, CanCopy
  <2>12. lv' \in {-1, 0, 1}
    BY <1>30 DEF Crash, Ended, CanCopy
  <2>13. pv' \in BOOLEAN
    BY <1>30 DEF Crash, Ended, CanCopy
  <2>14. closed' \in BOOLEAN /\ leaving' \in BOOLEAN
    BY <1>30 DEF Crash, Ended, CanCopy
  <2>15. again' \in BOOLEAN
    BY <1>30 DEF Crash, Ended, CanCopy
  <2>16. QED
    BY <2>1, <2>2, <2>3, <2>4, <2>5, <2>6, <2>7, <2>8, <2>9, <2>10, <2>11, <2>12,
         <2>13, <2>14, <2>15
<1>31. CASE UNCHANGED vars
  BY <1>31 DEF vars
<1>32. QED
  BY <1>1, <1>2, <1>3, <1>4, <1>5, <1>6, <1>7, <1>8, <1>9, <1>10, <1>11, <1>12,
     <1>13, <1>14, <1>15, <1>16, <1>17, <1>18, <1>19, <1>20, <1>21, <1>22,
     <1>23, <1>24, <1>25, <1>26, <1>27, <1>28, <1>29, <1>30, <1>31
     DEF Next, Thread, Prepares, Rounds

\* Actions appear in the cache and move on from there.
LEMMA BoundedStep ==
    ASSUME TypeOK, Bounded, Next \/ UNCHANGED vars
    PROVE  Bounded'
<1> USE JournalAssumption
         DEF TypeOK, Bounded, watcher, lockfile, anchors, prepare, user, history
<1>1. CASE Act
  BY <1>1 DEF Act, HasEvent, Starting, Ticks
<1>2. CASE Quiet
  BY <1>2 DEF Quiet
<1>3. CASE Boot
  BY <1>3 DEF Boot
<1>4. CASE Initialize
  BY <1>4 DEF Initialize
<1>5. CASE Scan
  BY <1>5 DEF Scan
<1>6. CASE Clear
  BY <1>6 DEF Clear
<1>7. CASE Refused
  BY <1>7 DEF Refused, Loop, Caller
<1>8. CASE Passed
  BY <1>8 DEF Passed
<1>9. CASE Open
  BY <1>9 DEF Open
<1>10. CASE OpenFails
  BY <1>10 DEF OpenFails, Answer, Loop, Caller
<1>11. CASE Copy
  BY <1>11 DEF Copy, CacheActioCopy, CanCopy, Ticks
<1>12. CASE Undone
  BY <1>12 DEF Undone
<1>13. CASE Pass
  BY <1>13 DEF Pass
<1>14. CASE Retry
  BY <1>14 DEF Retry
<1>15. CASE End
  BY <1>15 DEF End
<1>16. CASE Insert
  BY <1>16 DEF Insert
<1>17. CASE Flush
  BY <1>17 DEF Flush, Parts, LeftOut
<1>18. CASE Final
  BY <1>18 DEF Final, Answer, Loop, Caller
<1>19. CASE NoRound
  BY <1>19 DEF NoRound, Loop, Caller
<1>20. CASE BuildFast
  BY <1>20 DEF BuildFast
<1>21. CASE BuildSlow
  BY <1>21 DEF BuildSlow
<1>22. CASE EraseIndex
  BY <1>22 DEF EraseIndex
<1>23. CASE RoundDone
  BY <1>23 DEF RoundDone, Recorded, Parts, Loop, Caller
<1>24. CASE RoundSkips
  BY <1>24 DEF RoundSkips, Recorded, Parts, Loop, Caller
<1>25. CASE RoundFails
  BY <1>25 DEF RoundFails, Loop, Caller
<1>26. CASE Exit
  BY <1>26 DEF Exit, Parts, LeftOut, Ended
<1>27. CASE Close
  BY <1>27 DEF Close, Running
<1>28. CASE Resume
  BY <1>28 DEF Resume, Running
<1>29. CASE Leave
  BY <1>29 DEF Leave, Running
<1>30. CASE Crash
  BY <1>30 DEF Crash, Ended, CanCopy
<1>31. CASE UNCHANGED vars
  BY <1>31 DEF vars
<1>32. QED
  BY <1>1, <1>2, <1>3, <1>4, <1>5, <1>6, <1>7, <1>8, <1>9, <1>10, <1>11, <1>12,
     <1>13, <1>14, <1>15, <1>16, <1>17, <1>18, <1>19, <1>20, <1>21, <1>22,
     <1>23, <1>24, <1>25, <1>26, <1>27, <1>28, <1>29, <1>30, <1>31
     DEF Next, Thread, Prepares, Rounds

\* The vector and its file.
LEMMA WrittenStep ==
    ASSUME TypeOK, Bounded, Written, Next \/ UNCHANGED vars
    PROVE  Written'
<1> USE JournalAssumption
         DEF TypeOK, Bounded, Written, Starting, watcher, lockfile, anchors, prepare,
             user, history
<1>1. CASE Act
  BY <1>1 DEF Act, HasEvent, Ticks
<1>2. CASE Quiet
  BY <1>2 DEF Quiet
<1>3. CASE Boot
  BY <1>3 DEF Boot
<1>4. CASE Initialize
  BY <1>4 DEF Initialize
<1>5. CASE Scan
  BY <1>5 DEF Scan
<1>6. CASE Clear
  BY <1>6 DEF Clear
<1>7. CASE Refused
  BY <1>7 DEF Refused, Loop, Caller
<1>8. CASE Passed
  BY <1>8 DEF Passed
<1>9. CASE Open
  BY <1>9 DEF Open
<1>10. CASE OpenFails
  BY <1>10 DEF OpenFails, Answer, Loop, Caller
<1>11. CASE Copy
  BY <1>11 DEF Copy, CacheActioCopy, CanCopy, Ticks
<1>12. CASE Undone
  BY <1>12 DEF Undone
<1>13. CASE Pass
  BY <1>13 DEF Pass
<1>14. CASE Retry
  BY <1>14 DEF Retry
<1>15. CASE End
  BY <1>15 DEF End
<1>16. CASE Insert
  BY <1>16 DEF Insert
<1>17. CASE Flush
  BY <1>17 DEF Flush, Parts, LeftOut
<1>18. CASE Final
  BY <1>18 DEF Final, Answer, Loop, Caller
<1>19. CASE NoRound
  BY <1>19 DEF NoRound, Loop, Caller
<1>20. CASE BuildFast
  BY <1>20 DEF BuildFast
<1>21. CASE BuildSlow
  <2>1. CASE pc' = "erase"
    <3>1. /\ tail' = {} /\ unsaved' = unsaved \cup tail /\ vec' = vec
          /\ anchored' = anchored /\ sent' = sent /\ gone' = gone /\ pc = "sync"
      BY <1>21, <2>1 DEF BuildSlow
    <3>2. vec' \subseteq tail' \cup unsaved'
      BY <3>1
    <3>3. anchored' => tail' \cup unsaved' \subseteq vec' \cup sent' \cup gone'
      BY <3>1
    <3>4. QED
      BY <2>1, <3>2, <3>3
  <2>2. CASE pc' = "work"
    BY <1>21, <2>2 DEF BuildSlow
  <2>3. QED
    BY <1>21, <2>1, <2>2 DEF BuildSlow
<1>22. CASE EraseIndex
  BY <1>22 DEF EraseIndex
<1>23. CASE RoundDone
  BY <1>23 DEF RoundDone, Recorded, Parts, Loop, Caller
<1>24. CASE RoundSkips
  BY <1>24 DEF RoundSkips, Recorded, Parts, Loop, Caller
<1>25. CASE RoundFails
  BY <1>25 DEF RoundFails, Loop, Caller
<1>26. CASE Exit
  BY <1>26 DEF Exit, Parts, LeftOut, Ended
<1>27. CASE Close
  BY <1>27 DEF Close, Running
<1>28. CASE Resume
  BY <1>28 DEF Resume, Running
<1>29. CASE Leave
  BY <1>29 DEF Leave, Running
<1>30. CASE Crash
  BY <1>30 DEF Crash, Ended, CanCopy
<1>31. CASE UNCHANGED vars
  BY <1>31 DEF vars
<1>32. QED
  BY <1>1, <1>2, <1>3, <1>4, <1>5, <1>6, <1>7, <1>8, <1>9, <1>10, <1>11, <1>12,
     <1>13, <1>14, <1>15, <1>16, <1>17, <1>18, <1>19, <1>20, <1>21, <1>22,
     <1>23, <1>24, <1>25, <1>26, <1>27, <1>28, <1>29, <1>30, <1>31
     DEF Next, Thread, Prepares, Rounds

\* No action disappears.
LEMMA KeptStep ==
    ASSUME TypeOK, Written, Sending, KeptSafe, Next \/ UNCHANGED vars
    PROVE  Sending' /\ KeptSafe'
<1> USE JournalAssumption
         DEF TypeOK, Written, Sending, KeptSafe, Relied, watcher, lockfile, anchors,
             prepare, user, history
<1>1. CASE Act
  BY <1>1 DEF Act, HasEvent, Starting, Ticks
<1>2. CASE Quiet
  BY <1>2 DEF Quiet
<1>3. CASE Boot
  BY <1>3 DEF Boot
<1>4. CASE Initialize
  BY <1>4 DEF Initialize
<1>5. CASE Scan
  BY <1>5 DEF Scan
<1>6. CASE Clear
  BY <1>6 DEF Clear
<1>7. CASE Refused
  BY <1>7 DEF Refused, Loop, Caller
<1>8. CASE Passed
  BY <1>8 DEF Passed
<1>9. CASE Open
  BY <1>9 DEF Open
<1>10. CASE OpenFails
  BY <1>10 DEF OpenFails, Answer, Loop, Caller
<1>11. CASE Copy
  BY <1>11 DEF Copy, CacheActioCopy, CanCopy, Ticks
<1>12. CASE Undone
  BY <1>12 DEF Undone
<1>13. CASE Pass
  BY <1>13 DEF Pass
<1>14. CASE Retry
  BY <1>14 DEF Retry
<1>15. CASE End
  BY <1>15 DEF End
<1>16. CASE Insert
  BY <1>16 DEF Insert
<1>17. CASE Flush
  BY <1>17 DEF Flush, Parts, LeftOut
<1>18. CASE Final
  BY <1>18 DEF Final, Answer, Loop, Caller
<1>19. CASE NoRound
  BY <1>19 DEF NoRound, Loop, Caller
<1>20. CASE BuildFast
  BY <1>20 DEF BuildFast
<1>21. CASE BuildSlow
  BY <1>21 DEF BuildSlow
<1>22. CASE EraseIndex
  BY <1>22 DEF EraseIndex
<1>23. CASE RoundDone
  BY <1>23 DEF RoundDone, Recorded, Parts, Loop, Caller
<1>24. CASE RoundSkips
  BY <1>24 DEF RoundSkips, Recorded, Parts, Loop, Caller
<1>25. CASE RoundFails
  BY <1>25 DEF RoundFails, Loop, Caller
<1>26. CASE Exit
  BY <1>26 DEF Exit, Parts, LeftOut, Ended
<1>27. CASE Close
  BY <1>27 DEF Close, Running
<1>28. CASE Resume
  BY <1>28 DEF Resume, Running
<1>29. CASE Leave
  BY <1>29 DEF Leave, Running
<1>30. CASE Crash
  BY <1>30 DEF Crash, Ended, CanCopy
<1>31. CASE UNCHANGED vars
  BY <1>31 DEF vars
<1>32. QED
  BY <1>1, <1>2, <1>3, <1>4, <1>5, <1>6, <1>7, <1>8, <1>9, <1>10, <1>11, <1>12,
     <1>13, <1>14, <1>15, <1>16, <1>17, <1>18, <1>19, <1>20, <1>21, <1>22,
     <1>23, <1>24, <1>25, <1>26, <1>27, <1>28, <1>29, <1>30, <1>31
     DEF Next, Thread, Prepares, Rounds

\* What the picture shows is kept.
LEMMA RiverStep ==
    ASSUME TypeOK, Bounded, Written, RiverSending, RiverSafe, Next \/ UNCHANGED vars
    PROVE  RiverSending' /\ RiverSafe'
<1> USE JournalAssumption
         DEF TypeOK, Bounded, Written, RiverSending, RiverSafe, Relied, watcher,
             lockfile, anchors, prepare, user, history
<1>1. CASE Act
  BY <1>1 DEF Act, HasEvent, Starting, Ticks
<1>2. CASE Quiet
  BY <1>2 DEF Quiet
<1>3. CASE Boot
  BY <1>3 DEF Boot
<1>4. CASE Initialize
  BY <1>4 DEF Initialize
<1>5. CASE Scan
  BY <1>5 DEF Scan
<1>6. CASE Clear
  BY <1>6 DEF Clear
<1>7. CASE Refused
  BY <1>7 DEF Refused, Loop, Caller
<1>8. CASE Passed
  BY <1>8 DEF Passed
<1>9. CASE Open
  BY <1>9 DEF Open
<1>10. CASE OpenFails
  BY <1>10 DEF OpenFails, Answer, Loop, Caller
<1>11. CASE Copy
  BY <1>11 DEF Copy, CacheActioCopy, CanCopy, Ticks
<1>12. CASE Undone
  BY <1>12 DEF Undone
<1>13. CASE Pass
  BY <1>13 DEF Pass
<1>14. CASE Retry
  BY <1>14 DEF Retry
<1>15. CASE End
  BY <1>15 DEF End
<1>16. CASE Insert
  BY <1>16 DEF Insert
<1>17. CASE Flush
  BY <1>17 DEF Flush, Parts, LeftOut
<1>18. CASE Final
  BY <1>18 DEF Final, Answer, Loop, Caller
<1>19. CASE NoRound
  BY <1>19 DEF NoRound, Loop, Caller
<1>20. CASE BuildFast
  BY <1>20 DEF BuildFast
<1>21. CASE BuildSlow
  BY <1>21 DEF BuildSlow
<1>22. CASE EraseIndex
  BY <1>22 DEF EraseIndex
<1>23. CASE RoundDone
  BY <1>23 DEF RoundDone, Recorded, Parts, Loop, Caller
<1>24. CASE RoundSkips
  BY <1>24 DEF RoundSkips, Recorded, Parts, Loop, Caller
<1>25. CASE RoundFails
  BY <1>25 DEF RoundFails, Loop, Caller
<1>26. CASE Exit
  BY <1>26 DEF Exit, Parts, LeftOut, Ended
<1>27. CASE Close
  BY <1>27 DEF Close, Running
<1>28. CASE Resume
  BY <1>28 DEF Resume, Running
<1>29. CASE Leave
  BY <1>29 DEF Leave, Running
<1>30. CASE Crash
  BY <1>30 DEF Crash, Ended, CanCopy
<1>31. CASE UNCHANGED vars
  BY <1>31 DEF vars
<1>32. QED
  BY <1>1, <1>2, <1>3, <1>4, <1>5, <1>6, <1>7, <1>8, <1>9, <1>10, <1>11, <1>12,
     <1>13, <1>14, <1>15, <1>16, <1>17, <1>18, <1>19, <1>20, <1>21, <1>22,
     <1>23, <1>24, <1>25, <1>26, <1>27, <1>28, <1>29, <1>30, <1>31
     DEF Next, Thread, Prepares, Rounds

\* Who calls the preparation.
LEMMA CalledStep ==
    ASSUME TypeOK, Called, Next \/ UNCHANGED vars
    PROVE  Called'
<1> USE JournalAssumption
         DEF TypeOK, Called, Starting, watcher, lockfile, anchors, prepare, user,
             history
<1>1. CASE Act
  BY <1>1 DEF Act, HasEvent, Ticks
<1>2. CASE Quiet
  BY <1>2 DEF Quiet
<1>3. CASE Boot
  BY <1>3 DEF Boot
<1>4. CASE Initialize
  BY <1>4 DEF Initialize
<1>5. CASE Scan
  BY <1>5 DEF Scan
<1>6. CASE Clear
  BY <1>6 DEF Clear
<1>7. CASE Refused
  BY <1>7 DEF Refused, Loop, Caller
<1>8. CASE Passed
  BY <1>8 DEF Passed
<1>9. CASE Open
  BY <1>9 DEF Open
<1>10. CASE OpenFails
  BY <1>10 DEF OpenFails, Answer, Loop, Caller
<1>11. CASE Copy
  BY <1>11 DEF Copy, CacheActioCopy, CanCopy, Ticks
<1>12. CASE Undone
  BY <1>12 DEF Undone
<1>13. CASE Pass
  BY <1>13 DEF Pass
<1>14. CASE Retry
  BY <1>14 DEF Retry
<1>15. CASE End
  BY <1>15 DEF End
<1>16. CASE Insert
  BY <1>16 DEF Insert
<1>17. CASE Flush
  BY <1>17 DEF Flush, Parts, LeftOut
<1>18. CASE Final
  BY <1>18 DEF Final, Answer, Loop, Caller
<1>19. CASE NoRound
  BY <1>19 DEF NoRound, Loop, Caller
<1>20. CASE BuildFast
  BY <1>20 DEF BuildFast
<1>21. CASE BuildSlow
  BY <1>21 DEF BuildSlow
<1>22. CASE EraseIndex
  BY <1>22 DEF EraseIndex
<1>23. CASE RoundDone
  BY <1>23 DEF RoundDone, Recorded, Parts, Loop, Caller
<1>24. CASE RoundSkips
  BY <1>24 DEF RoundSkips, Recorded, Parts, Loop, Caller
<1>25. CASE RoundFails
  BY <1>25 DEF RoundFails, Loop, Caller
<1>26. CASE Exit
  BY <1>26 DEF Exit, Parts, LeftOut, Ended
<1>27. CASE Close
  BY <1>27 DEF Close, Running
<1>28. CASE Resume
  BY <1>28 DEF Resume, Running
<1>29. CASE Leave
  BY <1>29 DEF Leave, Running
<1>30. CASE Crash
  BY <1>30 DEF Crash, Ended, CanCopy
<1>31. CASE UNCHANGED vars
  BY <1>31 DEF vars
<1>32. QED
  BY <1>1, <1>2, <1>3, <1>4, <1>5, <1>6, <1>7, <1>8, <1>9, <1>10, <1>11, <1>12,
     <1>13, <1>14, <1>15, <1>16, <1>17, <1>18, <1>19, <1>20, <1>21, <1>22,
     <1>23, <1>24, <1>25, <1>26, <1>27, <1>28, <1>29, <1>30, <1>31
     DEF Next, Thread, Prepares, Rounds

\* Reports are remembered.
LEMMA HeardStep ==
    ASSUME TypeOK, Called, Heard, Next \/ UNCHANGED vars
    PROVE  Heard'
<1> USE JournalAssumption
         DEF TypeOK, Called, Heard, Starting, watcher, lockfile, anchors, prepare,
             user, history
<1>1. CASE Act
  BY <1>1 DEF Act, HasEvent, Ticks
<1>2. CASE Quiet
  BY <1>2 DEF Quiet
<1>3. CASE Boot
  BY <1>3 DEF Boot
<1>4. CASE Initialize
  BY <1>4 DEF Initialize
<1>5. CASE Scan
  BY <1>5 DEF Scan
<1>6. CASE Clear
  BY <1>6 DEF Clear
<1>7. CASE Refused
  BY <1>7 DEF Refused, Loop, Caller
<1>8. CASE Passed
  BY <1>8 DEF Passed
<1>9. CASE Open
  BY <1>9 DEF Open
<1>10. CASE OpenFails
  <2>1. Answer(-1) /\ last' = last /\ event' = event /\ closed' = closed /\ deaf' = deaf
    BY <1>10 DEF OpenFails
  <2>2. call # "start"
    BY <1>10 DEF OpenFails
  <2>3. CASE call = "exit"
    BY <2>1, <2>3 DEF Answer
  <2>4. CASE call = "loop"
    <3>1. again' /\ pc' \in {"open", "wait"}
      BY <2>1, <2>4, AnswerBelow DEF Loop
    <3>2. QED
      BY <3>1
  <2>5. QED
    BY <2>2, <2>3, <2>4
<1>11. CASE Copy
  BY <1>11 DEF Copy, CacheActioCopy, CanCopy, Ticks
<1>12. CASE Undone
  BY <1>12 DEF Undone
<1>13. CASE Pass
  BY <1>13 DEF Pass
<1>14. CASE Retry
  BY <1>14 DEF Retry
<1>15. CASE End
  BY <1>15 DEF End
<1>16. CASE Insert
  BY <1>16 DEF Insert
<1>17. CASE Flush
  BY <1>17 DEF Flush, Parts, LeftOut
<1>18. CASE Final
  <2> DEFINE v == IF pv THEN -1 ELSE lv
  <2>1. /\ Answer(v) /\ last' = last /\ event' = event /\ closed' = closed /\ deaf' = deaf
        /\ pc = "final" /\ v \in {-1, 0, 1}
    BY <1>18 DEF Final
  <2>2. v < 0 \/ (last # "zero" => event \/ closed \/ deaf)
    BY <2>1
  <2>3. call = "start" /\ last # "zero" => event \/ closed \/ deaf
    BY <2>1
  <2> HIDE DEF v
  <2>4. CASE call = "start"
    BY <2>1, <2>3, <2>4
  <2>5. CASE call = "exit"
    BY <2>1, <2>5 DEF Answer
  <2>6. CASE call = "loop" /\ v < 0
    <3>1. again' /\ pc' \in {"open", "wait"}
      BY <2>1, <2>6, AnswerBelow DEF Loop
    <3>2. QED
      BY <3>1
  <2>7. CASE call = "loop" /\ ~(v < 0)
    BY <2>1, <2>2, <2>7
  <2>8. QED
    BY <2>4, <2>5, <2>6, <2>7
<1>19. CASE NoRound
  BY <1>19 DEF NoRound, Loop, Caller
<1>20. CASE BuildFast
  BY <1>20 DEF BuildFast
<1>21. CASE BuildSlow
  BY <1>21 DEF BuildSlow
<1>22. CASE EraseIndex
  BY <1>22 DEF EraseIndex
<1>23. CASE RoundDone
  BY <1>23 DEF RoundDone, Recorded, Parts, Loop, Caller
<1>24. CASE RoundSkips
  BY <1>24 DEF RoundSkips, Recorded, Parts, Loop, Caller
<1>25. CASE RoundFails
  BY <1>25 DEF RoundFails, Loop, Caller
<1>26. CASE Exit
  BY <1>26 DEF Exit, Parts, LeftOut, Ended
<1>27. CASE Close
  BY <1>27 DEF Close, Running
<1>28. CASE Resume
  BY <1>28 DEF Resume, Running
<1>29. CASE Leave
  BY <1>29 DEF Leave, Running
<1>30. CASE Crash
  BY <1>30 DEF Crash, Ended, CanCopy
<1>31. CASE UNCHANGED vars
  BY <1>31 DEF vars
<1>32. QED
  BY <1>1, <1>2, <1>3, <1>4, <1>5, <1>6, <1>7, <1>8, <1>9, <1>10, <1>11, <1>12,
     <1>13, <1>14, <1>15, <1>16, <1>17, <1>18, <1>19, <1>20, <1>21, <1>22,
     <1>23, <1>24, <1>25, <1>26, <1>27, <1>28, <1>29, <1>30, <1>31
     DEF Next, Thread, Prepares, Rounds

(***************************************************************************)
(* The inductive invariant.                                                 *)
(***************************************************************************)
IInv ==
    /\ TypeOK /\ Tried /\ Bounded /\ Written
    /\ Sending /\ KeptSafe /\ RiverSending /\ RiverSafe /\ Called /\ Heard

LEMMA First == Init => IInv
<1> SUFFICES ASSUME Init PROVE IInv
  OBVIOUS
<1>1. TypeOK /\ Tried
  <2>1. acted \in 0..MaxActs /\ stops \in 0..MaxStops /\ tries \in 0..MaxRetry
    BY JournalAssumption DEF Init
  <2>2. /\ quiet \in BOOLEAN /\ event \in BOOLEAN /\ deaf \in BOOLEAN
        /\ anchored \in BOOLEAN /\ filed \in BOOLEAN /\ pv \in BOOLEAN
        /\ again \in BOOLEAN /\ closed \in BOOLEAN /\ leaving \in BOOLEAN
    BY DEF Init
  <2>3. QED
    BY <2>1, <2>2 DEF Init, TypeOK, Tried, Acts, Ticks, Places
<1>2. Bounded /\ Written
  BY DEF Init, Bounded, Written, Starting
<1>3. Sending /\ KeptSafe
  BY DEF Init, Sending, KeptSafe, Relied
<1>4. RiverSending /\ RiverSafe /\ Called /\ Heard
  BY DEF Init, RiverSending, RiverSafe, Relied, Called, Heard, Starting
<1>5. QED
  BY <1>1, <1>2, <1>3, <1>4 DEF IInv

LEMMA Later == IInv /\ [Next]_vars => IInv'
<1> SUFFICES ASSUME IInv, Next \/ UNCHANGED vars
             PROVE  IInv'
  OBVIOUS
<1> USE DEF IInv
<1>1. TypeOK' /\ Tried'
  BY TypeStep
<1>2. Bounded'
  BY BoundedStep
<1>3. Written'
  BY WrittenStep
<1>4. Sending' /\ KeptSafe'
  BY KeptStep
<1>5. RiverSending' /\ RiverSafe'
  BY RiverStep
<1>6. Called'
  BY CalledStep
<1>7. Heard'
  BY HeardStep
<1>8. QED
  BY <1>1, <1>2, <1>3, <1>4, <1>5, <1>6, <1>7

LEMMA Invariance == Spec => []IInv
<1>1. Init => IInv
  BY First
<1>2. IInv /\ [Next]_vars => IInv'
  BY Later
<1>3. QED
  BY <1>1, <1>2, PTL DEF Spec

(***************************************************************************)
(* Every reachable state is well typed, for any bounds.                     *)
(***************************************************************************)
THEOREM TypeCorrect == Spec => []TypeOK
<1>1. IInv => TypeOK
  BY DEF IInv
<1>2. QED
  BY <1>1, Invariance, PTL

(***************************************************************************)
(* ActionHandler.cpp, LockedAction.cpp and AnchorBzl.cpp: an action of the  *)
(* user is somewhere on its way to the server at every moment, wherever the *)
(* program is killed and whichever write of the anchor files fails, or was  *)
(* dropped at one of the places that Kept names.                            *)
(***************************************************************************)
THEOREM KeptCorrect == Spec => []Kept
<1>1. IInv => Kept
  BY DEF IInv, KeptSafe, Relied, Written, Kept, Known
<1>2. QED
  BY <1>1, Invariance, PTL

(***************************************************************************)
(* AnchorBzl.cpp:98-112 and 451-473: what the picture of the disk already   *)
(* shows is in the lock file or in the file of the anchors, or is known to  *)
(* have been left out of it by a failed write or a half-done erasure.       *)
(***************************************************************************)
THEOREM RiverCorrect == Spec => []RiverKept
<1>1. IInv => RiverKept
  BY DEF IInv, RiverSafe, Relied, RiverKept
<1>2. QED
  BY <1>1, Invariance, PTL

(***************************************************************************)
(* ActionHandler.cpp:75-108 and TRANSThread.cpp:77-123: the event and what  *)
(* the thread remembers never miss a report, but for one that came before   *)
(* there was an event.                                                      *)
(***************************************************************************)
THEOREM WokenCorrect == Spec => []Woken
<1>1. IInv => Woken
  BY DEF IInv, Heard, Woken
<1>2. QED
  BY <1>1, Invariance, PTL
=============================================================================
