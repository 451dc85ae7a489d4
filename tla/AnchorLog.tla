------------------------------ MODULE AnchorLog ------------------------------
(***************************************************************************)
(* The anchor files of one user and the lists served from them.  The data   *)
(* file holds the recorded actions in order; the index file holds, for each *)
(* anchor, where the actions after it begin.  A device that has an anchor   *)
(* gets the actions after it ("fast"), any other the whole pool ("slow").   *)
(*                                                                          *)
(* Sessions are taken from SyncSession as they are when nobody races: the   *)
(* account is held by one device, or by clear_backup, which cuts the files, *)
(* or by nobody until its lease lapses.  An action is a number, the order   *)
(* in which actions are carried out; what creat_active_alist merges in a    *)
(* list is left out.                                                        *)
(***************************************************************************)
EXTENDS Integers, Sequences

CONSTANTS
    Devices,
    None,       \* nobody holds the account
    Tool,       \* clear_backup holds it
    Gone,       \* its holder died or left: it is held until the lease lapses
    EntrySize,  \* sizeof (struct idxent): search_anchor divides by it
    Backlog,    \* anchors at the start
    MaxActs,    \* bound: actions carried out
    MaxAnchor   \* bound: anchor numbers

ASSUME AnchorAssumption ==
    /\ EntrySize \in Nat \ {0}
    /\ Backlog \in Nat /\ MaxActs \in Nat /\ MaxAnchor \in Nat
    /\ Backlog <= MaxAnchor
    /\ {None, Tool, Gone} \cap Devices = {}
    /\ None # Tool /\ Tool # Gone /\ Gone # None

VARIABLES
    idx,     \* anchor_index.ndx
    acd,     \* anchor_data.dat
    cached,  \* cached_anchor of the account in the authentication cache
    holder,  \* who holds the account
    seion,   \* the holder's list_data: last_anchor, anchor_cached, list_cache
    list,    \* action_list, recorded when the session ends
    listing, \* anchor_file.xml: the actions in it, or NoListing
    probe,   \* the tokens of a search that is going on
    dev,     \* the devices
    cut,     \* what clear_backup is doing
    pool,    \* actions carried out so far
    mark,    \* history: what was recorded when an anchor was made
    log,     \* history: what was ever recorded
    damaged  \* history: an anchor file was lost, the data file cut without its index,
             \* or a list written in part

vars == <<idx, acd, cached, holder, seion, list, listing, probe, dev, cut, pool,
          mark, log, damaged>>

files == <<idx, acd, mark, log, damaged>>

Acts == 1..MaxActs
NoListing == {0}
NoProbe == [min |-> 0, mid |-> 0, max |-> 0]
NoSeion == [last |-> 0, cached |-> FALSE, flag |-> FALSE]
NoCut == [step |-> "none", first |-> 0, oset |-> 0, bad |-> FALSE]

Elements(s) == {s[i] : i \in 1..Len(s)}
After(s, n) == SubSeq(s, n + 1, Len(s))  \* <<>> when n > Len(s), as at end of file

Init ==
    /\ idx = [i \in 1..Backlog |-> [anchor |-> i, oset |-> 0]]
    /\ acd = <<>>
    /\ cached \in {0, Backlog}
    /\ holder = None
    /\ seion = NoSeion /\ list = <<>> /\ listing = NoListing /\ probe = NoProbe
    /\ dev \in [Devices -> {[step |-> "idle", anchor |-> n, knows |-> {}, got |-> {}]
                            : n \in 0..Backlog}]
    /\ cut = NoCut
    /\ pool = 0
    /\ mark = [n \in 1..MaxAnchor |-> {}] /\ log = {} /\ damaged = FALSE

(***************************************************************************)
(* The anchor files.                                                        *)
(***************************************************************************)
LastAnchor(index) == IF index = <<>> THEN 0 ELSE index[Len(index)].anchor

\* flush_anch_list: all of the list, or a part of it when the disk fails.
Flushed(n) ==
    /\ acd' = acd \o SubSeq(list, 1, n)
    /\ log' = log \cup Elements(SubSeq(list, 1, n))

\* addi_anchor: the next number, and where the data file ends now.
Addi ==
    LET n == LastAnchor(idx) + 1
    IN  /\ n <= MaxAnchor
        /\ idx' = Append(idx, [anchor |-> n, oset |-> Len(acd')])
        /\ mark' = [mark EXCEPT ![n] = log']

\* clear_list_cache, which trusts the flags of the session.
Cleared == listing' = IF seion.flag THEN NoListing ELSE listing

\* The account is given back, and the cache told the session's anchor unless
\* it came from there.
Returned ==
    /\ holder' = None
    /\ seion' = NoSeion
    /\ cached' = IF seion.cached \/ seion.last = 0 THEN cached ELSE seion.last

(***************************************************************************)
(* A session begins.                                                        *)
(***************************************************************************)
Begin(d) ==
    /\ holder = None
    /\ holder' = d
    /\ seion' = [last |-> IF cached = 0 THEN LastAnchor(idx) ELSE cached,
                 cached |-> cached # 0, flag |-> FALSE]
    /\ dev' = [dev EXCEPT ![d].step = "head"]
    /\ UNCHANGED <<files, cached, list, listing, probe, cut, pool>>

(***************************************************************************)
(* GetListHead.  A device without a usable anchor compares the whole pool,  *)
(* and erases its anchor.                                                   *)
(***************************************************************************)
Slow(d) ==
    dev' = [dev EXCEPT ![d].step = "work", ![d].anchor = 0, ![d].got = 1..pool]

Asks(d) == holder = d /\ dev[d].step = "head" /\ probe = NoProbe

Usable(d) == dev[d].anchor # 0 /\ seion.last >= dev[d].anchor

HeadSlow(d) ==
    /\ Asks(d) /\ ~Usable(d)
    /\ Slow(d)
    /\ UNCHANGED <<files, cached, holder, seion, list, listing, probe, cut, pool>>

\* Mutant: the list is opened though it is not there.
HeadCachedAny(d) ==
    /\ Asks(d) /\ Usable(d)
    /\ dev' = [dev EXCEPT ![d].step = "work", ![d].got = listing]
    /\ seion' = [seion EXCEPT !.flag = TRUE]
    /\ UNCHANGED <<files, cached, holder, list, listing, probe, cut, pool>>

\* build_anchor_file: a list that was built within CACHE_INTERVAL_TIME is
\* served again, whatever anchor it was built for.
HeadCached(d) ==
    /\ Asks(d) /\ Usable(d)
    /\ listing # NoListing
    /\ dev' = [dev EXCEPT ![d].step = "work", ![d].got = listing]
    /\ seion' = [seion EXCEPT !.flag = TRUE]
    /\ UNCHANGED <<files, cached, holder, list, listing, probe, cut, pool>>

\* search_anchor begins; of an empty index it knows the answer.
HeadSearch(d) ==
    /\ Asks(d) /\ Usable(d)
    /\ listing = NoListing
    /\ IF idx = <<>> THEN Slow(d) /\ UNCHANGED probe
       ELSE /\ probe' = [min |-> 1, mid |-> 1 + Len(idx) \div 2, max |-> Len(idx)]
            /\ UNCHANGED dev
    /\ UNCHANGED <<files, cached, holder, seion, list, listing, cut, pool>>

(***************************************************************************)
(* One round of the loop of search_anchor.  The difference of two pointers  *)
(* to entries is a number of entries already and is divided once more.      *)
(***************************************************************************)
Half(from, to) == ((to - from) \div EntrySize) \div 2

\* Mutant: the step upwards may be 0.
UpwardsStuck(p) ==
    [min |-> p.mid, max |-> p.max, mid |-> p.mid + Half(p.mid, p.max)]

Upwards(p) ==
    LET h == Half(p.mid, p.max)
    IN  [min |-> p.mid, max |-> p.max, mid |-> p.mid + IF h = 0 THEN 1 ELSE h]

\* Mutant: the entry compared last is left out of the rest.
DownwardsPast(p) ==
    [min |-> p.min, max |-> p.mid - 1, mid |-> p.min + Half(p.min, p.mid - 1)]

Downwards(p) ==
    [min |-> p.min, max |-> p.mid, mid |-> p.min + Half(p.min, p.mid)]

\* The loop goes on, or the anchor is not there: NOT_FOUND.
Goes(d, p) ==
    /\ IF p.min = p.max THEN probe' = NoProbe /\ Slow(d)
                        ELSE probe' = p /\ UNCHANGED dev
    /\ UNCHANGED <<seion, listing>>

\* get_alist_by_idxent reads from the entry's offset to the end of the file.
\* An offset below zero (see CutIndex) is an error, and so is the answer.
Found(d) ==
    LET oset == idx[probe.mid].oset
        got == Elements(After(acd, oset))
    IN  /\ probe' = NoProbe
        /\ IF oset < 0 THEN UNCHANGED <<listing, dev, seion>>
           ELSE /\ listing' = got
                /\ dev' = [dev EXCEPT ![d].step = "work", ![d].got = got]
                /\ seion' = [seion EXCEPT !.flag = TRUE]

Search(d) ==
    /\ holder = d /\ probe # NoProbe
    /\ LET a == dev[d].anchor
           n == idx[probe.mid].anchor
       IN  \/ a > n /\ Goes(d, Upwards(probe))
           \/ a < n /\ Goes(d, Downwards(probe))
           \/ a = n /\ Found(d)
    /\ UNCHANGED <<files, cached, holder, list, cut, pool>>

\* flush_alist_xmlfile looks at no error of its writes: of a list on a full disk
\* a part is there, and is served.
FoundTorn(d) ==
    /\ holder = d /\ probe # NoProbe
    /\ idx[probe.mid].anchor = dev[d].anchor /\ idx[probe.mid].oset >= 0
    /\ \E part \in SUBSET Elements(After(acd, idx[probe.mid].oset)) :
         /\ listing' = part
         /\ dev' = [dev EXCEPT ![d].step = "work", ![d].got = part]
    /\ probe' = NoProbe
    /\ seion' = [seion EXCEPT !.flag = TRUE]
    /\ damaged' = TRUE
    /\ UNCHANGED <<idx, acd, mark, log, cached, holder, list, cut, pool>>

(***************************************************************************)
(* The device works, and ends its session (FinishTasksList).                *)
(***************************************************************************)
Work(d) == holder = d /\ dev[d].step = "work"

Act(d) ==
    /\ Work(d) /\ pool < MaxActs
    /\ pool' = pool + 1
    /\ list' = Append(list, pool + 1)
    /\ dev' = [dev EXCEPT ![d].knows = @ \cup {pool + 1}]
    /\ UNCHANGED <<files, cached, holder, seion, listing, probe, cut>>

\* RETRY_PRODUCER_TIMES: the list could not be loaded, and is asked for again.
Again(d) ==
    /\ Work(d) /\ list = <<>>
    /\ dev' = [dev EXCEPT ![d].step = "head", ![d].got = {}]
    /\ UNCHANGED <<files, cached, holder, seion, list, listing, probe, cut, pool>>

Tasks(d) == list # <<>> \/ ~(dev[d].got \subseteq dev[d].knows)

Settled(d, anchor) ==
    dev' = [dev EXCEPT ![d] = [step |-> "idle", anchor |-> anchor,
                               knows |-> @.knows \cup @.got, got |-> {}]]

Idled(d) == dev' = [dev EXCEPT ![d].step = "idle", ![d].got = {}]

\* FINAL SUCCESS.  Without the response the device keeps its anchor.
Success(d) ==
    /\ Work(d)
    /\ \/ list # <<>>
       \/ dev[d].anchor = seion.last /\ (Tasks(d) \/ seion.last = 0)
    /\ Flushed(Len(list)) /\ Addi
    /\ list' = <<>>
    /\ Cleared
    /\ holder' = None /\ seion' = NoSeion /\ cached' = LastAnchor(idx')
    /\ \E told \in BOOLEAN : Settled(d, IF told THEN cached' ELSE dev[d].anchor)
    /\ UNCHANGED <<damaged, probe, cut, pool>>

\* add_anchor_bzl fails: on the way through the list, at the index, or after
\* it (reset_capacity).  The session stays, with nobody to end it.
SuccessFails(d) ==
    /\ Work(d) /\ list # <<>>
    /\ \E n \in 0..Len(list) :
         /\ Flushed(n)
         /\ \/ UNCHANGED <<idx, mark>>
            \/ n = Len(list) /\ Addi
    /\ holder' = Gone /\ seion' = NoSeion /\ list' = <<>>
    /\ Settled(d, dev[d].anchor)
    /\ UNCHANGED <<cached, damaged, listing, probe, cut, pool>>

\* Mutant: the list stays, for the session after it.
FinishKeeps ==
    /\ Cleared
    /\ Returned
    /\ UNCHANGED <<files, list, probe, cut, pool>>

\* FINAL FINISH: the list is dropped.
Finish ==
    /\ list' = <<>>
    /\ Cleared
    /\ Returned
    /\ UNCHANGED <<files, probe, cut, pool>>

\* LIST_FINISH_UPDATE: only the device changed, it has the server's anchor now.
Update(d) ==
    /\ Work(d) /\ list = <<>> /\ dev[d].anchor # seion.last
    /\ Finish
    /\ Settled(d, seion.last)

Leave(d) ==
    /\ Work(d) /\ ~Tasks(d) /\ dev[d].anchor = seion.last /\ seion.last # 0
    /\ Finish
    /\ Settled(d, dev[d].anchor)

Fail(d) ==
    /\ holder = d /\ probe = NoProbe
    /\ Finish
    /\ Idled(d)

(***************************************************************************)
(* What else ends a session: its last connection breaks, and the list is    *)
(* recorded without an anchor; or the server process dies, or the device    *)
(* leaves without FINAL, and the account stays locked.                      *)
(***************************************************************************)
Break(d) ==
    /\ holder = d /\ probe = NoProbe
    /\ \E n \in 0..Len(list) : Flushed(n)
    /\ list' = <<>>
    /\ Cleared
    /\ Returned
    /\ Idled(d)
    /\ UNCHANGED <<idx, mark, damaged, probe, cut, pool>>

Die(d) ==
    /\ holder = d
    /\ holder' = Gone /\ seion' = NoSeion /\ list' = <<>> /\ probe' = NoProbe
    /\ Idled(d)
    /\ UNCHANGED <<files, cached, listing, cut, pool>>

(***************************************************************************)
(* CACHE_INTERVAL_TIME, 45 seconds, is over before a lease, 300, lapses.    *)
(***************************************************************************)
Stale ==
    /\ listing # NoListing
    /\ listing' = NoListing
    /\ UNCHANGED <<files, cached, holder, seion, list, probe, dev, cut, pool>>

Lapse ==
    /\ holder = Gone /\ listing = NoListing
    /\ holder' = None
    /\ UNCHANGED <<files, cached, seion, list, listing, probe, dev, cut, pool>>

(***************************************************************************)
(* clear_backup (erase_anchor): the entries older than a day are cut off    *)
(* the index, then what they alone cover off the data file, whether or not  *)
(* the index was cut; if either failed, both files are deleted, one after   *)
(* the other.  Killed on the way, it may also have deleted a file that it   *)
(* was about to replace, and the account stays locked.                      *)
(***************************************************************************)
CutBegin ==
    /\ holder = None /\ Len(idx) > 1
    /\ holder' = Tool
    /\ \E first \in 2..Len(idx) :
         cut' = [step |-> "index", first |-> first, oset |-> idx[first].oset,
                 bad |-> FALSE]
    /\ UNCHANGED <<files, cached, seion, list, listing, probe, dev, pool>>

\* Mutant: the offsets are those of the uncut data file.
CutIndexOnly ==
    /\ cut.step = "index"
    /\ idx' = After(idx, cut.first - 1)
    /\ cut' = [cut EXCEPT !.step = "data"]
    /\ UNCHANGED <<acd, mark, log, damaged, cached, holder, seion, list, listing,
                   probe, dev, pool>>

\* The offsets are off_t: below zero where a lost data file began anew.
CutIndex ==
    /\ cut.step = "index"
    /\ LET kept == After(idx, cut.first - 1)
       IN  idx' = [i \in 1..Len(kept) |-> [kept[i] EXCEPT !.oset = @ - cut.oset]]
    /\ cut' = [cut EXCEPT !.step = "data"]
    /\ UNCHANGED <<acd, mark, log, damaged, cached, holder, seion, list, listing,
                   probe, dev, pool>>

IndexFails ==
    /\ cut.step = "index"
    /\ cut' = [cut EXCEPT !.step = "data", !.bad = TRUE]
    /\ UNCHANGED <<files, cached, holder, seion, list, listing, probe, dev, pool>>

CutData ==
    /\ cut.step = "data" /\ cut.oset >= 0
    /\ acd' = After(acd, cut.oset)
    /\ \/ cut.bad /\ cut' = [cut EXCEPT !.step = "noindex"] /\ damaged' = TRUE
       \/ ~cut.bad /\ cut' = [cut EXCEPT !.step = "end"] /\ UNCHANGED damaged
    /\ UNCHANGED <<idx, mark, log, cached, holder, seion, list, listing, probe,
                   dev, pool>>

DataFails ==
    /\ cut.step = "data"
    /\ cut' = [cut EXCEPT !.step = "noindex"]
    /\ UNCHANGED <<files, cached, holder, seion, list, listing, probe, dev, pool>>

\* anchor_exception.
UnlinkIndex ==
    /\ cut.step = "noindex"
    /\ idx' = <<>> /\ damaged' = TRUE
    /\ cut' = [cut EXCEPT !.step = "nodata"]
    /\ UNCHANGED <<acd, mark, log, cached, holder, seion, list, listing, probe,
                   dev, pool>>

UnlinkData ==
    /\ cut.step = "nodata"
    /\ acd' = <<>>
    /\ cut' = [cut EXCEPT !.step = "end"]
    /\ UNCHANGED <<idx, mark, log, damaged, cached, holder, seion, list, listing,
                   probe, dev, pool>>

CutKilled ==
    /\ cut.step # "none"
    /\ \/ UNCHANGED <<idx, acd, damaged>>
       \/ cut.step = "index" /\ idx' = <<>> /\ acd' = acd /\ damaged' = TRUE
       \/ cut.step = "data" /\ idx' = idx /\ acd' = <<>> /\ damaged' = TRUE
    /\ cut' = NoCut /\ holder' = Gone
    /\ UNCHANGED <<mark, log, cached, seion, list, listing, probe, dev, pool>>

CutEnd ==
    /\ cut.step = "end"
    /\ cut' = NoCut /\ holder' = None
    /\ UNCHANGED <<files, cached, seion, list, listing, probe, dev, pool>>

Device(d) ==
    \/ Begin(d) \/ HeadSlow(d) \/ HeadCached(d) \/ HeadSearch(d) \/ Search(d)
    \/ Act(d) \/ Again(d) \/ Success(d) \/ SuccessFails(d) \/ Update(d)
    \/ Leave(d) \/ Fail(d) \/ Break(d) \/ Die(d)

Next ==
    \/ \E d \in Devices : Device(d) \/ FoundTorn(d)
    \/ Stale \/ Lapse
    \/ CutBegin \/ CutIndex \/ IndexFails \/ CutData \/ DataFails
    \/ UnlinkIndex \/ UnlinkData \/ CutKilled \/ CutEnd

Spec == Init /\ [][Next]_vars

\* The server's loop runs on; the process may still die in it.
FairSpec == Spec /\ \A d \in Devices : WF_vars(Search(d))

TypeOK ==
    /\ idx \in Seq([anchor : 1..MaxAnchor, oset : Int])
    /\ acd \in Seq(Acts) /\ list \in Seq(Acts)
    /\ cached \in 0..MaxAnchor
    /\ holder \in Devices \cup {None, Tool, Gone}
    /\ seion \in [last : 0..MaxAnchor, cached : BOOLEAN, flag : BOOLEAN]
    /\ listing = NoListing \/ listing \subseteq Acts
    /\ probe \in [min : Nat, mid : Nat, max : Nat]
    /\ dev \in [Devices -> [step : {"idle", "head", "work"}, anchor : 0..MaxAnchor,
                            knows : SUBSET Acts, got : SUBSET Acts]]
    /\ cut \in [step : {"none", "index", "data", "noindex", "nodata", "end"},
               first : Nat, oset : Int, bad : BOOLEAN]
    /\ pool \in 0..MaxActs
    /\ mark \in [1..MaxAnchor -> SUBSET Acts] /\ log \subseteq Acts
    /\ damaged \in BOOLEAN

(***************************************************************************)
(* As long as nothing was damaged (a kill or a failure of clear_backup that *)
(* costs a file or leaves it cut beside an uncut index, a list written in   *)
(* part): a device that has an anchor knows every action recorded before    *)
(* it, and one that has its list will know every action recorded at all,    *)
(* its anchor found by a search or not, its list built for it or found on   *)
(* the disk, the files cut or half cut.                                     *)
(***************************************************************************)
NothingMissed ==
    ~damaged => \A d \in Devices :
        /\ dev[d].anchor # 0 => mark[dev[d].anchor] \subseteq dev[d].knows
        /\ dev[d].step = "work" => log \subseteq dev[d].knows \cup dev[d].got

(***************************************************************************)
(* The anchor files implement ChangeLog: what an anchor stands for is what  *)
(* was recorded when it was made.  Files that are cut, and lists built for  *)
(* another session, show nowhere; what is damaged is lost.                  *)
(***************************************************************************)
Seen(d) == IF damaged \/ dev[d].anchor = 0 THEN {} ELSE mark[dev[d].anchor]

Changes == INSTANCE ChangeLog WITH
    done <- 1..pool,
    knows <- [d \in Devices |-> dev[d].knows],
    seen <- [d \in Devices |-> Seen(d)],
    lost <- damaged

ImplementsChangeLog == Changes!Spec

(***************************************************************************)
(* search_anchor reads no entry outside the mapped file, and an anchor that *)
(* is in the index lies among the entries it has not ruled out: it never    *)
(* answers NOT_FOUND for it.                                                *)
(***************************************************************************)
SearchInside ==
    probe # NoProbe =>
        /\ {probe.min, probe.mid, probe.max} \subseteq 1..Len(idx)
        /\ \A i \in 1..Len(idx) : idx[i].anchor = dev[holder].anchor =>
               probe.min <= i /\ i <= probe.max

(***************************************************************************)
(* The search ends, whatever anchor it looks for and whatever was cut; for  *)
(* that long the server serves nobody.                                      *)
(***************************************************************************)
SearchEnds == probe # NoProbe ~> probe = NoProbe
=============================================================================
