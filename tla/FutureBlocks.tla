---------------------------- MODULE FutureBlocks ----------------------------
(***************************************************************************)
(* FutureBlockContainer and its two users.  A handler that receives a      *)
(* header too far ahead of the clock puts it in the container; the timer   *)
(* takes out the headers whose time has come and inserts them into the     *)
(* synchronization graph.                                                  *)
(*                                                                         *)
(* A handler reads the clock once, looks whether the header is known and   *)
(* calls insert later, so both readings may be stale when insert runs.     *)
(***************************************************************************)
EXTENDS Integers, FiniteSets

CONSTANTS Headers,    \* block headers
          Handlers,   \* threads that handle header responses
          Timestamp,  \* the timestamp of each header
          Capacity,   \* future_block_buffer_capacity
          Drift,      \* ACCEPTABLE_TIME_DRIFT
          MaxTime,    \* bound: the clock stops here
          None        \* a handler with no header in hand

ASSUME FutureAssumption ==
  /\ IsFiniteSet(Headers) /\ None \notin Headers
  /\ {Capacity, Drift, MaxTime} \subseteq Nat
  /\ Timestamp \in [Headers -> 0 .. MaxTime]

VARIABLES
  container,  \* container: the hashes at each timestamp, {} for no entry
  index,      \* the keys of hash_to_header_and_peer
  size,       \* size
  now,        \* the clock, in seconds
  hand,       \* the header each handler is about to insert
  due,        \* the headers the timer has taken and not yet inserted
  graph,      \* headers insert_block_header has been called with
  evicted     \* headers removed for lack of room

vars == <<container, index, size, now, hand, due, graph, evicted>>

Init ==
  /\ container = [ts \in 0 .. MaxTime |-> {}]
  /\ index = {} /\ size = 0 /\ now = 0
  /\ hand = [t \in Handlers |-> None]
  /\ due = {} /\ graph = {} /\ evicted = {}

Tick ==
  /\ now < MaxTime
  /\ now' = now + 1
  /\ UNCHANGED <<container, index, size, hand, due, graph, evicted>>

(* handle_block_headers: a header that is not known and lies more than the *)
(* acceptable drift ahead of the clock read earlier is to be delayed; one  *)
(* that is not goes into the graph.                                        *)
Receive(t, h) ==
  /\ hand[t] = None
  /\ h \notin graph \cup index
  /\ \E seen \in 0 .. now :
       IF Timestamp[h] > seen + Drift
       THEN hand' = [hand EXCEPT ![t] = h] /\ UNCHANGED graph
       ELSE graph' = graph \cup {h} /\ UNCHANGED hand
  /\ UNCHANGED <<container, index, size, now, due, evicted>>

(* The container with h, and the headers an insertion may remove again:    *)
(* any of those with the latest timestamp.                                 *)
With(h) == [container EXCEPT ![Timestamp[h]] = @ \cup {h}]
Latest(h) ==
  {g \in index \cup {h} : \A f \in index \cup {h} : Timestamp[f] <= Timestamp[g]}

SizeAfterInsertTwice(n) == IF n > Capacity THEN n - 2 ELSE n
(* The size after an insertion that made it n, of which one may go again. *)
SizeAfterInsert(n) == IF n > Capacity THEN n - 1 ELSE n

Insert(t) ==
  /\ hand[t] # None
  /\ hand' = [hand EXCEPT ![t] = None]
  /\ LET h == hand[t]
     IN  IF h \in index
         THEN UNCHANGED <<container, index, size, evicted>>
         ELSE /\ size' = SizeAfterInsert(size + 1)
              /\ IF size + 1 > Capacity
                 THEN \E g \in Latest(h) :
                        /\ container' = [With(h) EXCEPT ![Timestamp[g]] = @ \ {g}]
                        /\ index' = (index \cup {h}) \ {g}
                        /\ evicted' = evicted \cup {g}
                 ELSE /\ container' = With(h)
                      /\ index' = index \cup {h}
                      /\ UNCHANGED evicted
  /\ UNCHANGED <<now, due, graph>>

IndexWithout(gone) == index \ gone

(* get_before: every slot up to the clock is taken out. *)
Before == UNION {container[ts] : ts \in 0 .. now}

GetBefore ==
  /\ Before # {}
  /\ due' = due \cup Before
  /\ container' = [ts \in 0 .. MaxTime |-> IF ts <= now THEN {} ELSE container[ts]]
  /\ index' = IndexWithout(Before)
  /\ UNCHANGED <<size, now, hand, graph, evicted>>

InsertDueFirstOnly(h) ==
  /\ h \in due
  /\ due' = {}
  /\ graph' = graph \cup {h}
  /\ UNCHANGED <<container, index, size, now, hand, evicted>>

(* check_future_blocks inserts what it has taken, one header at a time. *)
InsertDue(h) ==
  /\ h \in due
  /\ due' = due \ {h}
  /\ graph' = graph \cup {h}
  /\ UNCHANGED <<container, index, size, now, hand, evicted>>

Next ==
  \/ Tick
  \/ \E t \in Handlers : Insert(t) \/ \E h \in Headers : Receive(t, h)
  \/ GetBefore
  \/ \E h \in Headers : InsertDue(h)

Spec == Init /\ [][Next]_vars

(* The clock runs, the timer fires and its handler does not stop. *)
FairSpec ==
  /\ Spec
  /\ WF_vars(Tick) /\ WF_vars(GetBefore)
  /\ \A h \in Headers : WF_vars(InsertDue(h))

-----------------------------------------------------------------------------
(* The values the state ranges over; the size is within the capacity. *)
FutureTypeOK ==
  /\ container \in [0 .. MaxTime -> SUBSET Headers]
  /\ index \subseteq Headers /\ size \in 0 .. Capacity /\ now \in 0 .. MaxTime
  /\ hand \in [Handlers -> Headers \cup {None}]
  /\ due \subseteq Headers /\ graph \subseteq Headers /\ evicted \subseteq Headers

(* "hash and header are inserted/removed together atomically": get_before  *)
(* finds the header of every hash it takes, whatever was inserted, taken   *)
(* and evicted before.                                                     *)
IndexMatches ==
  \A h \in Headers, ts \in 0 .. MaxTime :
    h \in container[ts] <=> h \in index /\ ts = Timestamp[h]

(* The container never holds more headers than its size says, hence than   *)
(* its capacity, so that `size -= 1` cannot wrap.                          *)
WithinCapacity == Cardinality(index) <= size

(* A header makes room only for one that is due earlier or at the same     *)
(* time: the headers that are needed first stay.                           *)
EvictsLatest ==
  [][\A g \in evicted' \ evicted : \A h \in index' : Timestamp[h] <= Timestamp[g]]_vars

(* "They will be inserted into sync graph inner at their timestamp", or    *)
(* have been evicted.                                                      *)
FutureInserted == \A h \in Headers : (h \in index) ~> (h \in graph \cup evicted)
=============================================================================
