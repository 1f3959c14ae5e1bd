---------------------------- MODULE RequestProofs ----------------------------
(***************************************************************************)
(* Proofs about RequestManager: whoever takes a key in flight out of one    *)
(* place (the waiting requests, a peer's container, the queue of received   *)
(* blocks, a handler) puts it in another, and a peer's container never      *)
(* forgets a request.                                                       *)
(*                                                                          *)
(* Sequences are handled by their ranges: AllJobs is the set of calls the   *)
(* threads still have to make, and a step of a thread replaces the first    *)
(* of its calls by others.                                                  *)
(***************************************************************************)
EXTENDS RequestManager, FiniteSetTheorems, TLAPS

HasKey(req, c, h) == Class(req.type) = c /\ h \in req.hashes

(* A call of a thread answers for the key h.  A "request" has not passed   *)
(* with_inflight yet and does not, unless it reuses a key it was given.    *)
Carries(j, c, h) ==
  \/ j.op \in {"check", "send", "unsent", "wait", "again"} /\ HasKey(j.req, c, h)
  \/ j.op = "request" /\ j.req.type = "txn" /\ HasKey(j.req, c, h)
  \/ j.op = "received" /\ j.class = c /\ h \in j.requested
  \/ j.op \in {"dispatch", "recover"} /\ c = "blocks" /\ h \in j.task.requested
  \/ j.op = "timeout" /\ \E m \in Range(j.msgs) : HasKey(m.req, c, h)
  \/ j.op = "resend" /\ \E m \in j.rest \cup j.batch : HasKey(m.req, c, h)
  \/ j.op = "batched" /\ HasKey(j.msg.req, c, h)

(* A call is about to ask for the key h. *)
Asks(j, c, h) == j.op = "request" /\ j.req.type # "txn" /\ HasKey(j.req, c, h)

(* A call will send what is queued for p, or replace p's container. *)
Serves(j, p) ==
  \/ j.op \in {"pending", "remove", "add"} /\ j.peer = p
  \/ j.op = "timeout" /\ p \in j.drop \cup j.keep

-----------------------------------------------------------------------------
(* The inductive invariant *)

IsSeq(s) == s \in Seq(Range(s))
ReqOK(req) == req = [type |-> req.type, hashes |-> req.hashes] /\ req.hashes \in SUBSET Hashes
MsgsOK(S) == \A m \in S : ReqOK(m.req)

(* What the handlers rely on in the arguments of their calls. *)
JobOK(j) ==
  /\ j.op \in {"pending", "remove", "add"} => j.peer \in Peers
  /\ j.op \in {"request", "check", "send", "unsent", "wait", "again"} => ReqOK(j.req)
  /\ j.op = "received" =>
       /\ j.class \in Classes /\ Class(j.type) = j.class /\ j.type # "txn"
       /\ j.requested \in SUBSET Hashes
  /\ j.op \in {"dispatch", "recover"} => j.task.requested \in SUBSET Hashes
  /\ j.op = "timeout" =>
       /\ j = [op |-> "timeout", timers |-> j.timers, msgs |-> j.msgs, drop |-> j.drop, keep |-> j.keep]
       /\ \A x \in j.timers : x.peer \in Peers
       /\ IsFiniteSet(j.timers)
       /\ j.drop \in SUBSET Peers /\ j.keep \in SUBSET Peers
       /\ IsSeq(j.msgs) /\ MsgsOK(Range(j.msgs))
  /\ j.op = "resend" => MsgsOK(j.rest) /\ MsgsOK(j.batch)
  /\ j.op = "batched" => ReqOK(j.msg.req)

(* A batched request is followed by the rest of resend_waiting_requests,   *)
(* and forgetting a peer by removing its container.                        *)
Follows(j, k) ==
  /\ j.op = "batched" => k.op = "resend" /\ k.rest = {}
  /\ j.op = "leave" => k.op = "remove" /\ k.peer = j.peer
NeedsNext(j) == j.op \in {"batched", "leave"}
Paired(s) ==
  \A i \in DOMAIN s : NeedsNext(s[i]) => i + 1 \in DOMAIN s /\ Follows(s[i], s[i + 1])

CallsOK(s) == IsSeq(s) /\ (\A j \in Range(s) : JobOK(j)) /\ Paired(s)

AllJobs == UNION {Range(todo[t]) : t \in Threads}

TodoInv == DOMAIN todo = Threads /\ \A t \in Threads : CallsOK(todo[t])

KeyInv ==
  /\ inflight \in [Classes -> SUBSET Hashes]
  /\ asked \in [Classes -> SUBSET Hashes]
  /\ DOMAIN lost = Classes

QueueInv ==
  /\ MsgsOK(waiting)
  /\ IsSeq(tasks) /\ \A task \in Range(tasks) : task.requested \in SUBSET Hashes

ContainerInv ==
  /\ conn \subseteq Peers
  /\ DOMAIN flight = Peers /\ DOMAIN pending = Peers
  /\ \A p \in Peers : /\ MsgsOK(flight[p])
                      /\ IsSeq(pending[p]) /\ MsgsOK(Range(pending[p]))

(* The container of one peer: the limit, and one id per request. *)
FlightOK(F) ==
  /\ IsFiniteSet(F) /\ Cardinality(F) <= MaxInflight
  /\ \A m, n \in F : m.id = n.id => m = n
TimersOK(T) == IsFiniteSet(T) /\ \A x \in T : x.peer \in Peers

FlightInv == TimersOK(timers) /\ \A p \in Peers : FlightOK(flight[p])

(* The places where a key may be. *)
HeldWaiting(c, h) == \E w \in waiting : HasKey(w.req, c, h)
HeldPeer(c, h) == \E p \in conn : \E m \in flight[p] \cup Range(pending[p]) : HasKey(m.req, c, h)
HeldTask(c, h) == c = "blocks" /\ \E task \in Range(tasks) : h \in task.requested
HeldJob(c, h) == \E j \in AllJobs : Carries(j, c, h)
Held(c, h) == HeldWaiting(c, h) \/ HeldPeer(c, h) \/ HeldTask(c, h) \/ HeldJob(c, h)

CarrierInv == \A c \in Classes : \A h \in inflight[c] : h \in lost[c] \/ Held(c, h)

AskedInv ==
  \A c \in Classes : \A h \in asked[c] :
    h \in inflight[c] \/ \E j \in AllJobs : Asks(j, c, h)

Served(p) ==
  \/ p \notin conn \/ p \notin session \/ p \in handshaking
  \/ pending[p] = <<>> \/ Cardinality(flight[p]) >= MaxInflight
  \/ \E j \in AllJobs : Serves(j, p)
ServedInv == \A p \in Peers : Served(p)

Timed(x) == x \in timers \/ \E j \in AllJobs : j.op = "timeout" /\ x \in j.timers
TimedInv == \A p \in Peers : \A m \in flight[p] : Timed([peer |-> p, id |-> m.id])

PeerInv == ContainerInv /\ FlightInv /\ ServedInv /\ TimedInv

RequestInv == TodoInv /\ KeyInv /\ QueueInv /\ PeerInv /\ CarrierInv /\ AskedInv

-----------------------------------------------------------------------------
(* Sequences of calls *)

LEMMA SeqOf ==
  ASSUME NEW S, NEW s \in Seq(S)
  PROVE  IsSeq(s) /\ Range(s) \subseteq S
<1>1. \A i \in DOMAIN s : s[i] \in S
  OBVIOUS
<1>2. \A i \in DOMAIN s : s[i] \in Range(s)
  BY Zenon DEF Range
<1>3. s \in Seq(Range(s))
  BY <1>2
<1> QED
  BY <1>1, <1>3, Zenon DEF IsSeq, Range

LEMMA RangeCat ==
  ASSUME NEW a, NEW b, IsSeq(a), IsSeq(b)
  PROVE  IsSeq(a \o b) /\ Range(a \o b) = Range(a) \cup Range(b)
<1> DEFINE S == Range(a) \cup Range(b)
<1> a \in Seq(S) /\ b \in Seq(S)
  BY DEF IsSeq
<1> a \o b \in Seq(S) /\ Len(a \o b) = Len(a) + Len(b)
  OBVIOUS
<1>3. \A i \in DOMAIN a : (a \o b)[i] = a[i] /\ i \in DOMAIN (a \o b)
  OBVIOUS
<1>4. \A i \in DOMAIN b : (a \o b)[i + Len(a)] = b[i] /\ i + Len(a) \in DOMAIN (a \o b)
  OBVIOUS
<1>5. Range(a \o b) \subseteq S
  BY SeqOf, Zenon
<1>6. Range(a) \subseteq Range(a \o b)
  BY <1>3, Zenon DEF Range
<1>7. Range(b) \subseteq Range(a \o b)
  BY <1>4, Zenon DEF Range
<1> QED
  BY <1>5, <1>6, <1>7, SeqOf, Zenon

LEMMA AppendCat ==
  ASSUME NEW S, NEW s \in Seq(S), NEW e
  PROVE  Append(s, e) = s \o <<e>>
<1>1. s \in Seq(S \cup {e})
  OBVIOUS
<1> QED
  BY <1>1

LEMMA RangeTail ==
  ASSUME NEW s, IsSeq(s), s # <<>>
  PROVE  /\ IsSeq(Tail(s)) /\ Head(s) \in Range(s)
         /\ Range(s) = {Head(s)} \cup Range(Tail(s))
<1>1. s \in Seq(Range(s)) /\ Len(s) > 0 /\ Len(s) \in Nat
  BY DEF IsSeq
<1>2. Tail(s) \in Seq(Range(s)) /\ Len(Tail(s)) = Len(s) - 1
  BY <1>1
<1>3. \A i \in DOMAIN s : i = 1 \/ (i - 1 \in DOMAIN Tail(s) /\ s[i] = Tail(s)[i - 1])
  BY <1>1, <1>2
<1>4. Head(s) = s[1] /\ 1 \in DOMAIN s
  BY <1>1
<1>5. Range(s) \subseteq {Head(s)} \cup Range(Tail(s))
  BY <1>3, <1>4, Zenon DEF Range
<1>6. Head(s) \in Range(s)
  BY <1>4, Zenon DEF Range
<1> QED
  BY <1>2, <1>5, <1>6, SeqOf, Zenon

LEMMA PairedCat ==
  ASSUME NEW a, NEW b, IsSeq(a), IsSeq(b), Paired(a), Paired(b)
  PROVE  Paired(a \o b)
<1> a \in Seq(Range(a) \cup Range(b)) /\ b \in Seq(Range(a) \cup Range(b))
  BY DEF IsSeq
<1> SUFFICES ASSUME NEW i \in DOMAIN (a \o b), NeedsNext((a \o b)[i])
             PROVE  i + 1 \in DOMAIN (a \o b) /\ Follows((a \o b)[i], (a \o b)[i + 1])
  BY Zenon DEF Paired
<1>2. CASE i <= Len(a)
  <2>1. i \in DOMAIN a /\ (a \o b)[i] = a[i]
    BY <1>2
  <2>2. i + 1 \in DOMAIN a /\ Follows(a[i], a[i + 1])
    BY <2>1, Zenon DEF Paired
  <2>3. i + 1 \in DOMAIN (a \o b) /\ (a \o b)[i + 1] = a[i + 1]
    BY <2>2
  <2> QED
    BY <2>1, <2>2, <2>3, Zenon
<1>3. CASE i > Len(a)
  <2> DEFINE k == i - Len(a)
  <2>1. k \in DOMAIN b /\ (a \o b)[i] = b[k]
    BY <1>3
  <2>2. k + 1 \in DOMAIN b /\ Follows(b[k], b[k + 1])
    BY <2>1, Zenon DEF Paired
  <2>3. i + 1 \in DOMAIN (a \o b) /\ (a \o b)[i + 1] = b[k + 1]
    BY <1>3, <2>2
  <2> QED
    BY <2>1, <2>2, <2>3, Zenon
<1> QED
  BY <1>2, <1>3

LEMMA PairedTail ==
  ASSUME NEW s, IsSeq(s), s # <<>>, Paired(s)
  PROVE  /\ Paired(Tail(s))
         /\ NeedsNext(Head(s)) => Tail(s) # <<>> /\ Follows(Head(s), Head(Tail(s)))
<1> s \in Seq(Range(s)) /\ Len(s) > 0 /\ Tail(s) \in Seq(Range(s)) /\ Len(Tail(s)) = Len(s) - 1
  BY DEF IsSeq
<1> \A i \in DOMAIN Tail(s) : i + 1 \in DOMAIN s /\ Tail(s)[i] = s[i + 1]
  OBVIOUS
<1>3. ASSUME NEW i \in DOMAIN Tail(s), NeedsNext(Tail(s)[i])
      PROVE  i + 1 \in DOMAIN Tail(s) /\ Follows(Tail(s)[i], Tail(s)[i + 1])
  <2>1. i + 1 + 1 \in DOMAIN s /\ Follows(s[i + 1], s[i + 1 + 1])
    BY <1>3, Zenon DEF Paired
  <2>2. i + 1 \in DOMAIN Tail(s)
    BY <2>1
  <2> QED
    BY <2>1, <2>2, Zenon
<1>4. ASSUME NeedsNext(Head(s))
      PROVE  Tail(s) # <<>> /\ Follows(Head(s), Head(Tail(s)))
  <2>1. Head(s) = s[1] /\ 1 \in DOMAIN s
    OBVIOUS
  <2>2. 1 + 1 \in DOMAIN s /\ Follows(s[1], s[1 + 1])
    BY <1>4, <2>1, Zenon DEF Paired
  <2>3. Tail(s) # <<>> /\ Head(Tail(s)) = s[1 + 1]
    BY <2>2
  <2> QED
    BY <2>1, <2>2, <2>3, Zenon
<1> QED
  BY <1>3, <1>4, Zenon DEF Paired

LEMMA NoCalls == CallsOK(<<>>) /\ Range(<<>>) = {}
<1> <<>> \in Seq({}) /\ DOMAIN <<>> = {}
  OBVIOUS
<1>2. Range(<<>>) = {}
  BY Zenon DEF Range
<1> QED
  BY <1>2, Zenon DEF CallsOK, IsSeq, Paired

LEMMA Singleton == \A j : IsSeq(<<j>>) /\ Range(<<j>>) = {j}
<1> TAKE j
<1> <<j>> \in Seq({j}) /\ DOMAIN <<j>> = {1} /\ <<j>>[1] = j
  OBVIOUS
<1>2. Range(<<j>>) = {j}
  BY Zenon DEF Range
<1> QED
  BY <1>2, Zenon DEF IsSeq

LEMMA OneCall ==
  ASSUME NEW j, JobOK(j), ~NeedsNext(j)
  PROVE  CallsOK(<<j>>) /\ Range(<<j>>) = {j}
<1>1. DOMAIN <<j>> = {1} /\ <<j>>[1] = j
  OBVIOUS
<1> QED
  BY <1>1, Singleton, Zenon DEF CallsOK, Paired

LEMMA MoreCalls ==
  ASSUME NEW a, NEW b, CallsOK(a), CallsOK(b)
  PROVE  CallsOK(a \o b) /\ Range(a \o b) = Range(a) \cup Range(b)
BY RangeCat, PairedCat, Zenon DEF CallsOK

(* Two calls of which the first needs the second. *)
LEMMA TwoCalls ==
  ASSUME NEW j, NEW k, JobOK(j), JobOK(k), Follows(j, k), ~NeedsNext(k)
  PROVE  CallsOK(<<j>> \o <<k>>) /\ Range(<<j>> \o <<k>>) = {j, k}
<1> DEFINE s == <<j>> \o <<k>>
<1> IsSeq(<<j>>) /\ Range(<<j>>) = {j} /\ IsSeq(<<k>>) /\ Range(<<k>>) = {k}
  BY Singleton, Zenon
<1> IsSeq(s) /\ Range(s) = Range(<<j>>) \cup Range(<<k>>)
  BY RangeCat, Zenon
<1>3. DOMAIN s = {1, 2} /\ s[1] = j /\ s[1 + 1] = k /\ s[2] = k
  OBVIOUS
<1>4. Paired(s)
  BY <1>3 DEF Paired
<1>5. Range(s) = {j, k}
  BY Zenon
<1> QED
  BY <1>4, <1>5, Zenon DEF CallsOK

(* A sequence of calls none of which needs the next. *)
LEMMA PlainCalls ==
  ASSUME NEW n \in Nat, NEW s, s = [i \in 1 .. n |-> s[i]],
         \A i \in 1 .. n : JobOK(s[i]) /\ ~NeedsNext(s[i])
  PROVE  CallsOK(s) /\ Range(s) = {s[i] : i \in 1 .. n}
<1> DOMAIN s = 1 .. n
  BY Zenon
<1> Range(s) = {s[i] : i \in 1 .. n}
  BY Zenon DEF Range
<1>3. s \in Seq(Range(s))
  OBVIOUS
<1> QED
  BY <1>3, Zenon DEF CallsOK, IsSeq, Paired

-----------------------------------------------------------------------------
(* A step of a thread *)

(* The calls `calls` have taken the place of the call j. *)
Replaced(j, calls) ==
  /\ AllJobs \subseteq AllJobs' \cup {j}
  /\ AllJobs' \subseteq AllJobs \cup Range(calls)
  /\ Range(calls) \subseteq AllJobs'

LEMMA TodoStep ==
  ASSUME TodoInv, NEW t \in Threads, NEW s, NEW j, NEW calls, CallsOK(s),
         todo' = [todo EXCEPT ![t] = s],
         Range(todo[t]) \subseteq Range(s) \cup {j},
         Range(s) \subseteq Range(todo[t]) \cup Range(calls),
         Range(calls) \subseteq Range(s)
  PROVE  TodoInv' /\ Replaced(j, calls)
<1> DOMAIN todo = Threads
  BY Zenon DEF TodoInv
<1> todo'[t] = s /\ \A u \in Threads \ {t} : todo'[u] = todo[u]
  BY Zenon
<1>3. TodoInv'
  BY Zenon DEF TodoInv
<1>4. \A k : k \in AllJobs <=> \E u \in Threads : k \in Range(todo[u])
  BY Zenon DEF AllJobs
<1> \A k : k \in AllJobs' <=> \E u \in Threads : k \in Range(todo'[u])
  BY Zenon DEF AllJobs
<1>6. AllJobs \subseteq AllJobs' \cup {j}
  BY <1>4, Zenon
<1>7. AllJobs' \subseteq AllJobs \cup Range(calls)
  BY <1>4, Zenon
<1>8. Range(calls) \subseteq AllJobs'
  BY Zenon
<1> QED
  BY <1>3, <1>6, <1>7, <1>8, Zenon DEF Replaced

LEMMA HeadJob ==
  ASSUME TodoInv, NEW t \in Threads, todo[t] # <<>>
  PROVE  /\ Head(todo[t]) \in AllJobs /\ JobOK(Head(todo[t]))
         /\ CallsOK(Tail(todo[t])) /\ Range(todo[t]) = {Head(todo[t])} \cup Range(Tail(todo[t]))
         /\ NeedsNext(Head(todo[t])) =>
              Tail(todo[t]) # <<>> /\ Follows(Head(todo[t]), Head(Tail(todo[t])))
<1> DEFINE s == todo[t]
<1> HIDE DEF s
<1> CallsOK(s) /\ s # <<>>
  BY Zenon DEF TodoInv, s
<1> /\ IsSeq(Tail(s)) /\ Head(s) \in Range(s)
    /\ Range(s) = {Head(s)} \cup Range(Tail(s))
  BY RangeTail, Zenon DEF CallsOK
<1> /\ Paired(Tail(s))
    /\ NeedsNext(Head(s)) => Tail(s) # <<>> /\ Follows(Head(s), Head(Tail(s)))
  BY PairedTail, Zenon DEF CallsOK
<1>4. JobOK(Head(s)) /\ CallsOK(Tail(s))
  BY Zenon DEF CallsOK
<1>5. Head(s) \in AllJobs
  BY Zenon DEF AllJobs, s
<1> QED
  BY <1>4, <1>5, Zenon DEF s

LEMMA DoStep ==
  ASSUME TodoInv, NEW t \in Threads, todo[t] # <<>>, NEW calls, CallsOK(calls), Do(t, calls)
  PROVE  TodoInv' /\ Replaced(Head(todo[t]), calls)
<1> DEFINE s == calls \o Tail(todo[t])
<1> CallsOK(Tail(todo[t])) /\ Range(todo[t]) = {Head(todo[t])} \cup Range(Tail(todo[t]))
  BY HeadJob, Zenon
<1>2. CallsOK(s) /\ Range(s) = Range(calls) \cup Range(Tail(todo[t]))
  BY MoreCalls, Zenon
<1>3. todo' = [todo EXCEPT ![t] = s]
  BY Zenon DEF Do
<1> HIDE DEF s
<1> QED
  BY <1>2, <1>3, TodoStep, Zenon

(* An idle thread has nothing to lose: any call stands for the one replaced. *)
LEMMA StartStep ==
  ASSUME TodoInv, NEW t \in Threads, Idle(t), NEW calls, CallsOK(calls), Start(t, calls)
  PROVE  TodoInv' /\ AllJobs \subseteq AllJobs' /\ AllJobs' \subseteq AllJobs \cup Range(calls)
         /\ Range(calls) \subseteq AllJobs'
<1>1. Range(todo[t]) = {}
  BY NoCalls, Zenon DEF Idle
<1>2. todo' = [todo EXCEPT ![t] = calls]
  BY Zenon DEF Start
<1> TodoInv' /\ \A j : Replaced(j, calls)
  BY <1>1, <1>2, TodoStep, Zenon
<1>4. CASE AllJobs = {}
  BY <1>4, Zenon DEF Replaced
<1>5. CASE AllJobs # {}
  <2>1. Replaced("none", calls) /\ Replaced("other", calls)
    BY Zenon
  <2>2. "none" # "other"
    BY Zenon
  <2> QED
    BY <2>1, <2>2, Zenon DEF Replaced
<1> QED
  BY <1>4, <1>5, Zenon

-----------------------------------------------------------------------------
(* Finite sets: orders, ids and containers *)

LEMMA OrderOf ==
  ASSUME NEW S, IsFiniteSet(S), NEW s \in Orders(S)
  PROVE  /\ IsSeq(s) /\ Range(s) = S /\ Cardinality(S) \in Nat
         /\ DOMAIN s = 1 .. Cardinality(S)
<1> Cardinality(S) \in Nat
  BY FS_CardinalityType, Zenon
<1> s \in [1 .. Cardinality(S) -> S] /\ \A x \in S : \E i \in 1 .. Cardinality(S) : s[i] = x
  BY Zenon DEF Orders, Bijection, Surjection, Injection
<1>3. s \in Seq(S)
  OBVIOUS
<1>4. Range(s) = S
  BY Zenon DEF Range
<1> QED
  BY <1>3, <1>4, SeqOf, Zenon

LEMMA FiniteRange ==
  ASSUME NEW S, IsFiniteSet(S), NEW f, f = [x \in S |-> f[x]]
  PROVE  IsFiniteSet(Range(f))
<1>1. f \in Surjection(S, Range(f))
  BY Zenon DEF Surjection, Range
<1> QED
  BY <1>1, FS_Surjection, Zenon

LEMMA FiniteInterval ==
  ASSUME NEW n \in Nat
  PROVE  IsFiniteSet(1 .. n) /\ Cardinality(1 .. n) = n
BY FS_Interval, SMTT(30)

LEMMA SeqFinite ==
  ASSUME NEW s, IsSeq(s)
  PROVE  IsFiniteSet(Range(s))
<1> Len(s) \in Nat /\ s = [i \in 1 .. Len(s) |-> s[i]]
  BY DEF IsSeq
<1>2. IsFiniteSet(1 .. Len(s))
  BY FiniteInterval, Zenon
<1> QED
  BY <1>2, FiniteRange, Zenon

(* There are as many ids left as are needed. *)
LEMMA IdsLeft ==
  ASSUME NEW U, IsFiniteSet(U), NEW n \in Nat
  PROVE  \E ids : ids \in Injection(1 .. n, (1 .. (Cardinality(U) + n)) \ U)
<1> DEFINE k == Cardinality(U) + n
           F == (1 .. k) \ U
           m == Cardinality(F)
<1>1. Cardinality(U) \in Nat
  BY FS_CardinalityType, Zenon
<1>2. k \in Nat /\ IsFiniteSet(1 .. k) /\ Cardinality(1 .. k) = k
  <2>1. k \in Nat
    BY <1>1
  <2> HIDE DEF k
  <2> QED
    BY <2>1, FiniteInterval, Zenon
<1>3. IsFiniteSet(F) /\ m = k - Cardinality((1 .. k) \cap U)
  BY <1>2, FS_Difference, Zenon
<1>4. Cardinality((1 .. k) \cap U) <= Cardinality(U) /\ IsFiniteSet((1 .. k) \cap U)
  BY FS_Intersection, Zenon
<1>5. m \in Nat /\ ExistsBijection(1 .. m, F)
  BY <1>3, FS_CardinalityType, Zenon
<1>6. Cardinality((1 .. k) \cap U) \in Nat
  BY <1>4, FS_CardinalityType, Zenon
<1>7. n <= m
  BY <1>1, <1>3, <1>4, <1>6
<1> HIDE DEF m, F
<1>8. PICK b \in Bijection(1 .. m, F) : TRUE
  BY <1>5, Zenon DEF ExistsBijection
<1>9. b \in [1 .. m -> F] /\ \A i, l \in 1 .. m : b[i] = b[l] => i = l
  BY <1>8, Zenon DEF Bijection, Injection, IsInjective
<1>10. \A i \in 1 .. n : i \in 1 .. m
  BY <1>5, <1>7
<1>11. [i \in 1 .. n |-> b[i]] \in Injection(1 .. n, F)
  BY <1>9, <1>10, Zenon DEF Injection, IsInjective
<1> QED
  BY <1>11, Zenon DEF F

LEMMA UsedFinite ==
  ASSUME RequestAssumption, TodoInv, FlightInv, NEW p \in Peers
  PROVE  IsFiniteSet(UsedIds(p)) /\ IsFiniteSet(HeldTimers)
<1> DEFINE own(j) == IF j.op = "timeout" THEN j.timers ELSE {}
<1>1. ASSUME NEW t \in Threads
      PROVE  IsFiniteSet(UNION {own(j) : j \in Range(todo[t])})
  <2> DEFINE f == [j \in Range(todo[t]) |-> own(j)]
  <2>1. IsFiniteSet(Range(todo[t])) /\ \A j \in Range(todo[t]) : JobOK(j)
    BY SeqFinite, Zenon DEF TodoInv, CallsOK
  <2>2. \A j \in Range(todo[t]) : IsFiniteSet(own(j))
    BY <2>1, FS_EmptySet, Zenon DEF JobOK
  <2>3. Range(f) = {own(j) : j \in Range(todo[t])}
    BY Zenon DEF Range
  <2>4. IsFiniteSet(Range(f))
    BY <2>1, FiniteRange, Zenon
  <2> HIDE DEF own
  <2>5. \A T \in {own(j) : j \in Range(todo[t])} : IsFiniteSet(T)
    BY <2>2, Zenon
  <2> QED
    BY <2>3, <2>4, <2>5, FS_UNION, Zenon
<1> IsFiniteSet(HeldTimers)
  <2> DEFINE g == [t \in Threads |-> UNION {own(j) : j \in Range(todo[t])}]
  <2>1. IsFiniteSet(Threads)
    BY Zenon DEF RequestAssumption
  <2>2. IsFiniteSet(Range(g))
    BY <2>1, FiniteRange, Zenon
  <2>3. HeldTimers = UNION Range(g)
    BY DEF HeldTimers, Range
  <2>4. \A T \in Range(g) : IsFiniteSet(T)
    BY <1>1, Zenon DEF Range
  <2> QED
    BY <2>2, <2>3, <2>4, FS_UNION, Zenon
<1> DEFINE X == {y \in timers \cup HeldTimers : y.peer = p}
<1>3. IsFiniteSet(X)
  <2>1. IsFiniteSet(timers \cup HeldTimers)
    BY FS_Union, Zenon DEF FlightInv, TimersOK
  <2> QED
    BY <2>1, FS_Subset, Zenon
<1>4. IsFiniteSet({x.id : x \in X})
  <2> DEFINE f == [x \in X |-> x.id]
  <2>1. Range(f) = {x.id : x \in X}
    BY Zenon DEF Range
  <2> HIDE DEF X
  <2> QED
    BY <1>3, <2>1, FiniteRange, Zenon
<1>5. IsFiniteSet({m.id : m \in flight[p]})
  <2> DEFINE f == [m \in flight[p] |-> m.id]
  <2>1. Range(f) = {m.id : m \in flight[p]}
    BY Zenon DEF Range
  <2>2. IsFiniteSet(flight[p])
    BY Zenon DEF FlightInv, FlightOK
  <2> QED
    BY <2>1, <2>2, FiniteRange, Zenon
<1> QED
  BY <1>4, <1>5, FS_Union, Zenon DEF UsedIds

LEMMA Fresh ==
  ASSUME RequestAssumption, TodoInv, FlightInv, NEW p \in Peers, NEW n \in Nat
  PROVE  /\ FreshIds(p, n) \in [1 .. n -> Nat \ UsedIds(p)]
         /\ \A i, k \in 1 .. n : FreshIds(p, n)[i] = FreshIds(p, n)[k] => i = k
<1> DEFINE ids == FreshIds(p, n)
           F == (1 .. (Cardinality(UsedIds(p)) + n)) \ UsedIds(p)
<1> IsFiniteSet(UsedIds(p)) /\ Cardinality(UsedIds(p)) \in Nat
  BY UsedFinite, FS_CardinalityType, Zenon
<1>2. ids \in Injection(1 .. n, F)
  BY IdsLeft, Zenon DEF FreshIds
<1>3. F \subseteq Nat \ UsedIds(p)
  OBVIOUS
<1> QED
  BY <1>2, <1>3, Zenon DEF Injection, IsInjective

(* No call that serves a container or has timers in hand is lost. *)
JobsKept ==
  \A j \in AllJobs : j \in AllJobs' \/ j.op \notin {"pending", "remove", "add", "timeout"}

TimeoutsKept == \A j \in AllJobs : j \in AllJobs' \/ j.op # "timeout"

(* SendNow fills places of a container with requests that have fresh ids   *)
(* and timers of their own.                                                *)
LEMMA SendNowStep ==
  ASSUME RequestAssumption, TodoInv, FlightInv, TimedInv, DOMAIN flight = Peers, NEW p \in Peers,
         NEW msgs, IsSeq(msgs), Cardinality(flight[p]) + Len(msgs) <= MaxInflight,
         SendNow(p, msgs), TimeoutsKept
  PROVE  /\ FlightInv' /\ TimedInv' /\ DOMAIN flight' = Peers
         /\ Cardinality(flight'[p]) = Cardinality(flight[p]) + Len(msgs)
         /\ flight[p] \subseteq flight'[p]
         /\ \A m \in flight'[p] : m \in flight[p] \/ \E n \in Range(msgs) : m.req = n.req
         /\ \A n \in Range(msgs) : \E m \in flight'[p] : m.req = n.req
         /\ \A q \in Peers \ {p} : flight'[q] = flight[q]
<1> DEFINE n == Len(msgs)
           ids == FreshIds(p, n)
           New(i) == [id |-> ids[i], req |-> msgs[i].req, delay |-> msgs[i].delay]
           N == {New(i) : i \in 1 .. n}
           f == [i \in 1 .. n |-> New(i)]
<1>1. n \in Nat /\ DOMAIN msgs = 1 .. n
  BY DEF IsSeq
<1>2. /\ ids \in [1 .. n -> Nat \ UsedIds(p)]
      /\ \A i, k \in 1 .. n : ids[i] = ids[k] => i = k
  BY <1>1, Fresh, Zenon
<1> HIDE DEF n, ids
<1>3. f \in Injection(1 .. n, N) /\ f \in Surjection(1 .. n, N)
  BY <1>2, Zenon DEF Injection, Surjection, IsInjective
<1>4. IsFiniteSet(N) /\ Cardinality(N) = n
  <2>1. IsFiniteSet(1 .. n) /\ Cardinality(1 .. n) = n
    BY <1>1, FiniteInterval, Zenon
  <2> HIDE DEF f, N
  <2> QED
    BY <1>3, <2>1, FS_Surjection, Zenon
<1>5. flight' = [flight EXCEPT ![p] = @ \cup N] /\ timers' = timers \cup NewTimers(p, ids)
  BY <1>1, Zenon DEF SendNow, n, ids
<1>6. flight'[p] = flight[p] \cup N /\ \A q \in Peers \ {p} : flight'[q] = flight[q]
  BY <1>5, Zenon
<1>7. \A m \in N : m.id \notin UsedIds(p)
  BY <1>2
<1>8. \A m \in flight[p] : m.id \in UsedIds(p)
  BY Zenon DEF UsedIds
<1>9. flight[p] \cap N = {}
  BY <1>7, <1>8, Zenon
<1>10. FlightOK(flight[p]) /\ Cardinality(flight[p]) \in Nat
  BY FS_CardinalityType, Zenon DEF FlightInv, FlightOK
<1>11. IsFiniteSet(flight'[p]) /\ Cardinality(flight'[p]) = Cardinality(flight[p]) + n
  <2> HIDE DEF N
  <2>1. /\ IsFiniteSet(flight[p] \cup N)
        /\ Cardinality(flight[p] \cup N)
             = Cardinality(flight[p]) + Cardinality(N) - Cardinality(flight[p] \cap N)
    BY <1>4, <1>10, FS_Union, Zenon DEF FlightOK
  <2>2. Cardinality(flight[p] \cap N) = 0
    BY <1>9, FS_EmptySet, Zenon
  <2> QED
    BY <1>1, <1>4, <1>6, <1>10, <2>1, <2>2
<1>12. \A m, k \in flight'[p] : m.id = k.id => m = k
  <2>1. \A m, k \in N : m.id = k.id => m = k
    BY <1>2
  <2>2. \A m, k \in flight[p] : m.id = k.id => m = k
    BY <1>10, Zenon DEF FlightOK
  <2> QED
    BY <1>6, <1>7, <1>8, <2>1, <2>2, Zenon
<1>13. FlightOK(flight'[p])
  BY <1>11, <1>12, Zenon DEF FlightOK, n
<1>14. NewTimers(p, ids) = {[peer |-> p, id |-> ids[i]] : i \in 1 .. n}
  BY <1>2, Zenon DEF NewTimers
<1>15. TimersOK(timers')
  <2> DEFINE g == [i \in 1 .. n |-> [peer |-> p, id |-> ids[i]]]
  <2>1. Range(g) = NewTimers(p, ids)
    BY <1>14, Zenon DEF Range
  <2>2. IsFiniteSet(1 .. n)
    BY <1>1, FiniteInterval, Zenon
  <2>4. IsFiniteSet(NewTimers(p, ids))
    BY <2>1, <2>2, FiniteRange, Zenon
  <2>3. \A x \in NewTimers(p, ids) : x.peer \in Peers
    BY <1>14
  <2> QED
    BY <1>5, <2>3, <2>4, FS_Union, Zenon DEF FlightInv, TimersOK
<1>16. FlightInv'
  BY <1>6, <1>13, <1>15, Zenon DEF FlightInv
<1>17. \A x : Timed(x) => Timed(x)'
  BY <1>5, Zenon DEF Timed, TimeoutsKept
<1>18. TimedInv'
  <2>1. \A m \in N : [peer |-> p, id |-> m.id] \in timers'
    BY <1>5, <1>14
  <2>2. \A m \in N : Timed([peer |-> p, id |-> m.id])'
    BY <2>1, Zenon DEF Timed
  <2> QED
    BY <1>6, <1>17, <2>2, Zenon DEF TimedInv
<1>19. \A m \in N : \E k \in Range(msgs) : m.req = k.req
  BY <1>1 DEF Range, n
<1>20. \A k \in Range(msgs) : \E m \in N : m.req = k.req
  <2> SUFFICES ASSUME NEW i \in DOMAIN msgs PROVE \E m \in N : m.req = msgs[i].req
    BY Zenon DEF Range
  <2>1. New(i) \in N /\ New(i).req = msgs[i].req
    BY <1>1, Zenon DEF n
  <2> QED
    BY <2>1, Zenon
<1> HIDE DEF N
<1> QED
  BY <1>5, <1>6, <1>11, <1>16, <1>18, <1>19, <1>20, Zenon DEF n

LEMMA PeerFrame ==
  ASSUME PeerInv, JobsKept, UNCHANGED <<conn, flight, pending, timers>>,
         session' \subseteq session, handshaking \subseteq handshaking'
  PROVE  PeerInv' /\ \A c, h : HeldPeer(c, h) => HeldPeer(c, h)'
<1>1. ContainerInv' /\ FlightInv'
  BY Zenon DEF PeerInv, ContainerInv, FlightInv
<1>2. ServedInv'
  BY Zenon DEF PeerInv, ServedInv, Served, Serves, JobsKept
<1>3. TimedInv'
  BY Zenon DEF PeerInv, TimedInv, Timed, JobsKept
<1>4. \A c, h : HeldPeer(c, h) => HeldPeer(c, h)'
  BY Zenon DEF HeldPeer
<1> QED
  BY <1>1, <1>2, <1>3, <1>4, Zenon DEF PeerInv

(* A request given to a container is sent or queued. *)
LEMMA PlaceStep ==
  ASSUME RequestAssumption, TodoInv, PeerInv, NEW p \in conn, NEW req, NEW d, ReqOK(req),
         Place(p, req, d), JobsKept, UNCHANGED <<session, handshaking>>
  PROVE  /\ PeerInv'
         /\ \A c, h : HeldPeer(c, h) \/ HasKey(req, c, h) => HeldPeer(c, h)'
<1> DEFINE msg == [req |-> req, delay |-> d]
<1>1. p \in Peers /\ conn' = conn /\ conn \subseteq Peers
  BY Zenon DEF PeerInv, ContainerInv, Place
<1>2. /\ DOMAIN flight = Peers /\ DOMAIN pending = Peers
      /\ \A q \in Peers : MsgsOK(flight[q]) /\ IsSeq(pending[q]) /\ MsgsOK(Range(pending[q]))
  BY Zenon DEF PeerInv, ContainerInv
<1>3. Cardinality(flight[p]) \in Nat /\ MaxInflight \in Nat /\ FlightInv
  BY <1>1, FS_CardinalityType, Zenon DEF PeerInv, FlightInv, FlightOK, RequestAssumption
<1>4. CASE Cardinality(flight[p]) < MaxInflight
  <2>1. SendNow(p, <<msg>>) /\ pending' = pending
    BY <1>4, Zenon DEF Place
  <2>2. IsSeq(<<msg>>) /\ Range(<<msg>>) = {msg} /\ Len(<<msg>>) = 1
    BY Singleton, Zenon
  <2>3. /\ FlightInv' /\ TimedInv' /\ DOMAIN flight' = Peers
        /\ flight[p] \subseteq flight'[p]
        /\ Cardinality(flight'[p]) = Cardinality(flight[p]) + 1
        /\ \A m \in flight'[p] : m \in flight[p] \/ \E n \in {msg} : m.req = n.req
        /\ \A n \in {msg} : \E m \in flight'[p] : m.req = n.req
        /\ \A q \in Peers \ {p} : flight'[q] = flight[q]
    <3> DEFINE msgs == <<msg>>
    <3>1. IsSeq(msgs) /\ Range(msgs) = {msg} /\ Len(msgs) = 1 /\ SendNow(p, msgs)
      BY <2>1, <2>2, Zenon
    <3> HIDE DEF msgs, msg
    <3>2. Cardinality(flight[p]) + Len(msgs) <= MaxInflight
      BY <1>3, <1>4, <3>1
    <3>3. TimedInv /\ DOMAIN flight = Peers /\ TimeoutsKept
      BY <1>2, Zenon DEF PeerInv, JobsKept, TimeoutsKept
    <3>4. /\ FlightInv' /\ TimedInv' /\ DOMAIN flight' = Peers
          /\ flight[p] \subseteq flight'[p]
          /\ Cardinality(flight'[p]) = Cardinality(flight[p]) + Len(msgs)
          /\ \A m \in flight'[p] : m \in flight[p] \/ \E n \in Range(msgs) : m.req = n.req
          /\ \A n \in Range(msgs) : \E m \in flight'[p] : m.req = n.req
          /\ \A q \in Peers \ {p} : flight'[q] = flight[q]
      BY <1>1, <1>3, <3>1, <3>2, <3>3, SendNowStep, Zenon
    <3> QED
      BY <3>1, <3>4, Zenon
  <2>4. \A m \in flight'[p] : m \in flight[p] \/ m.req = req
    BY <2>3, Zenon
  <2>5. \E m \in flight'[p] : m.req = req
    BY <2>3, Zenon
  <2>6. ContainerInv'
    BY <1>1, <1>2, <2>1, <2>3, <2>4, Zenon DEF ContainerInv, MsgsOK
  <2>7. ServedInv'
    BY <1>1, <1>3, <2>1, <2>3 DEF PeerInv, ServedInv, Served, Serves, JobsKept
  <2>8. \A c, h : HeldPeer(c, h) => HeldPeer(c, h)'
    BY <1>1, <2>1, <2>3, Zenon DEF HeldPeer
  <2>9. \A c, h : HasKey(req, c, h) => HeldPeer(c, h)'
    BY <1>1, <2>5, Zenon DEF HeldPeer
  <2> QED
    BY <2>3, <2>6, <2>7, <2>8, <2>9, Zenon DEF PeerInv
<1>5. CASE ~(Cardinality(flight[p]) < MaxInflight)
  <2>1. pending' = [pending EXCEPT ![p] = Append(@, msg)] /\ UNCHANGED <<flight, timers>>
    BY <1>5, Zenon DEF Place
  <2>2. pending'[p] = pending[p] \o <<msg>> /\ \A q \in Peers \ {p} : pending'[q] = pending[q]
    <3>1. pending[p] \in Seq(Range(pending[p]) \cup {msg})
      BY <1>1, <1>2 DEF IsSeq
    <3>2. Append(pending[p], msg) = pending[p] \o <<msg>>
      BY <3>1
    <3> QED
      BY <1>1, <1>2, <2>1, <3>2, Zenon
  <2>3. IsSeq(pending'[p]) /\ Range(pending'[p]) = Range(pending[p]) \cup {msg}
    BY <1>1, <1>2, <2>2, RangeCat, Singleton
  <2>4. ContainerInv'
    BY <1>1, <1>2, <2>1, <2>2, <2>3 DEF ContainerInv, MsgsOK
  <2>5. ServedInv'
    BY <1>1, <1>3, <1>5, <2>1, <2>2 DEF PeerInv, ServedInv, Served, Serves, JobsKept
  <2>6. FlightInv' /\ TimedInv'
    BY <2>1, Zenon DEF PeerInv, FlightInv, TimedInv, Timed, JobsKept
  <2>7. \A c, h : HeldPeer(c, h) => HeldPeer(c, h)'
    BY <1>1, <2>1, <2>2, <2>3, Zenon DEF HeldPeer
  <2>8. \A c, h : HasKey(req, c, h) => HeldPeer(c, h)'
    <3>1. msg \in Range(pending'[p]) /\ msg.req = req
      BY <2>3, Zenon
    <3> QED
      BY <1>1, <3>1, Zenon DEF HeldPeer
  <2> QED
    BY <2>4, <2>5, <2>6, <2>7, <2>8, Zenon DEF PeerInv
<1> QED
  BY <1>4, <1>5, Zenon

(* A response takes a request out of its container; the message it came in *)
(* will have the container served.                                         *)
LEMMA UnmatchedStep ==
  ASSUME PeerInv, NEW p \in conn, NEW m \in flight[p], Unmatched(p, m), JobsKept,
         UNCHANGED <<conn, pending, session, handshaking>>, SendPending(p) \in AllJobs'
  PROVE  /\ PeerInv'
         /\ \A c, h : HeldPeer(c, h) => HeldPeer(c, h)' \/ HasKey(m.req, c, h)
<1> DEFINE x == [peer |-> p, id |-> m.id]
<1> p \in Peers /\ conn \subseteq Peers /\ DOMAIN flight = Peers
  BY Zenon DEF PeerInv, ContainerInv
<1> /\ timers' = timers \ {x} /\ DOMAIN flight' = Peers /\ flight'[p] = flight[p] \ {m}
    /\ \A q \in Peers \ {p} : flight'[q] = flight[q]
  BY Zenon DEF Unmatched
<1>3. ContainerInv'
  BY Zenon DEF PeerInv, ContainerInv, MsgsOK
<1> FlightOK(flight[p]) /\ TimersOK(timers)
  BY Zenon DEF PeerInv, FlightInv
<1>5. FlightOK(flight'[p])
  <2>1. IsFiniteSet(flight'[p]) /\ Cardinality(flight'[p]) <= Cardinality(flight[p])
    BY FS_Subset, Zenon DEF FlightOK
  <2>2. Cardinality(flight'[p]) \in Nat /\ Cardinality(flight[p]) \in Nat
    BY <2>1, FS_CardinalityType, Zenon DEF FlightOK
  <2>3. Cardinality(flight'[p]) <= MaxInflight
    BY <2>1, <2>2, RequestAssumption DEF FlightOK, RequestAssumption
  <2> QED
    BY <2>1, <2>3, Zenon DEF FlightOK
<1>6. TimersOK(timers')
  BY FS_Subset, Zenon DEF TimersOK
<1>7. FlightInv'
  BY <1>5, <1>6, Zenon DEF PeerInv, FlightInv
<1>8. Served(p)'
  <2>1. Serves(SendPending(p), p)
    BY Zenon DEF Serves, SendPending
  <2> QED
    BY <2>1, Zenon DEF Served
<1>9. ServedInv'
  BY <1>8, Zenon DEF PeerInv, ServedInv, Served, Serves, JobsKept
<1>10. \A y : Timed(y) => Timed(y)' \/ y = x
  BY Zenon DEF Timed, JobsKept
<1>11. TimedInv'
  <2> SUFFICES ASSUME NEW q \in Peers, NEW n \in flight'[q]
               PROVE  Timed([peer |-> q, id |-> n.id])'
    BY Zenon DEF TimedInv
  <2>1. n \in flight[q] /\ (q = p => n # m)
    BY Zenon
  <2>2. [peer |-> q, id |-> n.id] # x
    BY <2>1, Zenon DEF FlightOK
  <2>3. Timed([peer |-> q, id |-> n.id])
    BY <2>1, Zenon DEF PeerInv, TimedInv
  <2> QED
    BY <1>10, <2>2, <2>3, Zenon
<1>12. \A c, h : HeldPeer(c, h) => HeldPeer(c, h)' \/ HasKey(m.req, c, h)
  BY Zenon DEF HeldPeer
<1> QED
  BY <1>3, <1>7, <1>9, <1>11, <1>12, Zenon DEF PeerInv

-----------------------------------------------------------------------------
(* What a step does to the places of keys *)

LEMMA JobFacts ==
  ASSUME NEW j, NEW calls, Replaced(j, calls)
  PROVE  /\ \A c, h : HeldJob(c, h) => HeldJob(c, h)' \/ Carries(j, c, h)
         /\ \A k \in Range(calls) : \A c, h : Carries(k, c, h) => HeldJob(c, h)'
         /\ \A k \in AllJobs : k \in AllJobs' \/ k = j
         /\ j.op \notin {"pending", "remove", "add", "timeout"} => JobsKept
BY Zenon DEF Replaced, HeldJob, JobsKept

LEMMA QueuesKept ==
  ASSUME UNCHANGED <<waiting, tasks>>
  PROVE  /\ QueueInv => QueueInv'
         /\ \A c, h : HeldWaiting(c, h) => HeldWaiting(c, h)'
         /\ \A c, h : HeldTask(c, h) => HeldTask(c, h)'
BY Zenon DEF QueueInv, HeldWaiting, HeldTask

(* The call j is replaced by `calls`, and nothing else moves. *)
LEMMA PlacesKept ==
  ASSUME PeerInv, QueueInv, NEW j, NEW calls, Replaced(j, calls),
         UNCHANGED <<waiting, tasks, conn, flight, pending, timers, session, handshaking>>,
         j.op \notin {"pending", "remove", "add", "timeout"}
  PROVE  /\ PeerInv' /\ QueueInv'
         /\ \A c, h : Held(c, h) => Held(c, h)' \/ Carries(j, c, h)
         /\ \A k \in Range(calls) : \A c, h : Carries(k, c, h) => Held(c, h)'
<1>1. /\ \A c, h : HeldJob(c, h) => HeldJob(c, h)' \/ Carries(j, c, h)
      /\ \A k \in Range(calls) : \A c, h : Carries(k, c, h) => HeldJob(c, h)'
      /\ JobsKept
  BY JobFacts, Zenon
<1>2. QueueInv' /\ \A c, h : /\ HeldWaiting(c, h) => HeldWaiting(c, h)'
                             /\ HeldTask(c, h) => HeldTask(c, h)'
  BY QueuesKept, Zenon
<1>3. PeerInv' /\ \A c, h : HeldPeer(c, h) => HeldPeer(c, h)'
  BY <1>1, PeerFrame, Zenon
<1> QED
  BY <1>1, <1>2, <1>3, Zenon DEF Held

(* Keys in flight stay in flight and change hands. *)
LEMMA Handover ==
  ASSUME KeyInv, CarrierInv, AskedInv, UNCHANGED <<inflight, asked, lost>>,
         \A c, h : Held(c, h) => Held(c, h)',
         \A j \in AllJobs : j \in AllJobs' \/ j.op # "request"
  PROVE  KeyInv' /\ CarrierInv' /\ AskedInv'
<1>1. KeyInv'
  BY Zenon DEF KeyInv
<1>2. CarrierInv'
  BY Zenon DEF CarrierInv
<1>3. AskedInv'
  BY Zenon DEF AskedInv, Asks
<1> QED
  BY <1>1, <1>2, <1>3, Zenon

(* A thread goes on and passes the keys of its call on to the next calls. *)
LEMMA PassOn ==
  ASSUME RequestInv, TodoInv', NEW j, NEW calls, Replaced(j, calls),
         UNCHANGED <<inflight, asked, lost, waiting, tasks, conn, flight, pending, timers,
                     session, handshaking>>,
         j.op \notin {"request", "pending", "remove", "add", "timeout"},
         \A c, h : Carries(j, c, h) => \E k \in Range(calls) : Carries(k, c, h)
  PROVE  RequestInv'
<1> TodoInv /\ KeyInv /\ QueueInv /\ PeerInv /\ CarrierInv /\ AskedInv
  BY Zenon DEF RequestInv
<1>2. /\ PeerInv' /\ QueueInv'
      /\ \A c, h : Held(c, h) => Held(c, h)' \/ Carries(j, c, h)
      /\ \A k \in Range(calls) : \A c, h : Carries(k, c, h) => Held(c, h)'
  BY PlacesKept, Zenon
<1>3. \A k \in AllJobs : k \in AllJobs' \/ k.op # "request"
  BY JobFacts, Zenon
<1>4. KeyInv' /\ CarrierInv' /\ AskedInv'
  BY <1>2, <1>3, Handover, Zenon
<1> QED
  BY <1>2, <1>4, Zenon DEF RequestInv

(* An idle thread starts a handler. *)
LEMMA Started ==
  ASSUME RequestInv, TodoInv', AllJobs \subseteq AllJobs',
         UNCHANGED <<inflight, asked, lost, waiting, tasks, conn, flight, pending, timers>>,
         session' \subseteq session, handshaking \subseteq handshaking'
  PROVE  RequestInv'
<1> TodoInv /\ KeyInv /\ QueueInv /\ PeerInv /\ CarrierInv /\ AskedInv
  BY Zenon DEF RequestInv
<1>2. JobsKept
  BY Zenon DEF JobsKept
<1>3. PeerInv' /\ \A c, h : HeldPeer(c, h) => HeldPeer(c, h)'
  BY <1>2, PeerFrame, Zenon
<1>4. QueueInv' /\ \A c, h : /\ HeldWaiting(c, h) => HeldWaiting(c, h)'
                             /\ HeldTask(c, h) => HeldTask(c, h)'
  BY QueuesKept, Zenon
<1>5. \A c, h : HeldJob(c, h) => HeldJob(c, h)'
  BY Zenon DEF HeldJob
<1>6. KeyInv' /\ CarrierInv' /\ AskedInv'
  BY <1>3, <1>4, <1>5, Handover, Zenon DEF Held
<1> QED
  BY <1>3, <1>4, <1>6, Zenon DEF RequestInv

-----------------------------------------------------------------------------
(* The actions: asking *)

LEMMA RequestWithDelayStep ==
  ASSUME RequestInv, NEW t \in Threads, RequestWithDelay(t)
  PROVE  RequestInv'
<1>0. PICK j, c0, new : j = Head(todo[t]) /\ c0 = Class(j.req.type) /\ new = NewHashes(j.req)
  BY Zenon
<1> DEFINE req == [j.req EXCEPT !.hashes = new]
<1>1. /\ TodoInv /\ KeyInv /\ QueueInv /\ PeerInv /\ CarrierInv /\ AskedInv
      /\ todo[t] # <<>> /\ j.op = "request"
  BY <1>0, Zenon DEF RequestInv, RequestWithDelay, At
<1>2. JobOK(j) /\ ReqOK(j.req)
  BY <1>0, <1>1, HeadJob, Zenon DEF JobOK
<1>3. /\ c0 \in Classes /\ new \subseteq j.req.hashes
      /\ j.req.type = "txn" => new = j.req.hashes
      /\ j.req.type # "txn" => new = j.req.hashes \ inflight[c0]
  BY <1>0, Zenon DEF NewHashes, Class, Classes
<1>4. req.type = j.req.type /\ req.hashes = new /\ ReqOK(req)
  BY <1>2, <1>3 DEF ReqOK
<1> DEFINE check == [op |-> "check", req |-> req, peer |-> j.peer]
           wait == [op |-> "wait", req |-> req, delay |-> NextDelay(j.delay)]
<1>5. PICK calls : /\ Do(t, calls)
                   /\ (calls = <<>> /\ new = {}) \/ calls = <<check>> \/ calls = <<wait>>
  BY <1>0, <1>4, Zenon DEF RequestWithDelay
<1>6. /\ inflight' = IF j.req.type = "txn" THEN inflight
                     ELSE [inflight EXCEPT ![c0] = @ \cup j.req.hashes]
      /\ asked' = IF j.req.type = "txn" THEN asked
                  ELSE [asked EXCEPT ![c0] = @ \cup new]
      /\ UNCHANGED <<waiting, tasks, conn, flight, pending, timers, session, handshaking, lost>>
  BY <1>0, <1>4, Zenon DEF RequestWithDelay, sendVars, peerVars
<1> HIDE DEF req
<1>7. /\ JobOK(check) /\ ~NeedsNext(check) /\ \A h \in new : Carries(check, c0, h)
      /\ JobOK(wait) /\ ~NeedsNext(wait) /\ \A h \in new : Carries(wait, c0, h)
  BY <1>0, <1>4, Zenon DEF JobOK, NeedsNext, Carries, HasKey
<1> HIDE DEF check, wait
<1>8. CallsOK(calls) /\ \A h \in new : \E k \in Range(calls) : Carries(k, c0, h)
  BY <1>5, <1>7, OneCall, NoCalls, Zenon
<1>9. TodoInv' /\ Replaced(j, calls)
  BY <1>0, <1>1, <1>5, <1>8, DoStep, Zenon
<1>10. /\ PeerInv' /\ QueueInv'
       /\ \A c, h : Held(c, h) => Held(c, h)' \/ Carries(j, c, h)
       /\ \A k \in Range(calls) : \A c, h : Carries(k, c, h) => Held(c, h)'
  BY <1>1, <1>6, <1>9, PlacesKept, Zenon
<1>11. \A c, h : Carries(j, c, h) => j.req.type = "txn" /\ c = c0 /\ h \in j.req.hashes
  BY <1>0, <1>1, Zenon DEF Carries, HasKey
<1>12. \A h \in new : Held(c0, h)'
  BY <1>8, <1>10, Zenon
<1>13. KeyInv'
  BY <1>1, <1>2, <1>3, <1>6, Zenon DEF KeyInv, ReqOK
<1>14. CarrierInv'
  <2> SUFFICES ASSUME NEW c \in Classes, NEW h \in inflight'[c]
               PROVE  h \in lost'[c] \/ Held(c, h)'
    BY Zenon DEF CarrierInv
  <2>1. CASE h \in inflight[c]
    BY <1>1, <1>3, <1>6, <1>10, <1>11, <1>12, <2>1 DEF CarrierInv
  <2>2. CASE h \notin inflight[c]
    <3>1. c = c0 /\ h \in new
      BY <1>1, <1>3, <1>6, <2>2, Zenon DEF KeyInv
    <3> QED
      BY <1>12, <3>1, Zenon
  <2> QED
    BY <2>1, <2>2, Zenon
<1>15. AskedInv'
  <2> SUFFICES ASSUME NEW c \in Classes, NEW h \in asked'[c]
               PROVE  h \in inflight'[c] \/ \E k \in AllJobs' : Asks(k, c, h)
    BY Zenon DEF AskedInv
  <2>1. CASE h \in asked[c]
    <3>1. Asks(j, c, h) => j.req.type # "txn" /\ c = c0 /\ h \in j.req.hashes
      BY <1>0, Zenon DEF Asks, HasKey
    <3>2. h \in inflight[c] \/ (\E k \in AllJobs' : Asks(k, c, h)) \/ Asks(j, c, h)
      BY <1>1, <1>9, <2>1, JobFacts, Zenon DEF AskedInv
    <3> QED
      BY <1>1, <1>3, <1>6, <3>1, <3>2, Zenon DEF KeyInv
  <2>2. CASE h \notin asked[c]
    BY <1>1, <1>3, <1>6, <2>2, Zenon DEF KeyInv
  <2> QED
    BY <2>1, <2>2, Zenon
<1> QED
  BY <1>9, <1>10, <1>13, <1>14, <1>15, Zenon DEF RequestInv

(* A call on a request hands it to another call. *)
LEMMA NextCall ==
  ASSUME RequestInv, NEW t \in Threads, NEW j, j = Head(todo[t]), todo[t] # <<>>,
         j.op \in {"check", "send", "unsent", "wait", "again"},
         NEW k, Do(t, <<k>>), k.op \in {"check", "send", "unsent", "wait", "again"}, k.req = j.req,
         UNCHANGED <<inflight, asked, lost, waiting, tasks, conn, flight, pending, timers,
                     session, handshaking>>
  PROVE  RequestInv'
<1> TodoInv
  BY Zenon DEF RequestInv
<1>2. ReqOK(j.req)
  BY HeadJob, Zenon DEF JobOK
<1>3. JobOK(k) /\ ~NeedsNext(k)
  BY <1>2, Zenon DEF JobOK, NeedsNext
<1>4. \A c, h : Carries(j, c, h) => Carries(k, c, h)
  BY Zenon DEF Carries
<1>5. CallsOK(<<k>>) /\ Range(<<k>>) = {k}
  BY <1>3, OneCall, Zenon
<1>6. PICK calls : calls = <<k>>
  BY Zenon
<1>7. TodoInv' /\ Replaced(j, calls)
  BY <1>5, <1>6, DoStep, Zenon
<1>8. \A c, h : Carries(j, c, h) => \E l \in Range(calls) : Carries(l, c, h)
  BY <1>4, <1>5, <1>6, Zenon
<1> QED
  BY <1>7, <1>8, PassOn, Zenon

LEMMA CheckNetInflightStep ==
  ASSUME RequestInv, NEW t \in Threads, CheckNetInflight(t)
  PROVE  RequestInv'
<1> PICK j : j = Head(todo[t])
  BY Zenon
<1>2. PICK k : /\ Do(t, <<k>>) /\ k.op \in {"wait", "send"} /\ k.req = j.req
  BY DEF CheckNetInflight
<1>3. /\ todo[t] # <<>> /\ j.op = "check"
      /\ UNCHANGED <<inflight, asked, lost, waiting, tasks, conn, flight, pending, timers,
                     session, handshaking>>
  BY Zenon DEF CheckNetInflight, At, sendVars, peerVars, ghostVars
<1> QED
  BY <1>2, <1>3, NextCall, Zenon

LEMMA SendFailsStep ==
  ASSUME RequestInv, NEW t \in Threads, SendFails(t)
  PROVE  RequestInv'
<1> PICK j : j = Head(todo[t])
  BY Zenon
<1>2. PICK k : /\ Do(t, <<k>>) /\ k.op = "wait" /\ k.req = j.req
  BY DEF SendFails
<1>3. /\ todo[t] # <<>> /\ j.op = "unsent"
      /\ UNCHANGED <<inflight, asked, lost, waiting, tasks, conn, flight, pending, timers,
                     session, handshaking>>
  BY Zenon DEF SendFails, At, sendVars, peerVars, ghostVars
<1> QED
  BY <1>2, <1>3, NextCall, Zenon

LEMMA SendRequestStep ==
  ASSUME RequestAssumption, RequestInv, NEW t \in Threads, SendRequest(t)
  PROVE  RequestInv'
<1> PICK j : j = Head(todo[t])
  BY Zenon
<1> /\ todo[t] # <<>> /\ j.op = "send"
    /\ UNCHANGED <<inflight, asked, lost, waiting, tasks, session, handshaking>>
  BY Zenon DEF SendRequest, At, keyVars, peerVars, ghostVars
<1>3. CASE j.peer \notin conn
  <2>1. PICK k : Do(t, <<k>>) /\ k.op = "unsent" /\ k.req = j.req
    BY <1>3 DEF SendRequest, Unsent
  <2>2. UNCHANGED <<conn, flight, pending, timers>>
    BY <1>3, Zenon DEF SendRequest, sendVars
  <2> QED
    BY <2>1, <2>2, NextCall, Zenon
<1>4. CASE j.peer \in conn
  <2>1. Place(j.peer, j.req, NextDelay(0)) /\ Do(t, <<>>)
    BY <1>4, Zenon DEF SendRequest
  <2>2. TodoInv /\ KeyInv /\ QueueInv /\ PeerInv /\ CarrierInv /\ AskedInv
    BY Zenon DEF RequestInv
  <2>3. ReqOK(j.req)
    BY <2>2, HeadJob, Zenon DEF JobOK
  <2>4. TodoInv' /\ Replaced(j, <<>>)
    BY <2>1, <2>2, DoStep, NoCalls, Zenon
  <2>5. /\ \A c, h : HeldJob(c, h) => HeldJob(c, h)' \/ Carries(j, c, h)
        /\ \A k \in AllJobs : k \in AllJobs' \/ k.op # "request"
        /\ JobsKept
    BY <2>4, JobFacts
  <2>6. PeerInv' /\ \A c, h : HeldPeer(c, h) \/ HasKey(j.req, c, h) => HeldPeer(c, h)'
    BY <1>4, <2>1, <2>2, <2>3, <2>5, PlaceStep, Zenon
  <2>7. QueueInv' /\ \A c, h : /\ HeldWaiting(c, h) => HeldWaiting(c, h)'
                               /\ HeldTask(c, h) => HeldTask(c, h)'
    BY <2>2, QueuesKept, Zenon
  <2>8. \A c, h : Carries(j, c, h) => HasKey(j.req, c, h)
    BY Zenon DEF Carries
  <2>9. KeyInv' /\ CarrierInv' /\ AskedInv'
    BY <2>2, <2>5, <2>6, <2>7, <2>8, Handover, Zenon DEF Held
  <2> QED
    BY <2>4, <2>6, <2>7, <2>9, Zenon DEF RequestInv
<1> QED
  BY <1>3, <1>4, Zenon

(* A request is added to the waiting ones. *)
LEMMA Waits ==
  ASSUME QueueInv, NEW req, NEW d, ReqOK(req), waiting' = waiting \cup {Entry(req, d)}, tasks' = tasks
  PROVE  /\ QueueInv'
         /\ \A c, h : HeldWaiting(c, h) \/ HasKey(req, c, h) => HeldWaiting(c, h)'
         /\ \A c, h : HeldTask(c, h) => HeldTask(c, h)'
<1>1. PICK e : e = Entry(req, d)
  BY Zenon
<1> waiting' = waiting \cup {e} /\ e.req = req
  BY <1>1, Zenon DEF Entry
<1>2. QueueInv'
  BY Zenon DEF QueueInv, MsgsOK
<1> QED
  BY <1>2, Zenon DEF HeldWaiting, HeldTask

LEMMA PushWaitingStep ==
  ASSUME RequestInv, NEW t \in Threads, PushWaiting(t)
  PROVE  RequestInv'
<1> PICK j : j = Head(todo[t])
  BY Zenon
<1> /\ todo[t] # <<>> /\ j.op = "wait" /\ Do(t, <<>>)
    /\ waiting' = waiting \cup {Entry(j.req, j.delay)}
    /\ UNCHANGED <<inflight, asked, lost, tasks, conn, flight, pending, timers, session, handshaking>>
  BY Zenon DEF PushWaiting, At, keyVars, sendVars, peerVars, ghostVars
<1> TodoInv /\ KeyInv /\ QueueInv /\ PeerInv /\ CarrierInv /\ AskedInv
  BY Zenon DEF RequestInv
<1>4. ReqOK(j.req)
  BY HeadJob, Zenon DEF JobOK
<1> TodoInv' /\ Replaced(j, <<>>)
  BY DoStep, NoCalls, Zenon
<1>6. /\ \A c, h : HeldJob(c, h) => HeldJob(c, h)' \/ Carries(j, c, h)
      /\ \A k \in AllJobs : k \in AllJobs' \/ k.op # "request"
      /\ JobsKept
  BY JobFacts, Zenon
<1>7. PeerInv' /\ \A c, h : HeldPeer(c, h) => HeldPeer(c, h)'
  BY <1>6, PeerFrame, Zenon
<1>8. /\ QueueInv' /\ \A c, h : HeldTask(c, h) => HeldTask(c, h)'
      /\ \A c, h : HeldWaiting(c, h) \/ HasKey(j.req, c, h) => HeldWaiting(c, h)'
  BY <1>4, Waits, Zenon
<1>9. \A c, h : Carries(j, c, h) => HasKey(j.req, c, h)
  BY Zenon DEF Carries
<1>10. KeyInv' /\ CarrierInv' /\ AskedInv'
  BY <1>6, <1>7, <1>8, <1>9, Handover, Zenon DEF Held
<1> QED
  BY <1>7, <1>8, <1>10, Zenon DEF RequestInv

(* Keys are released, and the wanted ones among them are asked for again.  *)
Release(t, j, calls, c0, keys, done) ==
  /\ j = Head(todo[t]) /\ todo[t] # <<>> /\ j.op \in {"again", "received", "resend"}
  /\ CallsOK(calls) /\ Do(t, calls)
  /\ c0 \in Classes
  /\ inflight' = [inflight EXCEPT ![c0] = @ \ keys]
  /\ asked' = [asked EXCEPT ![c0] = @ \ done]
  /\ UNCHANGED <<lost, waiting, tasks, conn, flight, pending, timers, session, handshaking>>
  /\ \A c, h : Carries(j, c, h) =>
       (c = c0 /\ h \in keys) \/ \E k \in Range(calls) : Carries(k, c, h)
  /\ \A h \in inflight[c0] \cap keys : h \in done \/ \E k \in Range(calls) : Asks(k, c0, h)

LEMMA Released ==
  ASSUME RequestInv, NEW t \in Threads, NEW j, NEW calls, NEW c0, NEW keys, NEW done,
         Release(t, j, calls, c0, keys, done)
  PROVE  RequestInv'
<1> USE DEF Release
<1> TodoInv /\ KeyInv /\ QueueInv /\ PeerInv /\ CarrierInv /\ AskedInv
  BY Zenon DEF RequestInv
<1> TodoInv' /\ Replaced(j, calls)
  BY DoStep, Zenon
<1>3. /\ PeerInv' /\ QueueInv'
      /\ \A c, h : Held(c, h) => Held(c, h)' \/ Carries(j, c, h)
      /\ \A k \in Range(calls) : \A c, h : Carries(k, c, h) => Held(c, h)'
  BY PlacesKept, Zenon
<1>4. KeyInv'
  BY Zenon DEF KeyInv
<1>5. CarrierInv'
  <2> SUFFICES ASSUME NEW c \in Classes, NEW h \in inflight'[c]
               PROVE  h \in lost'[c] \/ Held(c, h)'
    BY Zenon DEF CarrierInv
  <2>1. h \in inflight[c] /\ ~(c = c0 /\ h \in keys)
    BY Zenon DEF KeyInv
  <2>2. h \in lost[c] \/ Held(c, h)
    BY <2>1, Zenon DEF CarrierInv
  <2> QED
    BY <1>3, <2>1, <2>2, Zenon
<1>6. AskedInv'
  <2> SUFFICES ASSUME NEW c \in Classes, NEW h \in asked'[c]
               PROVE  h \in inflight'[c] \/ \E k \in AllJobs' : Asks(k, c, h)
    BY Zenon DEF AskedInv
  <2>1. h \in asked[c] /\ ~(c = c0 /\ h \in done)
    BY Zenon DEF KeyInv
  <2>2. CASE h \in inflight[c] /\ ~(c = c0 /\ h \in keys)
    BY <2>2, Zenon DEF KeyInv
  <2>3. CASE c = c0 /\ h \in inflight[c0] \cap keys
    BY <2>1, <2>3, Zenon DEF Replaced
  <2>4. CASE \E k \in AllJobs : Asks(k, c, h)
    <3>1. PICK k \in AllJobs : Asks(k, c, h)
      BY <2>4, Zenon
    <3>2. k # j
      BY <3>1, Zenon DEF Asks
    <3> QED
      BY <3>1, <3>2, Zenon DEF Replaced
  <2> QED
    BY <2>1, <2>2, <2>3, <2>4, Zenon DEF AskedInv
<1> QED
  BY <1>3, <1>4, <1>5, <1>6, Zenon DEF RequestInv

LEMMA ResendOK ==
  ASSUME NEW req, ReqOK(req)
  PROVE  /\ ReqOK(Resend(req)) /\ Resend(req).hashes = req.hashes
         /\ Class(Resend(req).type) = Class(req.type) /\ Resend(req).type # "txn"
         /\ Class(req.type) \in Classes
BY Zenon DEF ReqOK, Resend, Class, Classes

LEMMA ResendToAnotherPeerStep ==
  ASSUME RequestInv, NEW t \in Threads, ResendToAnotherPeer(t)
  PROVE  RequestInv'
<1>1. PICK j, c0 : j = Head(todo[t]) /\ c0 = Class(j.req.type)
  BY Zenon
<1>2. /\ todo[t] # <<>> /\ j.op = "again"
      /\ inflight' = [inflight EXCEPT ![c0] = @ \ j.req.hashes]
      /\ UNCHANGED <<asked, lost, waiting, tasks, conn, flight, pending, timers, session, handshaking>>
  BY <1>1, Zenon DEF ResendToAnotherPeer, KeysWithout, At, sendVars, peerVars, ghostVars
<1> TodoInv /\ KeyInv
  BY Zenon DEF RequestInv
<1>4. ReqOK(j.req)
  BY <1>1, <1>2, HeadJob, Zenon DEF JobOK
<1>5. PICK p : Do(t, <<Request(Resend(j.req).type, Resend(j.req).hashes, p, j.delay)>>)
  BY <1>1, Zenon DEF ResendToAnotherPeer
<1>6. PICK k : k = Request(Resend(j.req).type, Resend(j.req).hashes, p, j.delay)
  BY Zenon
<1>7. JobOK(k) /\ ~NeedsNext(k) /\ \A h \in j.req.hashes : Asks(k, c0, h)
  BY <1>1, <1>4, <1>6, ResendOK, Zenon DEF Request, JobOK, ReqOK, NeedsNext, Asks, HasKey
<1>8. PICK calls : Do(t, calls) /\ CallsOK(calls) /\ Range(calls) = {k}
  BY <1>5, <1>6, <1>7, OneCall, Zenon
<1>9. c0 \in Classes /\ \A c, h : Carries(j, c, h) => c = c0 /\ h \in j.req.hashes
  BY <1>1, <1>2, <1>4, ResendOK, Zenon DEF Carries, HasKey
<1>10. asked' = [asked EXCEPT ![c0] = @ \ {}]
  BY <1>2, <1>9, Zenon DEF KeyInv
<1>11. \A h \in inflight[c0] \cap j.req.hashes : \E l \in Range(calls) : Asks(l, c0, h)
  BY <1>7, <1>8, Zenon
<1>12. Release(t, j, calls, c0, j.req.hashes, {})
  BY <1>1, <1>2, <1>8, <1>9, <1>10, <1>11, Zenon DEF Release
<1> QED
  BY <1>12, Released, Zenon

LEMMA ItemsReceivedStep ==
  ASSUME RequestInv, NEW t \in Threads, ItemsReceived(t)
  PROVE  RequestInv'
<1> PICK j, missing : j = Head(todo[t]) /\ missing = Missing(j)
  BY Zenon
<1> DEFINE keys == j.requested \cup j.got
<1> /\ todo[t] # <<>> /\ j.op = "received"
    /\ inflight' = [inflight EXCEPT ![j.class] = @ \ keys]
    /\ asked' = [asked EXCEPT ![j.class] = @ \ j.got]
    /\ UNCHANGED <<lost, waiting, tasks, conn, flight, pending, timers, session, handshaking>>
  BY Zenon DEF ItemsReceived, At, sendVars, peerVars
<1> /\ j.class \in Classes /\ Class(j.type) = j.class /\ j.type # "txn"
    /\ j.requested \in SUBSET Hashes
  BY HeadJob, Zenon DEF JobOK, RequestInv
<1> PICK p, calls : /\ Do(t, calls)
                    /\ \/ missing = {} /\ calls = <<>>
                       \/ calls = <<Request(j.type, missing, p, j.delay)>>
  <2>1. CASE missing = {}
    BY <2>1, Zenon DEF ItemsReceived
  <2>2. CASE missing # {}
    BY <2>2, Zenon DEF ItemsReceived
  <2> QED
    BY <2>1, <2>2, Zenon
<1> PICK k : k = Request(j.type, missing, p, j.delay)
  BY Zenon
<1> missing = (j.requested \ j.got) \cap inflight[j.class]
  BY Zenon DEF Missing
<1>7. JobOK(k) /\ ~NeedsNext(k) /\ \A h \in missing : Asks(k, j.class, h)
  BY Zenon DEF Request, JobOK, ReqOK, NeedsNext, Asks, HasKey
<1>8. CallsOK(calls) /\ \A h \in missing : \E l \in Range(calls) : Asks(l, j.class, h)
  BY <1>7, OneCall, NoCalls, Zenon
<1>9. \A c, h : Carries(j, c, h) => c = j.class /\ h \in keys
  BY Zenon DEF Carries
<1>10. \A h \in inflight[j.class] \cap keys :
         h \in j.got \/ \E l \in Range(calls) : Asks(l, j.class, h)
  BY <1>8, Zenon
<1> HIDE DEF keys
<1>11. Release(t, j, calls, j.class, keys, j.got)
  BY <1>8, <1>9, <1>10, Zenon DEF Release
<1> QED
  BY <1>11, Released, Zenon

-----------------------------------------------------------------------------
(* The actions: containers *)

LEMMA SplitSeq ==
  ASSUME NEW s, IsSeq(s), NEW n \in 0 .. Len(s)
  PROVE  /\ IsSeq(SubSeq(s, 1, n)) /\ Len(SubSeq(s, 1, n)) = n
         /\ IsSeq(SubSeq(s, n + 1, Len(s)))
         /\ n = Len(s) => SubSeq(s, n + 1, Len(s)) = <<>>
         /\ Range(s) = Range(SubSeq(s, 1, n)) \cup Range(SubSeq(s, n + 1, Len(s)))
<1> DEFINE a == SubSeq(s, 1, n)
           b == SubSeq(s, n + 1, Len(s))
<1>1. s \in Seq(Range(s)) /\ Len(s) \in Nat
  BY DEF IsSeq
<1>2. a \in Seq(Range(s)) /\ Len(a) = n /\ b \in Seq(Range(s)) /\ Len(b) = Len(s) - n
  BY <1>1
<1>3. \A i \in 1 .. n : a[i] = s[i]
  BY <1>1
<1>4. \A i \in 1 .. Len(s) : i > n => b[i - n] = s[i] /\ i - n \in 1 .. Len(b)
  <2>1. \A k \in 1 .. (Len(s) - n) : b[k] = s[n + 1 + k - 1]
    BY <1>1
  <2> HIDE DEF b
  <2> QED
    BY <1>1, <1>2, <2>1
<1>5. Range(s) \subseteq Range(a) \cup Range(b)
  <2> HIDE DEF a, b
  <2> SUFFICES ASSUME NEW i \in 1 .. Len(s) PROVE s[i] \in Range(a) \cup Range(b)
    BY <1>1 DEF Range
  <2>1. CASE i <= n
    BY <1>2, <1>3, <2>1 DEF Range
  <2>2. CASE i > n
    BY <1>2, <1>4, <2>2 DEF Range
  <2> QED
    BY <1>1, <2>1, <2>2
<1>6. n = Len(s) => b = <<>>
  BY <1>2
<1> HIDE DEF a, b
<1>7. IsSeq(a) /\ IsSeq(b) /\ Range(a) \subseteq Range(s) /\ Range(b) \subseteq Range(s)
  BY <1>2, SeqOf, Zenon
<1>8. Range(s) = Range(a) \cup Range(b)
  BY <1>5, <1>7, Zenon
<1> QED
  BY <1>2, <1>6, <1>7, <1>8, Zenon DEF a, b

LEMMA SendPendingStep ==
  ASSUME RequestAssumption, RequestInv, NEW t \in Threads, SendPendingRequests(t)
  PROVE  RequestInv'
<1>1. PICK j, p, free, n : /\ j = Head(todo[t]) /\ p = j.peer
                           /\ free = MaxInflight - Cardinality(flight[p])
                           /\ n = IF free < Len(pending[p]) THEN free ELSE Len(pending[p])
  BY Zenon
<1>2. PICK msgs, rest : msgs = SubSeq(pending[p], 1, n) /\ rest = SubSeq(pending[p], n + 1, Len(pending[p]))
  BY Zenon
<1>3. /\ todo[t] # <<>> /\ j.op = "pending" /\ Do(t, <<>>)
      /\ SendNow(p, msgs) /\ pending' = [pending EXCEPT ![p] = rest]
      /\ UNCHANGED <<inflight, asked, lost, waiting, tasks, conn, session, handshaking>>
  BY <1>1, <1>2, Zenon DEF SendPendingRequests, At, keyVars, peerVars, ghostVars
<1> TodoInv /\ KeyInv /\ QueueInv /\ PeerInv /\ CarrierInv /\ AskedInv
  BY Zenon DEF RequestInv
<1>5. p \in Peers
  BY <1>1, <1>3, HeadJob, Zenon DEF JobOK
<1> ContainerInv /\ FlightInv /\ TimedInv /\ ServedInv
  BY Zenon DEF PeerInv
<1>7. /\ DOMAIN flight = Peers /\ DOMAIN pending = Peers /\ conn \subseteq Peers
      /\ IsSeq(pending[p]) /\ MsgsOK(Range(pending[p])) /\ MsgsOK(flight[p])
  BY <1>5, Zenon DEF ContainerInv
<1>8. free \in Nat /\ Len(pending[p]) \in Nat /\ Cardinality(flight[p]) \in Nat /\ MaxInflight \in Nat
  <2>1. IsFiniteSet(flight[p]) /\ Cardinality(flight[p]) <= MaxInflight
    BY <1>5, Zenon DEF FlightInv, FlightOK
  <2>2. Cardinality(flight[p]) \in Nat
    BY <2>1, FS_CardinalityType, Zenon
  <2>3. MaxInflight \in Nat /\ Len(pending[p]) \in Nat
    BY <1>7 DEF IsSeq, RequestAssumption
  <2> QED
    BY <1>1, <2>1, <2>2, <2>3
<1>9. /\ n \in 0 .. Len(pending[p]) /\ (n = free \/ n = Len(pending[p]))
      /\ n + Cardinality(flight[p]) <= MaxInflight
      /\ n = free => n + Cardinality(flight[p]) = MaxInflight
  <2>1. free = MaxInflight - Cardinality(flight[p])
    BY <1>1, Zenon
  <2>2. n \in {free, Len(pending[p])} /\ n <= free /\ n <= Len(pending[p])
    BY <1>1, <1>8
  <2> QED
    BY <1>8, <2>1, <2>2
<1>10. /\ IsSeq(msgs) /\ Len(msgs) = n /\ IsSeq(rest) /\ (n = Len(pending[p]) => rest = <<>>)
       /\ Range(pending[p]) = Range(msgs) \cup Range(rest)
  BY <1>2, <1>7, <1>9, SplitSeq, Zenon
<1>11. TodoInv' /\ Replaced(j, <<>>)
  BY <1>1, <1>3, DoStep, NoCalls, Zenon
<1>12. /\ \A c, h : HeldJob(c, h) => HeldJob(c, h)' \/ Carries(j, c, h)
       /\ \A k \in AllJobs : k \in AllJobs' \/ k = j
  BY <1>11, JobFacts, Zenon
<1>13. TimeoutsKept /\ Cardinality(flight[p]) + Len(msgs) <= MaxInflight
  <2>1. TimeoutsKept
    BY <1>3, <1>12, Zenon DEF TimeoutsKept
  <2>2. Cardinality(flight[p]) + Len(msgs) <= MaxInflight
    <3>1. Len(msgs) = n
      BY <1>10, Zenon
    <3> QED
      BY <1>8, <1>9, <3>1
  <2> QED
    BY <2>1, <2>2, Zenon
<1>14. /\ FlightInv' /\ TimedInv' /\ DOMAIN flight' = Peers
       /\ Cardinality(flight'[p]) = Cardinality(flight[p]) + Len(msgs)
       /\ flight[p] \subseteq flight'[p]
       /\ \A m \in flight'[p] : m \in flight[p] \/ \E k \in Range(msgs) : m.req = k.req
       /\ \A k \in Range(msgs) : \E m \in flight'[p] : m.req = k.req
       /\ \A q \in Peers \ {p} : flight'[q] = flight[q]
  BY <1>3, <1>5, <1>7, <1>10, <1>13, SendNowStep, Zenon
<1>15. pending'[p] = rest /\ \A q \in Peers \ {p} : pending'[q] = pending[q]
  BY <1>3, <1>5, <1>7, Zenon
<1>16. ContainerInv'
  <2>1. MsgsOK(flight'[p]) /\ IsSeq(pending'[p]) /\ MsgsOK(Range(pending'[p]))
    BY <1>7, <1>10, <1>14, <1>15, Zenon DEF MsgsOK
  <2> QED
    BY <1>3, <1>14, <1>15, <2>1, Zenon DEF ContainerInv
<1>17. ServedInv'
  <2>1. Served(p)'
    <3>1. CASE n = free
      <4>1. Cardinality(flight'[p]) >= MaxInflight
        <5>1. Cardinality(flight'[p]) = Cardinality(flight[p]) + n
          BY <1>10, <1>14, Zenon
        <5> QED
          BY <1>8, <1>9, <3>1, <5>1
      <4> QED
        BY <4>1, Zenon DEF Served
    <3>2. CASE n = Len(pending[p])
      BY <1>10, <1>15, <3>2, Zenon DEF Served
    <3> QED
      BY <1>9, <3>1, <3>2, Zenon
  <2>2. \A q \in Peers \ {p} : ~Serves(j, q)
    BY <1>1, <1>3, Zenon DEF Serves
  <2>3. \A q \in Peers \ {p} : Served(q)'
    BY <1>3, <1>12, <1>14, <1>15, <2>2, Zenon DEF ServedInv, Served
  <2> QED
    BY <2>1, <2>3, Zenon DEF ServedInv
<1>18. ASSUME NEW c, NEW h, HeldPeer(c, h)
       PROVE  HeldPeer(c, h)'
  <2>1. PICK q \in conn : \E m \in flight[q] \cup Range(pending[q]) : HasKey(m.req, c, h)
    BY <1>18, Zenon DEF HeldPeer
  <2>2. conn' = conn /\ q \in Peers
    BY <1>3, <1>7, Zenon
  <2>3. CASE q = p
    <3>1. PICK m \in flight[p] \cup Range(pending[p]) : HasKey(m.req, c, h)
      BY <2>1, <2>3, Zenon
    <3>2. m \in flight'[p] \/ m \in Range(rest) \/ \E k \in flight'[p] : k.req = m.req
      BY <1>10, <1>14, Zenon
    <3> QED
      BY <1>15, <2>2, <2>3, <3>1, <3>2, Zenon DEF HeldPeer, HasKey
  <2>4. CASE q # p
    BY <1>14, <1>15, <2>1, <2>2, <2>4, Zenon DEF HeldPeer, HasKey
  <2> QED
    BY <2>3, <2>4, Zenon
<1>19. QueueInv' /\ \A c, h : /\ HeldWaiting(c, h) => HeldWaiting(c, h)'
                              /\ HeldTask(c, h) => HeldTask(c, h)'
  BY <1>3, QueuesKept, Zenon
<1>20. \A c, h : ~Carries(j, c, h)
  BY <1>3, Zenon DEF Carries
<1>21. KeyInv' /\ CarrierInv' /\ AskedInv'
  BY <1>3, <1>12, <1>18, <1>19, <1>20, Handover, Zenon DEF Held
<1> QED
  BY <1>11, <1>14, <1>16, <1>17, <1>19, <1>21, Zenon DEF RequestInv, PeerInv

(* A container is emptied: its keys are lost or go to the thread. *)
LEMMA EmptyContainer ==
  ASSUME PeerInv, NEW p \in Peers,
         flight' = [flight EXCEPT ![p] = {}], pending' = [pending EXCEPT ![p] = <<>>],
         conn' \subseteq Peers, \A q \in Peers \ {p} : q \in conn' <=> q \in conn,
         timers' \subseteq timers, \A x \in timers \ timers' : x.peer = p,
         NEW j, ~(j.op = "timeout"), \A q \in Peers \ {p} : ~Serves(j, q),
         \A k \in AllJobs : k \in AllJobs' \/ k = j,
         UNCHANGED <<session, handshaking>>
  PROVE  /\ PeerInv'
         /\ \A c, h : HeldPeer(c, h) => \/ HeldPeer(c, h)'
                                        \/ p \in conn /\ \E m \in flight[p] \cup Range(pending[p]) : HasKey(m.req, c, h)
<1> DOMAIN flight = Peers /\ DOMAIN pending = Peers /\ conn \subseteq Peers
  BY Zenon DEF PeerInv, ContainerInv
<1> /\ flight'[p] = {} /\ pending'[p] = <<>> /\ DOMAIN flight' = Peers /\ DOMAIN pending' = Peers
    /\ \A q \in Peers \ {p} : flight'[q] = flight[q] /\ pending'[q] = pending[q]
  BY Zenon
<1>3. IsSeq(<<>>) /\ Range(<<>>) = {}
  BY NoCalls, Zenon DEF CallsOK
<1>4. ContainerInv'
  BY <1>3, Zenon DEF PeerInv, ContainerInv, MsgsOK
<1>5. FlightInv'
  <2>1. FlightOK(flight'[p])
    BY FS_EmptySet, RequestAssumption DEF FlightOK, RequestAssumption
  <2>2. TimersOK(timers')
    BY FS_Subset, Zenon DEF PeerInv, FlightInv, TimersOK
  <2> QED
    BY <2>1, <2>2, Zenon DEF PeerInv, FlightInv
<1>6. ServedInv'
  <2>1. Served(p)'
    BY Zenon DEF Served
  <2>2. \A q \in Peers \ {p} : Served(q)'
    BY DEF PeerInv, ServedInv, Served
  <2> QED
    BY <2>1, <2>2, Zenon DEF ServedInv
<1>7. TimedInv'
  <2> SUFFICES ASSUME NEW q \in Peers, NEW m \in flight'[q]
               PROVE  Timed([peer |-> q, id |-> m.id])'
    BY Zenon DEF TimedInv
  <2>1. q # p /\ Timed([peer |-> q, id |-> m.id])
    BY Zenon DEF PeerInv, TimedInv
  <2> QED
    BY <2>1 DEF Timed
<1>8. \A c, h : HeldPeer(c, h) => \/ HeldPeer(c, h)'
                                  \/ p \in conn /\ \E m \in flight[p] \cup Range(pending[p]) : HasKey(m.req, c, h)
  BY Zenon DEF HeldPeer
<1> QED
  BY <1>4, <1>5, <1>6, <1>7, <1>8, Zenon DEF PeerInv

LEMMA AddPeerStep ==
  ASSUME RequestInv, NEW t \in Threads, AddPeer(t)
  PROVE  RequestInv'
<1>1. PICK j, p : j = Head(todo[t]) /\ p = j.peer
  BY Zenon
<1>2. /\ todo[t] # <<>> /\ j.op = "add" /\ Do(t, <<>>)
      /\ conn' = conn \cup {p} /\ flight' = [flight EXCEPT ![p] = {}]
      /\ pending' = [pending EXCEPT ![p] = <<>>]
      /\ UNCHANGED <<inflight, asked, waiting, tasks, timers, session, handshaking>>
  BY <1>1, Zenon DEF AddPeer, At, keyVars, peerVars
<1>3. lost' = [c \in Classes |-> lost[c] \cup
                  UNION {m.req.hashes : m \in {n \in flight[p] \cup Range(pending[p]) :
                                                 Class(n.req.type) = c}}]
  BY <1>1, Zenon DEF AddPeer
<1> TodoInv /\ KeyInv /\ QueueInv /\ PeerInv /\ CarrierInv /\ AskedInv
  BY Zenon DEF RequestInv
<1>5. p \in Peers
  BY <1>1, <1>2, HeadJob, Zenon DEF JobOK
<1>6. TodoInv' /\ Replaced(j, <<>>)
  BY <1>1, <1>2, DoStep, NoCalls, Zenon
<1>7. /\ \A c, h : HeldJob(c, h) => HeldJob(c, h)' \/ Carries(j, c, h)
      /\ \A k \in AllJobs : k \in AllJobs' \/ k = j
  BY <1>6, JobFacts, Zenon
<1>8. \A q \in Peers \ {p} : ~Serves(j, q)
  BY <1>1, <1>2, Zenon DEF Serves
<1>9. conn' \subseteq Peers /\ \A q \in Peers \ {p} : q \in conn' <=> q \in conn
  BY <1>2, <1>5, Zenon DEF PeerInv, ContainerInv
<1>10. /\ PeerInv'
       /\ \A c, h : HeldPeer(c, h) => \/ HeldPeer(c, h)'
                                      \/ \E m \in flight[p] \cup Range(pending[p]) : HasKey(m.req, c, h)
  BY <1>2, <1>5, <1>7, <1>8, <1>9, EmptyContainer, Zenon
<1>11. \A c \in Classes : \A h :
         /\ h \in lost[c] => h \in lost'[c]
         /\ (\E m \in flight[p] \cup Range(pending[p]) : HasKey(m.req, c, h)) => h \in lost'[c]
  BY <1>3, Zenon DEF HasKey
<1>12. QueueInv' /\ \A c, h : /\ HeldWaiting(c, h) => HeldWaiting(c, h)'
                              /\ HeldTask(c, h) => HeldTask(c, h)'
  BY <1>2, QueuesKept, Zenon
<1>13. \A c, h : ~Carries(j, c, h)
  BY <1>2, Zenon DEF Carries
<1>14. \A c \in Classes : \A h : Held(c, h) => Held(c, h)' \/ h \in lost'[c]
  BY <1>7, <1>10, <1>11, <1>12, <1>13, Zenon DEF Held
<1>15. CarrierInv'
  BY <1>2, <1>11, <1>14, Zenon DEF CarrierInv
<1>16. AskedInv'
  BY <1>2, <1>7, Zenon DEF AskedInv, Asks
<1>17. KeyInv'
  BY <1>2, <1>3, Zenon DEF KeyInv
<1> QED
  BY <1>6, <1>10, <1>12, <1>15, <1>16, <1>17, Zenon DEF RequestInv

(* Requests to be sent again, in sequence. *)
AgainAll(msgs) == [i \in DOMAIN msgs |-> Again(msgs[i].req, msgs[i].delay)]

LEMMA AgainCalls ==
  ASSUME NEW msgs, IsSeq(msgs), MsgsOK(Range(msgs))
  PROVE  /\ CallsOK(AgainAll(msgs))
         /\ \A m \in Range(msgs) : \A c, h :
              HasKey(m.req, c, h) => \E k \in Range(AgainAll(msgs)) : Carries(k, c, h)
         /\ \A k \in Range(AgainAll(msgs)) : k.op = "again"
<1> DEFINE s == AgainAll(msgs)
<1> Len(msgs) \in Nat /\ DOMAIN msgs = 1 .. Len(msgs)
  BY DEF IsSeq
<1>2. /\ s = [i \in 1 .. Len(msgs) |-> s[i]]
      /\ \A i \in 1 .. Len(msgs) : s[i] = Again(msgs[i].req, msgs[i].delay)
  BY Zenon DEF AgainAll
<1>3. \A i \in 1 .. Len(msgs) : ReqOK(msgs[i].req)
  BY Zenon DEF MsgsOK, Range
<1> \A i \in 1 .. Len(msgs) : s[i].op = "again" /\ s[i].req = msgs[i].req
  BY <1>2 DEF Again
<1> HIDE DEF s
<1>5. \A i \in 1 .. Len(msgs) : JobOK(s[i]) /\ ~NeedsNext(s[i])
  BY <1>3, Zenon DEF JobOK, NeedsNext
<1> CallsOK(s) /\ Range(s) = {s[i] : i \in 1 .. Len(msgs)}
  BY <1>2, <1>5, PlainCalls, Zenon
<1>7. \A i \in 1 .. Len(msgs) : \A c, h : HasKey(msgs[i].req, c, h) => Carries(s[i], c, h)
  BY Zenon DEF Carries
<1>8. \A m \in Range(msgs) : \E i \in 1 .. Len(msgs) : m = msgs[i]
  BY Zenon DEF Range
<1>9. \A m \in Range(msgs) : \A c, h : HasKey(m.req, c, h) => \E k \in Range(s) : Carries(k, c, h)
  BY <1>7, <1>8, Zenon
<1>10. \A k \in Range(s) : k.op = "again"
  BY Zenon
<1> QED
  BY <1>9, <1>10, Zenon DEF s

LEMMA RemovePeerStep ==
  ASSUME RequestInv, NEW t \in Threads, RemovePeer(t)
  PROVE  RequestInv'
<1>1. PICK j, p : j = Head(todo[t]) /\ p = j.peer
  BY Zenon
<1>2. /\ todo[t] # <<>> /\ j.op = "remove"
      /\ conn' = conn \ {p} /\ flight' = [flight EXCEPT ![p] = {}]
      /\ pending' = [pending EXCEPT ![p] = <<>>]
      /\ timers' = timers \ {[peer |-> p, id |-> m.id] : m \in flight[p]}
      /\ UNCHANGED <<inflight, asked, lost, waiting, tasks, session, handshaking>>
  BY <1>1, Zenon DEF RemovePeer, At, keyVars, peerVars, ghostVars
<1>3. PICK s \in Orders(flight[p]) : Do(t, AgainAll(s \o pending[p]))
  BY <1>1, Zenon DEF RemovePeer, Unfinished, AgainAll
<1> TodoInv /\ KeyInv /\ QueueInv /\ PeerInv /\ CarrierInv /\ AskedInv
  BY Zenon DEF RequestInv
<1>5. p \in Peers
  BY <1>1, <1>2, HeadJob, Zenon DEF JobOK
<1>6. /\ IsFiniteSet(flight[p]) /\ MsgsOK(flight[p])
      /\ IsSeq(pending[p]) /\ MsgsOK(Range(pending[p]))
  BY <1>5, Zenon DEF PeerInv, ContainerInv, FlightInv, FlightOK
<1>7. PICK msgs : msgs = s \o pending[p]
  BY Zenon
<1>8. IsSeq(msgs) /\ Range(msgs) = flight[p] \cup Range(pending[p])
  BY <1>6, <1>7, OrderOf, RangeCat
<1>9. PICK calls : calls = AgainAll(msgs)
  BY Zenon
<1>10. /\ CallsOK(calls) /\ Do(t, calls)
       /\ \A m \in Range(msgs) : \A c, h : HasKey(m.req, c, h) => \E k \in Range(calls) : Carries(k, c, h)
  BY <1>3, <1>6, <1>7, <1>8, <1>9, AgainCalls, Zenon DEF MsgsOK
<1>11. TodoInv' /\ Replaced(j, calls)
  BY <1>1, <1>2, <1>10, DoStep, Zenon
<1>12. /\ \A c, h : HeldJob(c, h) => HeldJob(c, h)' \/ Carries(j, c, h)
       /\ \A k \in Range(calls) : \A c, h : Carries(k, c, h) => HeldJob(c, h)'
       /\ \A k \in AllJobs : k \in AllJobs' \/ k = j
  BY <1>11, JobFacts, Zenon
<1>13. \A q \in Peers \ {p} : ~Serves(j, q)
  BY <1>1, <1>2, Zenon DEF Serves
<1>14. /\ conn' \subseteq Peers /\ \A q \in Peers \ {p} : q \in conn' <=> q \in conn
       /\ timers' \subseteq timers /\ \A x \in timers \ timers' : x.peer = p
  <2>1. conn \subseteq Peers /\ conn' = conn \ {p}
    BY <1>2, Zenon DEF PeerInv, ContainerInv
  <2>2. timers' = timers \ {[peer |-> p, id |-> m.id] : m \in flight[p]}
    BY <1>2, Zenon
  <2> QED
    BY ONLY <2>1, <2>2
<1>15. /\ PeerInv'
       /\ \A c, h : HeldPeer(c, h) => \/ HeldPeer(c, h)'
                                      \/ \E m \in flight[p] \cup Range(pending[p]) : HasKey(m.req, c, h)
  BY <1>2, <1>5, <1>12, <1>13, <1>14, EmptyContainer, Zenon
<1>16. \A c, h : HeldPeer(c, h) => HeldPeer(c, h)' \/ HeldJob(c, h)'
  BY <1>8, <1>10, <1>12, <1>15, Zenon
<1>17. QueueInv' /\ \A c, h : /\ HeldWaiting(c, h) => HeldWaiting(c, h)'
                              /\ HeldTask(c, h) => HeldTask(c, h)'
  BY <1>2, QueuesKept, Zenon
<1>18. \A c, h : ~Carries(j, c, h)
  BY <1>2, Zenon DEF Carries
<1>19. KeyInv' /\ CarrierInv' /\ AskedInv'
  BY <1>2, <1>12, <1>16, <1>17, <1>18, Handover, Zenon DEF Held
<1> QED
  BY <1>11, <1>15, <1>17, <1>19, Zenon DEF RequestInv

-----------------------------------------------------------------------------
(* The actions: timeouts *)

LEMMA PairOfCalls ==
  ASSUME NEW j, NEW k, JobOK(j), JobOK(k), NeedsNext(j) => Follows(j, k), ~NeedsNext(k)
  PROVE  CallsOK(<<j, k>>) /\ Range(<<j, k>>) = {j, k}
<1> DEFINE s == <<j, k>>
<1> s \in Seq({j, k}) /\ DOMAIN s = {1, 2} /\ s[1] = j /\ s[2] = k /\ s[1 + 1] = k
  OBVIOUS
<1>2. Range(s) = {j, k}
  BY Zenon DEF Range
<1>3. Paired(s)
  BY DEF Paired
<1> QED
  BY <1>2, <1>3, SeqOf, Zenon DEF CallsOK

LEMMA CheckRequestsStep ==
  ASSUME RequestInv, NEW t \in Threads, CheckRequests(t)
  PROVE  RequestInv'
<1>1. /\ Idle(t)
      /\ UNCHANGED <<inflight, asked, lost, waiting, tasks, conn, flight, pending, session, handshaking>>
  BY Zenon DEF CheckRequests, keyVars, peerVars, ghostVars
<1>2. PICK out, j, k, look, calls :
        /\ out \subseteq timers /\ timers' = timers \ out /\ Start(t, calls)
        /\ j = [op |-> "timeout", timers |-> out, msgs |-> <<>>, drop |-> {}, keep |-> {}]
        /\ k = [op |-> "drain"]
        /\ look = IF out = {} THEN <<>> ELSE <<j>>
        /\ calls = look \o <<k>>
  BY Zenon DEF CheckRequests, Timeout
<1> TodoInv /\ KeyInv /\ QueueInv /\ PeerInv /\ CarrierInv /\ AskedInv
  BY Zenon DEF RequestInv
<1>4. TimersOK(timers) /\ TimersOK(out) /\ TimersOK(timers')
  BY <1>2, FS_Subset, Zenon DEF PeerInv, FlightInv, TimersOK
<1>5. JobOK(j) /\ ~NeedsNext(j)
  <2>1. IsSeq(<<>>) /\ Range(<<>>) = {}
    BY NoCalls, Zenon DEF CallsOK
  <2> QED
    BY <1>2, <1>4, <2>1, Zenon DEF JobOK, NeedsNext, TimersOK, MsgsOK
<1>6. JobOK(k) /\ ~NeedsNext(k)
  BY <1>2, Zenon DEF JobOK, NeedsNext
<1>7. CallsOK(calls) /\ (out # {} => j \in Range(calls))
  <2>1. CallsOK(look) /\ (out # {} => j \in Range(look))
    BY <1>2, <1>5, NoCalls, OneCall, Zenon
  <2>2. CallsOK(<<k>>)
    BY <1>6, OneCall, Zenon
  <2>3. CallsOK(look \o <<k>>) /\ Range(look \o <<k>>) = Range(look) \cup Range(<<k>>)
    BY <2>1, <2>2, MoreCalls, Zenon
  <2> QED
    BY <1>2, <2>1, <2>3, Zenon
<1>8. TodoInv' /\ AllJobs \subseteq AllJobs' /\ (out # {} => j \in AllJobs')
  BY <1>1, <1>2, <1>7, StartStep, Zenon
<1>9. PeerInv'
  <2>1. ContainerInv' /\ FlightInv' /\ ServedInv'
    BY <1>1, <1>4, <1>8, Zenon DEF PeerInv, ContainerInv, FlightInv, ServedInv, Served
  <2>2. \A x : Timed(x) => Timed(x)'
    BY <1>2, <1>8, Zenon DEF Timed
  <2>3. TimedInv'
    BY <1>1, <2>2, Zenon DEF PeerInv, TimedInv
  <2> QED
    BY <2>1, <2>3, Zenon DEF PeerInv
<1>10. QueueInv' /\ \A c, h : Held(c, h) => Held(c, h)'
  BY <1>1, <1>8, Zenon DEF QueueInv, Held, HeldWaiting, HeldPeer, HeldTask, HeldJob
<1>11. KeyInv' /\ CarrierInv' /\ AskedInv'
  BY <1>1, <1>8, <1>10, Handover, Zenon
<1> QED
  BY <1>8, <1>9, <1>10, <1>11, Zenon DEF RequestInv

LEMMA ProcessTimeoutStep ==
  ASSUME RequestInv, NEW t \in Threads, ProcessTimeout(t)
  PROVE  RequestInv'
<1> PICK j : j = Head(todo[t])
  BY Zenon
<1>2. /\ todo[t] # <<>> /\ j.op = "timeout"
      /\ UNCHANGED <<inflight, asked, lost, waiting, tasks, conn, pending, timers, session, handshaking>>
  BY Zenon DEF ProcessTimeout, At, keyVars, peerVars, ghostVars
<1>3. PICK x, hit, late, drop, found :
        /\ x \in j.timers
        /\ hit = {m \in flight[x.peer] : m.id = x.id} /\ late = {x.peer : m \in hit}
        /\ flight' = [flight EXCEPT ![x.peer] = @ \ hit]
        /\ drop \in SUBSET late /\ found \in Orders(hit)
        /\ Do(t, <<Timeout(j.timers \ {x}, j.msgs \o found, j.drop \cup drop, j.keep \cup (late \ drop))>>)
  BY Zenon DEF ProcessTimeout
<1> TodoInv /\ KeyInv /\ QueueInv /\ PeerInv /\ CarrierInv /\ AskedInv
  BY Zenon DEF RequestInv
<1>5. /\ j = [op |-> "timeout", timers |-> j.timers, msgs |-> j.msgs, drop |-> j.drop, keep |-> j.keep]
      /\ x.peer \in Peers /\ TimersOK(j.timers)
      /\ j.drop \in SUBSET Peers /\ j.keep \in SUBSET Peers
      /\ IsSeq(j.msgs) /\ MsgsOK(Range(j.msgs))
  BY <1>2, <1>3, HeadJob, Zenon DEF JobOK, TimersOK
<1>6. PICK p : p = x.peer
  BY Zenon
<1>7. DOMAIN flight = Peers /\ MsgsOK(flight[p]) /\ FlightOK(flight[p])
  BY <1>5, <1>6, Zenon DEF PeerInv, ContainerInv, FlightInv
<1>8. IsFiniteSet(hit) /\ hit \subseteq flight[p] /\ MsgsOK(hit)
  BY <1>3, <1>6, <1>7, FS_Subset, Zenon DEF FlightOK, MsgsOK
<1>9. PICK k, msgs, drops, keeps :
        /\ Do(t, <<k>>)
        /\ k = [op |-> "timeout", timers |-> j.timers \ {x}, msgs |-> msgs, drop |-> drops, keep |-> keeps]
        /\ msgs = j.msgs \o found /\ drops = j.drop \cup drop /\ keeps = j.keep \cup (late \ drop)
  BY <1>3, Zenon DEF Timeout
<1>21. /\ IsSeq(msgs) /\ Range(msgs) = Range(j.msgs) \cup hit
       /\ drops \in SUBSET Peers /\ keeps \in SUBSET Peers
       /\ j.drop \cup j.keep \subseteq drops \cup keeps
       /\ hit # {} => p \in drops \cup keeps
  <2>1. IsSeq(msgs) /\ Range(msgs) = Range(j.msgs) \cup hit
    <3>1. IsSeq(found) /\ Range(found) = hit
      BY <1>3, <1>8, OrderOf, Zenon
    <3> QED
      BY <1>5, <1>9, <3>1, RangeCat, Zenon
  <2> QED
    BY <1>3, <1>5, <1>6, <1>9, <2>1, Zenon
<1>10. JobOK(k) /\ ~NeedsNext(k)
  <2>1. TimersOK(j.timers \ {x})
    BY <1>5, FS_Subset, Zenon DEF TimersOK
  <2>2. MsgsOK(Range(msgs))
    BY <1>5, <1>8, <1>9, <1>21, Zenon DEF MsgsOK
  <2> QED
    BY <1>9, <1>21, <2>1, <2>2, Zenon DEF JobOK, NeedsNext, TimersOK
<1>11. CallsOK(<<k>>) /\ Range(<<k>>) = {k}
  BY <1>10, OneCall, Zenon
<1>12. TodoInv' /\ Replaced(j, <<k>>)
  BY <1>2, <1>9, <1>11, DoStep, Zenon
<1>13. /\ \A c, h : HeldJob(c, h) => HeldJob(c, h)' \/ Carries(j, c, h)
       /\ \A c, h : Carries(k, c, h) => HeldJob(c, h)'
       /\ \A l \in AllJobs : l \in AllJobs' \/ l = j
       /\ k \in AllJobs'
  BY <1>11, <1>12, JobFacts, Zenon DEF Replaced
<1>14. flight'[p] = flight[p] \ hit /\ DOMAIN flight' = Peers /\ \A q \in Peers \ {p} : flight'[q] = flight[q]
  BY <1>3, <1>5, <1>6, <1>7, Zenon
<1>15. ContainerInv' /\ FlightInv'
  <2>1. IsFiniteSet(flight'[p]) /\ Cardinality(flight'[p]) <= Cardinality(flight[p])
    BY <1>7, <1>14, FS_Subset, Zenon DEF FlightOK
  <2>2. Cardinality(flight'[p]) \in Nat /\ Cardinality(flight[p]) \in Nat
    BY <1>7, <2>1, FS_CardinalityType, Zenon DEF FlightOK
  <2>3. Cardinality(flight'[p]) <= MaxInflight
    BY <1>7, <2>1, <2>2, RequestAssumption DEF FlightOK, RequestAssumption
  <2>4. FlightOK(flight'[p]) /\ MsgsOK(flight'[p])
    BY <1>7, <1>14, <2>1, <2>3, Zenon DEF FlightOK, MsgsOK
  <2> QED
    BY <1>2, <1>14, <2>4, Zenon DEF PeerInv, ContainerInv, FlightInv
<1>16. ServedInv'
  <2>1. \A q : Serves(j, q) => Serves(k, q)
    BY <1>2, <1>9, <1>21, Zenon DEF Serves
  <2>2. hit # {} => Serves(k, p)
    BY <1>9, <1>21, Zenon DEF Serves
  <2>3. hit = {} => flight'[p] = flight[p]
    BY <1>14, Zenon
  <2> QED
    BY <1>2, <1>13, <1>14, <2>1, <2>2, <2>3, Zenon DEF PeerInv, ServedInv, Served
<1>17. TimedInv'
  <2> SUFFICES ASSUME NEW q \in Peers, NEW m \in flight'[q]
               PROVE  Timed([peer |-> q, id |-> m.id])'
    BY Zenon DEF TimedInv
  <2>1. Timed([peer |-> q, id |-> m.id])
    BY <1>14, Zenon DEF PeerInv, TimedInv
  <2>2. [peer |-> q, id |-> m.id] # x
    BY <1>3, <1>6, <1>14
  <2> QED
    BY <1>2, <1>9, <1>13, <2>1, <2>2, Zenon DEF Timed
<1>18. \A c, h : /\ Carries(j, c, h) => Carries(k, c, h)
                 /\ HeldPeer(c, h) => HeldPeer(c, h)' \/ Carries(k, c, h)
  <2>1. \A c, h : Carries(j, c, h) => Carries(k, c, h)
    BY <1>2, <1>9, <1>21, Zenon DEF Carries
  <2>2. \A c, h : (\E m \in hit : HasKey(m.req, c, h)) => Carries(k, c, h)
    BY <1>9, <1>21, Zenon DEF Carries
  <2>3. conn \subseteq Peers
    BY Zenon DEF PeerInv, ContainerInv
  <2> QED
    BY <1>2, <1>14, <2>1, <2>2, <2>3, Zenon DEF HeldPeer
<1>19. QueueInv' /\ \A c, h : /\ HeldWaiting(c, h) => HeldWaiting(c, h)'
                              /\ HeldTask(c, h) => HeldTask(c, h)'
  BY <1>2, QueuesKept, Zenon
<1>20. KeyInv' /\ CarrierInv' /\ AskedInv'
  BY <1>2, <1>13, <1>18, <1>19, Handover, Zenon DEF Held
<1> QED
  BY <1>12, <1>15, <1>16, <1>17, <1>19, <1>20, Zenon DEF RequestInv, PeerInv

(* The peers in a sequence are forgotten one after the other. *)
LEMMA LeavingCalls ==
  ASSUME NEW peers, IsSeq(peers), Range(peers) \subseteq Peers
  PROVE  CallsOK(Leaving(peers))
<1> DEFINE n == Len(peers)
           s == Leaving(peers)
<1>1. n \in Nat /\ \A k \in 1 .. n : peers[k] \in Peers
  BY DEF IsSeq, Range
<1>2. DOMAIN s = 1 .. 2 * n /\ 2 * n \in Nat
  BY <1>1 DEF Leaving
<1>3. ASSUME NEW i \in 1 .. 2 * n, i % 2 = 1
      PROVE  s[i] = [op |-> "leave", peer |-> peers[(i + 1) \div 2]]
  <2>1. 2 - (i % 2) = 1
    BY <1>3
  <2> QED
    BY <2>1 DEF Leaving, Leave
<1>4. ASSUME NEW i \in 1 .. 2 * n, i % 2 # 1
      PROVE  s[i] = [op |-> "remove", peer |-> peers[(i + 1) \div 2]]
  <2>1. 2 - (i % 2) = 2
    BY <1>1, <1>4
  <2> QED
    BY <2>1 DEF Leaving, Leave
<1>5. \A i \in 1 .. 2 * n : (i + 1) \div 2 \in 1 .. n
  BY <1>1
<1>6. \A i \in 1 .. 2 * n : i % 2 = 1 =>
        i + 1 \in 1 .. 2 * n /\ (i + 1) % 2 # 1 /\ (i + 1 + 1) \div 2 = (i + 1) \div 2
  BY <1>1
<1> HIDE DEF s, n
<1>10. ASSUME NEW i \in 1 .. 2 * n
       PROVE  /\ (s[i].op = "leave" /\ i % 2 = 1) \/ s[i].op = "remove"
              /\ s[i].peer \in Peers
  <2>0. PICK p \in Peers : p = peers[(i + 1) \div 2]
    BY <1>1, <1>5, Zenon
  <2>1. CASE i % 2 = 1
    <3>1. s[i] = [op |-> "leave", peer |-> p]
      BY <1>3, <2>0, <2>1, Zenon
    <3> QED
      BY <2>1, <3>1
  <2>2. CASE i % 2 # 1
    <3>1. s[i] = [op |-> "remove", peer |-> p]
      BY <1>4, <2>0, <2>2, Zenon
    <3> QED
      BY <3>1
  <2> QED
    BY <2>1, <2>2, Zenon
<1>7. ASSUME NEW i \in 1 .. 2 * n PROVE JobOK(s[i])
  BY <1>10, Zenon DEF JobOK
<1>8. Paired(s)
  <2> SUFFICES ASSUME NEW i \in 1 .. 2 * n, NeedsNext(s[i])
               PROVE  i + 1 \in 1 .. 2 * n /\ Follows(s[i], s[i + 1])
    BY <1>2, Zenon DEF Paired
  <2>1. i % 2 = 1
    BY <1>10, Zenon DEF NeedsNext
  <2>2. /\ s[i] = [op |-> "leave", peer |-> peers[(i + 1) \div 2]]
        /\ s[i + 1] = [op |-> "remove", peer |-> peers[(i + 1) \div 2]]
    BY <1>3, <1>4, <1>6, <2>1, Zenon
  <2> QED
    BY <1>6, <2>1, <2>2 DEF Follows
<1>9. IsSeq(s) /\ \A j \in Range(s) : \E i \in 1 .. 2 * n : j = s[i]
  <2>1. s = [i \in 1 .. 2 * n |-> s[i]]
    BY <1>2, Zenon DEF s, Leaving
  <2>2. \A i \in 1 .. 2 * n : s[i] \in Range(s)
    BY <1>2, Zenon DEF Range
  <2>3. s \in Seq(Range(s))
    BY <1>2, <2>1, <2>2
  <2> QED
    BY <1>2, <2>3, Zenon DEF Range, IsSeq
<1> QED
  BY <1>7, <1>8, <1>9, Zenon DEF CallsOK, s

(* The containers of the peers in a sequence are served. *)
LEMMA ServingCalls ==
  ASSUME NEW peers, IsSeq(peers), Range(peers) \subseteq Peers,
         NEW s, s = [i \in DOMAIN peers |-> SendPending(peers[i])]
  PROVE  CallsOK(s) /\ \A p \in Range(peers) : \E k \in Range(s) : Serves(k, p)
<1> Len(peers) \in Nat /\ DOMAIN peers = 1 .. Len(peers) /\ \A i \in 1 .. Len(peers) : peers[i] \in Peers
  BY DEF IsSeq, Range
<1>2. s = [i \in 1 .. Len(peers) |-> s[i]]
  BY Zenon
<1>3. \A i \in 1 .. Len(peers) : s[i].op = "pending" /\ s[i].peer = peers[i]
  BY Zenon DEF SendPending
<1>4. \A i \in 1 .. Len(peers) : JobOK(s[i]) /\ ~NeedsNext(s[i]) /\ Serves(s[i], peers[i])
  BY <1>3, Zenon DEF JobOK, NeedsNext, Serves
<1>5. CallsOK(s) /\ Range(s) = {s[i] : i \in 1 .. Len(peers)}
  BY <1>2, <1>4, PlainCalls
<1>6. \A p \in Range(peers) : \E i \in 1 .. Len(peers) : p = peers[i]
  BY Zenon DEF Range
<1> QED
  BY <1>4, <1>5, <1>6, Zenon

LEMMA AfterTimeoutsStep ==
  ASSUME RequestAssumption, RequestInv, NEW t \in Threads, AfterTimeouts(t)
  PROVE  RequestInv'
<1>1. PICK j, gone : j = Head(todo[t]) /\ gone = j.drop \cap session
  BY Zenon
<1>2. /\ todo[t] # <<>> /\ j.op = "timeout" /\ j.timers = {} /\ session' = session \ gone
      /\ UNCHANGED <<inflight, asked, lost, waiting, tasks, conn, flight, pending, timers, handshaking>>
  BY <1>1, Zenon DEF AfterTimeouts, At, keyVars, sendVars, ghostVars
<1>3. PICK out, served, leaving, serving, again :
        /\ out \in Orders(gone) /\ served \in Orders(j.keep)
        /\ leaving = Leaving(out) /\ serving = [i \in DOMAIN served |-> SendPending(served[i])]
        /\ again = AgainAll(j.msgs) /\ Do(t, leaving \o serving \o again)
  BY <1>1, Zenon DEF AfterTimeouts, AgainAll
<1> TodoInv /\ KeyInv /\ QueueInv /\ PeerInv /\ CarrierInv /\ AskedInv
  BY Zenon DEF RequestInv
<1>5. /\ j.drop \in SUBSET Peers /\ j.keep \in SUBSET Peers
      /\ IsSeq(j.msgs) /\ MsgsOK(Range(j.msgs))
  BY <1>1, <1>2, HeadJob, Zenon DEF JobOK
<1>6. IsFiniteSet(gone) /\ IsFiniteSet(j.keep) /\ gone \subseteq Peers
  BY <1>1, <1>5, FS_Subset, Zenon DEF RequestAssumption
<1>7. CallsOK(leaving)
  BY <1>3, <1>6, OrderOf, LeavingCalls, Zenon
<1>8. CallsOK(serving) /\ \A p \in j.keep : \E k \in Range(serving) : Serves(k, p)
  BY <1>3, <1>5, <1>6, OrderOf, ServingCalls
<1>9. /\ CallsOK(again)
      /\ \A m \in Range(j.msgs) : \A c, h :
           HasKey(m.req, c, h) => \E k \in Range(again) : Carries(k, c, h)
  BY <1>3, <1>5, AgainCalls, Zenon
<1>10. PICK calls : calls = leaving \o serving \o again
  BY Zenon
<1>11. CallsOK(calls) /\ Range(serving) \subseteq Range(calls) /\ Range(again) \subseteq Range(calls)
  BY <1>7, <1>8, <1>9, <1>10, MoreCalls
<1>12. TodoInv' /\ Replaced(j, calls)
  BY <1>1, <1>2, <1>3, <1>10, <1>11, DoStep, Zenon
<1>13. /\ \A c, h : HeldJob(c, h) => HeldJob(c, h)' \/ Carries(j, c, h)
       /\ \A k \in Range(calls) : \A c, h : Carries(k, c, h) => HeldJob(c, h)'
       /\ \A k \in AllJobs : k \in AllJobs' \/ k = j
       /\ Range(calls) \subseteq AllJobs'
  BY <1>12, JobFacts, Zenon DEF Replaced
<1>14. ServedInv'
  <2> SUFFICES ASSUME NEW p \in Peers PROVE Served(p)'
    BY Zenon DEF ServedInv
  <2>1. CASE \E k \in AllJobs' : Serves(k, p)
    BY <2>1, Zenon DEF Served
  <2>2. CASE p \in j.drop
    BY <1>1, <1>2, <2>2, Zenon DEF Served
  <2>3. CASE p \in j.keep
    BY <1>8, <1>11, <1>13, <2>3, Zenon DEF Served
  <2>4. CASE ~Serves(j, p)
    BY <1>2, <1>13, <2>4, Zenon DEF PeerInv, ServedInv, Served
  <2> QED
    BY <1>2, <2>2, <2>3, <2>4, Zenon DEF Serves
<1>15. ContainerInv' /\ FlightInv'
  BY <1>2, Zenon DEF PeerInv, ContainerInv, FlightInv
<1>16. TimedInv'
  BY <1>2, <1>13, Zenon DEF PeerInv, TimedInv, Timed
<1>17. \A c, h : Carries(j, c, h) => HeldJob(c, h)'
  BY <1>2, <1>9, <1>11, <1>13, Zenon DEF Carries
<1>18. QueueInv' /\ \A c, h : /\ HeldWaiting(c, h) => HeldWaiting(c, h)'
                              /\ HeldTask(c, h) => HeldTask(c, h)'
  BY <1>2, QueuesKept, Zenon
<1>19. \A c, h : HeldPeer(c, h) => HeldPeer(c, h)'
  BY <1>2, Zenon DEF HeldPeer
<1>20. KeyInv' /\ CarrierInv' /\ AskedInv'
  BY <1>2, <1>13, <1>17, <1>18, <1>19, Handover, Zenon DEF Held
<1> QED
  BY <1>12, <1>14, <1>15, <1>16, <1>18, <1>20, Zenon DEF RequestInv, PeerInv

-----------------------------------------------------------------------------
(* The actions: waiting requests *)

(* A thread moves requests between the waiting ones and its calls. *)
Regroup(t, j, calls) ==
  /\ j = Head(todo[t]) /\ todo[t] # <<>> /\ j.op \in {"drain", "resend"}
  /\ CallsOK(calls) /\ Do(t, calls)
  /\ UNCHANGED <<inflight, asked, lost, tasks, conn, flight, pending, timers, session, handshaking>>
  /\ MsgsOK(waiting')
  /\ \A c, h : HeldWaiting(c, h) \/ Carries(j, c, h) =>
       HeldWaiting(c, h)' \/ \E k \in Range(calls) : Carries(k, c, h)

LEMMA Regrouped ==
  ASSUME RequestInv, NEW t \in Threads, NEW j, NEW calls, Regroup(t, j, calls)
  PROVE  RequestInv'
<1> USE DEF Regroup
<1> TodoInv /\ KeyInv /\ QueueInv /\ PeerInv /\ CarrierInv /\ AskedInv
  BY Zenon DEF RequestInv
<1> TodoInv' /\ Replaced(j, calls)
  BY DoStep, Zenon
<1> /\ \A c, h : HeldJob(c, h) => HeldJob(c, h)' \/ Carries(j, c, h)
    /\ \A k \in Range(calls) : \A c, h : Carries(k, c, h) => HeldJob(c, h)'
    /\ \A k \in AllJobs : k \in AllJobs' \/ k.op # "request"
    /\ JobsKept
  BY JobFacts, Zenon
<1>4. PeerInv' /\ \A c, h : HeldPeer(c, h) => HeldPeer(c, h)'
  BY PeerFrame, Zenon
<1>5. QueueInv' /\ \A c, h : HeldTask(c, h) => HeldTask(c, h)'
  BY Zenon DEF QueueInv, HeldTask
<1>6. \A c, h : Held(c, h) => Held(c, h)'
  BY <1>4, <1>5, Zenon DEF Held
<1>7. KeyInv' /\ CarrierInv' /\ AskedInv'
  BY <1>6, Handover, Zenon
<1> QED
  BY <1>4, <1>5, <1>7, Zenon DEF RequestInv

LEMMA StartDrainStep ==
  ASSUME RequestInv, NEW t \in Threads, StartDrain(t)
  PROVE  RequestInv'
<1> PICK j : j = Head(todo[t])
  BY Zenon
<1> /\ todo[t] # <<>> /\ j.op = "drain"
    /\ UNCHANGED <<inflight, asked, lost, tasks, conn, flight, pending, timers, session, handshaking>>
  BY Zenon DEF StartDrain, At, keyVars, sendVars, peerVars, ghostVars
<1> PICK rest, k, calls : /\ rest \subseteq waiting /\ waiting' = waiting \ rest
                          /\ k = [op |-> "resend", rest |-> rest, batch |-> {}]
                          /\ calls = IF rest = {} THEN <<>> ELSE <<k>>
                          /\ Do(t, calls)
  <2>1. PICK rest \in SUBSET waiting :
          /\ waiting' = waiting \ rest
          /\ IF rest = {} THEN Do(t, <<>>)
             ELSE Do(t, <<[op |-> "resend", rest |-> rest, batch |-> {}]>>)
    BY Zenon DEF StartDrain
  <2> QED
    BY <2>1, Zenon
<1> MsgsOK(waiting) /\ MsgsOK(waiting')
  BY Zenon DEF RequestInv, QueueInv, MsgsOK
<1>5. JobOK(k) /\ ~NeedsNext(k)
  BY Zenon DEF JobOK, NeedsNext, MsgsOK
<1>6. CallsOK(calls) /\ (rest # {} => k \in Range(calls))
  BY <1>5, NoCalls, OneCall, Zenon
<1>7. \A c, h : HeldWaiting(c, h) => HeldWaiting(c, h)' \/ (rest # {} /\ Carries(k, c, h))
  BY Zenon DEF HeldWaiting, Carries
<1>8. \A c, h : ~Carries(j, c, h)
  BY Zenon DEF Carries
<1>9. Regroup(t, j, calls)
  BY <1>6, <1>7, <1>8, Zenon DEF Regroup
<1> QED
  BY <1>9, Regrouped, Zenon

(* What is left of resend_waiting_requests has the requests left to it. *)
LEMMA ResendingCalls ==
  ASSUME NEW t, NEW rest, NEW batch, MsgsOK(rest), MsgsOK(batch), Resending(t, rest, batch, <<>>)
  PROVE  \E calls : /\ CallsOK(calls) /\ Do(t, calls)
                    /\ \A m \in rest \cup batch : \A c, h :
                         HasKey(m.req, c, h) => \E k \in Range(calls) : Carries(k, c, h)
<1> PICK k : k = [op |-> "resend", rest |-> rest, batch |-> batch]
  BY Zenon
<1>2. CASE rest = {} /\ batch = {}
  <2>1. Do(t, <<>>)
    BY <1>2, Zenon DEF Resending
  <2> QED
    BY <1>2, <2>1, NoCalls, Zenon
<1>3. CASE ~(rest = {} /\ batch = {})
  <2>1. Do(t, <<>> \o <<k>>)
    BY <1>3, Zenon DEF Resending
  <2>2. <<>> \o <<k>> = <<k>>
    OBVIOUS
  <2>3. JobOK(k) /\ ~NeedsNext(k)
    BY Zenon DEF JobOK, NeedsNext
  <2>4. CallsOK(<<k>>) /\ Range(<<k>>) = {k}
    BY <2>3, OneCall, Zenon
  <2>5. \A m \in rest \cup batch : \A c, h : HasKey(m.req, c, h) => Carries(k, c, h)
    BY Zenon DEF Carries
  <2> QED
    BY <2>1, <2>2, <2>4, <2>5, Zenon
<1> QED
  BY <1>2, <1>3, Zenon

(* The batcher drops no key. *)
LEMMA BatchedKeys ==
  ASSUME NEW batch, MsgsOK(batch), NEW req, ReqOK(req), NEW d, NEW new \in Batched(batch, req, d)
  PROVE  /\ MsgsOK(new)
         /\ \A c, h : HasKey(req, c, h) => \E b \in new : HasKey(b.req, c, h)
         /\ \A m \in batch : \A c, h : HasKey(m.req, c, h) => \E b \in new : HasKey(b.req, c, h)
<1>1. PICK c0, same, hashes :
        /\ c0 = Class(req.type)
        /\ same = {b \in batch : Bucket(Class(b.req.type), b.delay) = Bucket(c0, d)}
        /\ hashes = req.hashes \cup UNION {b.req.hashes : b \in same}
  BY Zenon
<1>2. PICK e, n : n = [req |-> [type |-> c0, hashes |-> hashes], delay |-> e] /\ new = (batch \ same) \cup {n}
  BY <1>1, Zenon DEF Batched
<1>3. Class(c0) = c0
  BY <1>1, Zenon DEF Class
<1>4. \A b \in same : b \in batch /\ Class(b.req.type) = c0
  BY <1>1, Zenon DEF Bucket
<1>5. ReqOK(n.req) /\ n.req.type = c0 /\ n.req.hashes = hashes
  <2>1. hashes \subseteq Hashes
    BY <1>1, <1>4, Zenon DEF MsgsOK, ReqOK
  <2> QED
    BY <1>2, <2>1, Zenon DEF ReqOK
<1>6. MsgsOK(new)
  BY <1>2, <1>5, Zenon DEF MsgsOK
<1>7. \A c, h : HasKey(req, c, h) => HasKey(n.req, c, h)
  BY <1>1, <1>3, <1>5, Zenon DEF HasKey
<1>8. \A m \in same : \A c, h : HasKey(m.req, c, h) => HasKey(n.req, c, h)
  BY <1>1, <1>3, <1>4, <1>5, Zenon DEF HasKey
<1> QED
  BY <1>2, <1>6, <1>7, <1>8, Zenon

LEMMA TakeWaitingStep ==
  ASSUME RequestInv, NEW t \in Threads, TakeWaiting(t)
  PROVE  RequestInv'
<1> PICK j : j = Head(todo[t])
  BY Zenon
<1>2. /\ todo[t] # <<>> /\ j.op = "resend"
      /\ UNCHANGED <<lost, tasks, conn, flight, pending, timers, session, handshaking>>
  BY Zenon DEF TakeWaiting, At, sendVars, peerVars
<1>3. PICK w, rest, req :
        /\ w \in j.rest /\ rest = j.rest \ {w} /\ req = Resend(w.req)
        /\ \/ /\ inflight' = KeysWithout(w.req)
              /\ asked' = [asked EXCEPT ![Class(req.type)] = @ \ req.hashes]
              /\ Resending(t, rest, j.batch, <<>>)
              /\ UNCHANGED waiting
           \/ /\ waiting' = waiting \cup {Entry(req, w.delay)}
              /\ Resending(t, rest, j.batch, <<>>)
              /\ UNCHANGED <<inflight, asked>>
           \/ /\ \E batch \in Batched(j.batch, req, w.delay) : Resending(t, rest, batch, <<>>)
              /\ UNCHANGED <<inflight, waiting, asked>>
  BY Zenon DEF TakeWaiting
<1> TodoInv /\ KeyInv /\ QueueInv
  BY Zenon DEF RequestInv
<1>5. MsgsOK(j.rest) /\ MsgsOK(j.batch)
  BY <1>2, HeadJob, Zenon DEF JobOK
<1>6. ReqOK(w.req) /\ MsgsOK(rest)
  BY <1>3, <1>5, Zenon DEF MsgsOK
<1>7. /\ ReqOK(req) /\ req.hashes = w.req.hashes /\ Class(req.type) = Class(w.req.type)
      /\ Class(req.type) \in Classes
  BY <1>3, <1>6, ResendOK, Zenon
<1>8. \A c, h : Carries(j, c, h) => HasKey(req, c, h) \/ \E m \in rest \cup j.batch : HasKey(m.req, c, h)
  BY <1>2, <1>3, <1>7, Zenon DEF Carries, HasKey
<1>9. ASSUME /\ inflight' = KeysWithout(w.req)
             /\ asked' = [asked EXCEPT ![Class(req.type)] = @ \ req.hashes]
             /\ Resending(t, rest, j.batch, <<>>)
             /\ UNCHANGED waiting
      PROVE  RequestInv'
  <2>1. PICK calls : /\ CallsOK(calls) /\ Do(t, calls)
                     /\ \A m \in rest \cup j.batch : \A c, h :
                          HasKey(m.req, c, h) => \E k \in Range(calls) : Carries(k, c, h)
    BY <1>5, <1>6, <1>9, ResendingCalls, Zenon
  <2>2. inflight' = [inflight EXCEPT ![Class(req.type)] = @ \ req.hashes]
    BY <1>7, <1>9, Zenon DEF KeysWithout
  <2>3. \A c, h : Carries(j, c, h) =>
          (c = Class(req.type) /\ h \in req.hashes) \/ \E k \in Range(calls) : Carries(k, c, h)
    BY <1>8, <2>1, Zenon DEF HasKey
  <2>4. Release(t, j, calls, Class(req.type), req.hashes, req.hashes)
    BY <1>2, <1>7, <1>9, <2>1, <2>2, <2>3, Zenon DEF Release
  <2> QED
    BY <2>4, Released, Zenon
<1>10. ASSUME /\ waiting' = waiting \cup {Entry(req, w.delay)}
              /\ Resending(t, rest, j.batch, <<>>)
              /\ UNCHANGED <<inflight, asked>>
       PROVE  RequestInv'
  <2>1. PICK calls : /\ CallsOK(calls) /\ Do(t, calls)
                     /\ \A m \in rest \cup j.batch : \A c, h :
                          HasKey(m.req, c, h) => \E k \in Range(calls) : Carries(k, c, h)
    BY <1>5, <1>6, <1>10, ResendingCalls, Zenon
  <2>2. QueueInv' /\ \A c, h : HeldWaiting(c, h) \/ HasKey(req, c, h) => HeldWaiting(c, h)'
    BY <1>2, <1>7, <1>10, Waits, Zenon
  <2>3. Regroup(t, j, calls)
    BY <1>2, <1>8, <1>10, <2>1, <2>2, Zenon DEF Regroup, QueueInv
  <2> QED
    BY <2>3, Regrouped, Zenon
<1>11. ASSUME /\ \E batch \in Batched(j.batch, req, w.delay) : Resending(t, rest, batch, <<>>)
              /\ UNCHANGED <<inflight, waiting, asked>>
       PROVE  RequestInv'
  <2>1. PICK batch \in Batched(j.batch, req, w.delay) : Resending(t, rest, batch, <<>>)
    BY <1>11, Zenon
  <2>2. /\ MsgsOK(batch)
        /\ \A c, h : HasKey(req, c, h) => \E b \in batch : HasKey(b.req, c, h)
        /\ \A m \in j.batch : \A c, h : HasKey(m.req, c, h) => \E b \in batch : HasKey(b.req, c, h)
    BY <1>5, <1>7, <2>1, BatchedKeys
  <2>3. PICK calls : /\ CallsOK(calls) /\ Do(t, calls)
                     /\ \A m \in rest \cup batch : \A c, h :
                          HasKey(m.req, c, h) => \E k \in Range(calls) : Carries(k, c, h)
    <3>1. MsgsOK(rest) /\ MsgsOK(batch)
      BY <1>6, <2>2, Zenon
    <3> QED
      BY <2>1, <3>1, ResendingCalls, Zenon
  <2>4. \A c, h : Carries(j, c, h) => \E k \in Range(calls) : Carries(k, c, h)
    BY <1>8, <2>2, <2>3, Zenon
  <2>5. MsgsOK(waiting') /\ \A c, h : HeldWaiting(c, h) => HeldWaiting(c, h)'
    BY <1>11, Zenon DEF QueueInv, HeldWaiting
  <2>6. Regroup(t, j, calls)
    BY <1>2, <1>11, <2>3, <2>4, <2>5, Zenon DEF Regroup
  <2> QED
    BY <2>6, Regrouped, Zenon
<1> QED
  BY <1>3, <1>9, <1>10, <1>11, Zenon

LEMMA SelectForBatchStep ==
  ASSUME RequestInv, NEW t \in Threads, SelectForBatch(t)
  PROVE  RequestInv'
<1> PICK j : j = Head(todo[t])
  BY Zenon
<1> /\ todo[t] # <<>> /\ j.op = "resend" /\ j.rest = {}
    /\ UNCHANGED <<inflight, asked, lost, tasks, conn, flight, pending, timers, session, handshaking>>
  BY Zenon DEF SelectForBatch, At, sendVars, peerVars, ghostVars
<1> PICK b, p, left :
      /\ b \in j.batch /\ left = j.batch \ {b}
      /\ \/ /\ waiting' = waiting \cup {Entry(b.req, b.delay)}
            /\ Resending(t, {}, left, <<>>)
         \/ /\ Resending(t, {}, left, <<[op |-> "batched", msg |-> b, peer |-> p]>>)
            /\ waiting' = waiting
  BY Zenon DEF SelectForBatch
<1> TodoInv /\ KeyInv /\ QueueInv
  BY Zenon DEF RequestInv
<1>5. MsgsOK(j.batch)
  BY HeadJob, Zenon DEF JobOK
<1> ReqOK(b.req) /\ MsgsOK(left) /\ MsgsOK({})
  BY <1>5, Zenon DEF MsgsOK
<1>7. \A c, h : Carries(j, c, h) => HasKey(b.req, c, h) \/ \E m \in left : HasKey(m.req, c, h)
  BY Zenon DEF Carries
<1>8. ASSUME /\ waiting' = waiting \cup {Entry(b.req, b.delay)}
             /\ Resending(t, {}, left, <<>>)
      PROVE  RequestInv'
  <2>1. PICK calls : /\ CallsOK(calls) /\ Do(t, calls)
                     /\ \A m \in {} \cup left : \A c, h :
                          HasKey(m.req, c, h) => \E k \in Range(calls) : Carries(k, c, h)
    BY <1>8, ResendingCalls
  <2>2. QueueInv' /\ \A c, h : HeldWaiting(c, h) \/ HasKey(b.req, c, h) => HeldWaiting(c, h)'
    BY <1>8, Waits, Zenon
  <2>3. Regroup(t, j, calls)
    BY <1>7, <2>1, <2>2, Zenon DEF Regroup, QueueInv
  <2> QED
    BY <2>3, Regrouped, Zenon
<1>9. ASSUME /\ Resending(t, {}, left, <<[op |-> "batched", msg |-> b, peer |-> p]>>)
             /\ waiting' = waiting
      PROVE  RequestInv'
  <2>1. PICK k, l : /\ k = [op |-> "batched", msg |-> b, peer |-> p]
                    /\ l = [op |-> "resend", rest |-> {}, batch |-> left]
    BY Zenon
  <2>2. <<k>> # <<>>
    BY Zenon
  <2>3. Do(t, <<k>> \o <<l>>)
    BY <1>9, <2>1, <2>2, Zenon DEF Resending
  <2>4. JobOK(k) /\ JobOK(l) /\ Follows(k, l) /\ ~NeedsNext(l)
    BY <2>1, Zenon DEF JobOK, Follows, NeedsNext
  <2>5. PICK calls : Do(t, calls) /\ CallsOK(calls) /\ Range(calls) = {k, l}
    BY <2>3, <2>4, TwoCalls, Zenon
  <2>6. \A c, h : Carries(j, c, h) => Carries(k, c, h) \/ Carries(l, c, h)
    BY <1>7, <2>1, Zenon DEF Carries
  <2>7. MsgsOK(waiting') /\ \A c, h : HeldWaiting(c, h) => HeldWaiting(c, h)'
    BY <1>9, Zenon DEF QueueInv, HeldWaiting
  <2>8. Regroup(t, j, calls)
    BY <2>5, <2>6, <2>7, Zenon DEF Regroup
  <2> QED
    BY <2>8, Regrouped, Zenon
<1> QED
  BY <1>8, <1>9, Zenon

LEMMA SendBatchedStep ==
  ASSUME RequestAssumption, RequestInv, NEW t \in Threads, SendBatched(t)
  PROVE  RequestInv'
<1>1. PICK j, rest, s : /\ j = Head(todo[t]) /\ rest = Tail(todo[t])
                        /\ s = IF rest[1].batch = {} THEN Tail(rest) ELSE rest
  BY Zenon
<1>2. /\ todo[t] # <<>> /\ j.op = "batched" /\ todo' = [todo EXCEPT ![t] = s]
      /\ \/ j.peer \in conn /\ Place(j.peer, j.msg.req, j.msg.delay) /\ UNCHANGED waiting
         \/ waiting' = waiting \cup {Entry(j.msg.req, j.msg.delay)} /\ UNCHANGED sendVars
      /\ UNCHANGED <<inflight, asked, lost, tasks, session, handshaking>>
  BY <1>1, Zenon DEF SendBatched, At, keyVars, peerVars, ghostVars
<1> TodoInv /\ KeyInv /\ QueueInv /\ PeerInv /\ CarrierInv /\ AskedInv
  BY Zenon DEF RequestInv
<1>4. /\ JobOK(j) /\ CallsOK(rest) /\ Range(todo[t]) = {j} \cup Range(rest)
      /\ rest # <<>> /\ Head(rest).op = "resend" /\ Head(rest).rest = {}
  BY <1>1, <1>2, HeadJob, Zenon DEF NeedsNext, Follows
<1>5. PICK r : r = Head(rest)
  BY Zenon
<1>6. r = rest[1] /\ Range(rest) = {r} \cup Range(Tail(rest)) /\ CallsOK(Tail(rest))
  <2>1. IsSeq(Tail(rest)) /\ Range(rest) = {r} \cup Range(Tail(rest)) /\ Paired(Tail(rest))
    BY <1>4, <1>5, RangeTail, PairedTail, Zenon DEF CallsOK
  <2>2. r = rest[1]
    BY <1>4, <1>5 DEF CallsOK, IsSeq
  <2> QED
    BY <1>4, <2>1, <2>2, Zenon DEF CallsOK
<1>7. PICK done : done = IF r.batch = {} THEN {r} ELSE {}
  BY Zenon
<1>8. CallsOK(s) /\ Range(rest) = done \cup Range(s)
  BY <1>1, <1>4, <1>6, <1>7, Zenon
<1>9. TodoInv' /\ \A k \in AllJobs : k \in AllJobs' \/ k = j \/ k \in done
  <2>1. DOMAIN todo = Threads
    BY Zenon DEF TodoInv
  <2>2. todo'[t] = s /\ \A u \in Threads \ {t} : todo'[u] = todo[u]
    BY <1>2, <2>1, Zenon
  <2>3. TodoInv'
    BY <1>2, <1>8, <2>1, <2>2, Zenon DEF TodoInv
  <2>4. \A k : k \in AllJobs <=> \E u \in Threads : k \in Range(todo[u])
    BY Zenon DEF AllJobs
  <2>5. \A k : k \in AllJobs' <=> \E u \in Threads : k \in Range(todo'[u])
    BY Zenon DEF AllJobs
  <2> QED
    BY <1>4, <1>8, <2>2, <2>3, <2>4, <2>5, Zenon
<1>10. \A k \in done : k.op = "resend" /\ \A c, h : ~Carries(k, c, h)
  BY <1>4, <1>5, <1>7, Zenon DEF Carries
<1>11. /\ JobsKept /\ \A k \in AllJobs : k \in AllJobs' \/ k.op # "request"
       /\ \A c, h : HeldJob(c, h) => HeldJob(c, h)' \/ Carries(j, c, h)
  BY <1>2, <1>9, <1>10, Zenon DEF JobsKept, HeldJob
<1>12. ReqOK(j.msg.req) /\ \A c, h : Carries(j, c, h) => HasKey(j.msg.req, c, h)
  BY <1>2, <1>4, Zenon DEF JobOK, Carries
<1>13. /\ QueueInv' /\ PeerInv' /\ \A c, h : HeldTask(c, h) => HeldTask(c, h)'
       /\ \A c, h : HeldWaiting(c, h) => HeldWaiting(c, h)'
       /\ \A c, h : HeldPeer(c, h) => HeldPeer(c, h)'
       /\ \A c, h : HasKey(j.msg.req, c, h) => HeldPeer(c, h)' \/ HeldWaiting(c, h)'
  <2>1. CASE j.peer \in conn /\ Place(j.peer, j.msg.req, j.msg.delay) /\ UNCHANGED waiting
    <3>1. PeerInv' /\ \A c, h : HeldPeer(c, h) \/ HasKey(j.msg.req, c, h) => HeldPeer(c, h)'
      BY <1>2, <1>11, <1>12, <2>1, PlaceStep, Zenon
    <3> QED
      BY <1>2, <2>1, <3>1, QueuesKept, Zenon
  <2>2. CASE waiting' = waiting \cup {Entry(j.msg.req, j.msg.delay)} /\ UNCHANGED sendVars
    <3>1. PeerInv' /\ \A c, h : HeldPeer(c, h) => HeldPeer(c, h)'
      BY <1>2, <1>11, <2>2, PeerFrame, Zenon DEF sendVars
    <3>2. /\ QueueInv' /\ \A c, h : HeldTask(c, h) => HeldTask(c, h)'
          /\ \A c, h : HeldWaiting(c, h) \/ HasKey(j.msg.req, c, h) => HeldWaiting(c, h)'
      BY <1>2, <1>12, <2>2, Waits, Zenon
    <3> QED
      BY <3>1, <3>2, Zenon
  <2> QED
    BY <1>2, <2>1, <2>2, Zenon
<1>14. KeyInv' /\ CarrierInv' /\ AskedInv'
  BY <1>2, <1>11, <1>12, <1>13, Handover, Zenon DEF Held
<1> QED
  BY <1>9, <1>13, <1>14, Zenon DEF RequestInv

-----------------------------------------------------------------------------
(* The actions: received blocks *)

LEMMA DispatchStep ==
  ASSUME RequestInv, NEW t \in Threads, Dispatch(t)
  PROVE  RequestInv'
<1> PICK j, task : j = Head(todo[t]) /\ task = j.task
  BY Zenon
<1> /\ todo[t] # <<>> /\ j.op = "dispatch" /\ Do(t, <<>>)
    /\ \/ lost' = [lost EXCEPT !["blocks"] = @ \cup task.requested] /\ tasks' = tasks
       \/ tasks' = Append(tasks, task) /\ lost' = lost
    /\ UNCHANGED <<inflight, asked, waiting, conn, flight, pending, timers, session, handshaking>>
  BY Zenon DEF Dispatch, At, keyVars, sendVars, peerVars
<1> TodoInv /\ KeyInv /\ QueueInv /\ PeerInv /\ CarrierInv /\ AskedInv
  BY Zenon DEF RequestInv
<1>4. task.requested \in SUBSET Hashes
  BY HeadJob, Zenon DEF JobOK
<1> TodoInv' /\ Replaced(j, <<>>)
  BY DoStep, NoCalls, Zenon
<1> /\ \A c, h : HeldJob(c, h) => HeldJob(c, h)' \/ Carries(j, c, h)
    /\ \A k \in AllJobs : k \in AllJobs' \/ k.op # "request"
    /\ JobsKept
  BY JobFacts, Zenon
<1> PeerInv' /\ \A c, h : HeldPeer(c, h) => HeldPeer(c, h)'
  BY PeerFrame, Zenon
<1>8. \A c, h : Carries(j, c, h) => c = "blocks" /\ h \in task.requested
  BY Zenon DEF Carries
<1>9. \A c, h : HeldWaiting(c, h) => HeldWaiting(c, h)'
  BY Zenon DEF HeldWaiting
<1>10. CASE tasks' = Append(tasks, task) /\ lost' = lost
  <2>1. tasks' = tasks \o <<task>>
    BY <1>10, AppendCat, Zenon DEF QueueInv, IsSeq
  <2>2. IsSeq(tasks') /\ Range(tasks') = Range(tasks) \cup {task}
    <3>1. IsSeq(tasks) /\ IsSeq(<<task>>) /\ Range(<<task>>) = {task}
      BY Singleton, Zenon DEF QueueInv
    <3>2. IsSeq(tasks \o <<task>>) /\ Range(tasks \o <<task>>) = Range(tasks) \cup Range(<<task>>)
      BY <3>1, RangeCat, Zenon
    <3> QED
      BY ONLY <2>1, <3>1, <3>2
  <2>3. QueueInv'
    BY <1>4, <2>2, Zenon DEF QueueInv
  <2>4. \A c, h : HeldTask(c, h) \/ Carries(j, c, h) => HeldTask(c, h)'
    BY <1>8, <2>2, Zenon DEF HeldTask
  <2>5. KeyInv' /\ CarrierInv' /\ AskedInv'
    BY <1>9, <1>10, <2>4, Handover, Zenon DEF Held
  <2> QED
    BY <2>3, <2>5, Zenon DEF RequestInv
<1>11. CASE lost' = [lost EXCEPT !["blocks"] = @ \cup task.requested] /\ tasks' = tasks
  <2>1. /\ \A c \in Classes : lost[c] \subseteq lost'[c]
        /\ task.requested \subseteq lost'["blocks"] /\ DOMAIN lost' = Classes
    BY <1>11, Zenon DEF KeyInv, Classes
  <2>2. QueueInv' /\ \A c, h : HeldTask(c, h) => HeldTask(c, h)'
    BY <1>11, Zenon DEF QueueInv, HeldTask
  <2>3. KeyInv'
    BY <2>1, Zenon DEF KeyInv
  <2>4. \A c, h : Held(c, h) => Held(c, h)' \/ h \in lost'[c]
    BY <1>8, <1>9, <2>1, <2>2, Zenon DEF Held
  <2>5. CarrierInv'
    BY <2>1, <2>4, Zenon DEF CarrierInv
  <2>6. AskedInv'
    BY Zenon DEF AskedInv, Asks
  <2> QED
    BY <2>2, <2>3, <2>5, <2>6, Zenon DEF RequestInv
<1> QED
  BY <1>10, <1>11, Zenon

LEMMA PopTaskStep ==
  ASSUME RequestInv, NEW t \in Threads, PopTask(t)
  PROVE  RequestInv'
<1> PICK k : k = [op |-> "recover", task |-> Head(tasks)]
  BY Zenon
<1> /\ Idle(t) /\ tasks # <<>> /\ tasks' = Tail(tasks) /\ Start(t, <<k>>)
    /\ UNCHANGED <<inflight, asked, lost, waiting, conn, flight, pending, timers, session, handshaking>>
  BY Zenon DEF PopTask, keyVars, sendVars, peerVars, ghostVars
<1> TodoInv /\ KeyInv /\ QueueInv /\ PeerInv /\ CarrierInv /\ AskedInv
  BY Zenon DEF RequestInv
<1> /\ IsSeq(tasks') /\ Head(tasks) \in Range(tasks)
    /\ Range(tasks) = {Head(tasks)} \cup Range(tasks')
  BY RangeTail, Zenon DEF QueueInv
<1>5. JobOK(k) /\ ~NeedsNext(k)
  BY Zenon DEF QueueInv, JobOK, NeedsNext
<1>6. CallsOK(<<k>>) /\ Range(<<k>>) = {k}
  BY <1>5, OneCall, Zenon
<1> TodoInv' /\ AllJobs \subseteq AllJobs' /\ k \in AllJobs'
  BY <1>6, StartStep, Zenon
<1>8. PeerInv' /\ \A c, h : HeldPeer(c, h) => HeldPeer(c, h)'
  BY PeerFrame, Zenon DEF JobsKept
<1>9. QueueInv'
  BY Zenon DEF QueueInv
<1>10. \A c, h : HeldTask(c, h) => HeldTask(c, h)' \/ Carries(k, c, h)
  BY Zenon DEF HeldTask, Carries
<1>11. \A c, h : Held(c, h) => Held(c, h)'
  BY <1>8, <1>10, Zenon DEF Held, HeldWaiting, HeldJob
<1>12. KeyInv' /\ CarrierInv' /\ AskedInv'
  BY <1>11, Handover, Zenon
<1> QED
  BY <1>8, <1>9, <1>12, Zenon DEF RequestInv

LEMMA FollowUpCalls ==
  ASSUME NEW types, NEW p, NEW more \in FollowUps(types, p)
  PROVE  CallsOK(more)
<1>1. CASE more = <<>>
  BY <1>1, NoCalls, Zenon
<1>2. CASE more # <<>>
  <2>1. PICK type \in types, h \in Hashes : more = <<Request(type, {h}, p, 0)>>
    BY <1>2, Zenon DEF FollowUps
  <2>2. PICK k : k = Request(type, {h}, p, 0)
    BY Zenon
  <2>3. JobOK(k) /\ ~NeedsNext(k)
    BY <2>2, Zenon DEF Request, JobOK, ReqOK, NeedsNext
  <2> QED
    BY <2>1, <2>2, <2>3, OneCall, Zenon
<1> QED
  BY <1>1, <1>2, Zenon

(* A call to headers_received or blocks_received has the keys asked for. *)
LEMMA ReceivedCall ==
  ASSUME NEW class \in Classes, NEW requested \in SUBSET Hashes, NEW got, NEW type, NEW p, NEW d,
         Class(type) = class, type # "txn", NEW k, k = Received(class, requested, got, type, p, d)
  PROVE  JobOK(k) /\ ~NeedsNext(k) /\ \A h \in requested : Carries(k, class, h)
BY Zenon DEF Received, JobOK, NeedsNext, Carries

LEMMA FullTypeClass == Class(FullType) = "blocks" /\ FullType # "txn"
BY Zenon DEF Class, FullType

LEMMA OnBlocksInnerStep ==
  ASSUME RequestInv, NEW t \in Threads, OnBlocksInner(t)
  PROVE  RequestInv'
<1>1. PICK j, task : j = Head(todo[t]) /\ task = j.task
  BY Zenon
<1>2. /\ todo[t] # <<>> /\ j.op = "recover"
      /\ UNCHANGED <<inflight, asked, lost, waiting, tasks, conn, flight, pending, timers,
                     session, handshaking>>
  BY <1>1, Zenon DEF OnBlocksInner, At, sendVars, peerVars
<1>3. PICK p, got, type, more :
        /\ more \in FollowUps({"blocks", "public"}, p)
        /\ type = IF task.compact THEN "compact" ELSE FullType
        /\ Do(t, <<Received("blocks", task.requested, got, type, p, task.delay)>> \o more)
  BY <1>1, Zenon DEF OnBlocksInner
<1>4. TodoInv /\ task.requested \in SUBSET Hashes
  BY <1>1, <1>2, HeadJob, Zenon DEF JobOK, RequestInv
<1>5. PICK k : k = Received("blocks", task.requested, got, type, p, task.delay)
  BY Zenon
<1>6. Class(type) = "blocks" /\ type # "txn" /\ "blocks" \in Classes
  BY <1>3, FullTypeClass, Zenon DEF Class, Classes
<1>7. JobOK(k) /\ ~NeedsNext(k) /\ \A h \in task.requested : Carries(k, "blocks", h)
  BY <1>4, <1>5, <1>6, ReceivedCall, Zenon
<1>8. CallsOK(<<k>>) /\ Range(<<k>>) = {k} /\ CallsOK(more)
  BY <1>3, <1>7, OneCall, FollowUpCalls, Zenon
<1>9. PICK calls : calls = <<k>> \o more
  BY Zenon
<1>10. CallsOK(calls) /\ Do(t, calls) /\ k \in Range(calls)
  BY <1>3, <1>5, <1>8, <1>9, MoreCalls
<1>11. TodoInv' /\ Replaced(j, calls)
  BY <1>1, <1>2, <1>4, <1>10, DoStep, Zenon
<1>12. \A c, h : Carries(j, c, h) => \E l \in Range(calls) : Carries(l, c, h)
  BY <1>1, <1>2, <1>7, <1>10, Zenon DEF Carries
<1> QED
  BY <1>2, <1>11, <1>12, PassOn, Zenon

-----------------------------------------------------------------------------
(* The actions: responses *)

(* A response is handled: the keys of its request go to the calls of the   *)
(* handler, the last of which serves the peer.                             *)
Answer(t, p, m, calls) ==
  /\ Idle(t) /\ Unmatched(p, m) /\ CallsOK(calls) /\ Start(t, calls)
  /\ SendPending(p) \in Range(calls)
  /\ UNCHANGED <<inflight, asked, waiting, tasks, conn, pending, session, handshaking>>
  /\ DOMAIN lost' = Classes /\ \A c \in Classes : lost[c] \subseteq lost'[c]
  /\ \A c, h : HasKey(m.req, c, h) => h \in lost'[c] \/ \E k \in Range(calls) : Carries(k, c, h)

LEMMA Answered ==
  ASSUME RequestInv, NEW t \in Threads, NEW p \in conn, NEW m \in flight[p], NEW calls,
         Answer(t, p, m, calls)
  PROVE  RequestInv'
<1> USE DEF Answer
<1> TodoInv /\ KeyInv /\ QueueInv /\ PeerInv /\ CarrierInv /\ AskedInv
  BY Zenon DEF RequestInv
<1> TodoInv' /\ AllJobs \subseteq AllJobs' /\ Range(calls) \subseteq AllJobs'
  BY StartStep, Zenon
<1>3. /\ PeerInv'
      /\ \A c, h : HeldPeer(c, h) => HeldPeer(c, h)' \/ HasKey(m.req, c, h)
  BY UnmatchedStep, Zenon DEF JobsKept
<1>4. QueueInv' /\ \A c, h : /\ HeldWaiting(c, h) => HeldWaiting(c, h)'
                             /\ HeldTask(c, h) => HeldTask(c, h)'
  BY QueuesKept, Zenon
<1>5. /\ \A c, h : HeldJob(c, h) => HeldJob(c, h)'
      /\ \A k \in Range(calls) : \A c, h : Carries(k, c, h) => HeldJob(c, h)'
  BY Zenon DEF HeldJob
<1>6. \A c, h : Held(c, h) => Held(c, h)' \/ h \in lost'[c]
  BY <1>3, <1>4, <1>5, Zenon DEF Held
<1>7. KeyInv'
  BY Zenon DEF KeyInv
<1>8. CarrierInv'
  BY <1>6, Zenon DEF CarrierInv
<1>9. AskedInv'
  BY Zenon DEF AskedInv
<1> QED
  BY <1>3, <1>4, <1>7, <1>8, <1>9, Zenon DEF RequestInv

(* Some calls, and then the peer is served. *)
LEMMA ThenServe ==
  ASSUME NEW p \in Peers, NEW first, CallsOK(first)
  PROVE  /\ CallsOK(first \o AfterMessage(p))
         /\ Range(first) \subseteq Range(first \o AfterMessage(p))
         /\ SendPending(p) \in Range(first \o AfterMessage(p))
<1> PICK k : k = SendPending(p)
  BY Zenon
<1>2. JobOK(k) /\ ~NeedsNext(k)
  BY Zenon DEF SendPending, JobOK, NeedsNext
<1>3. CallsOK(AfterMessage(p)) /\ Range(AfterMessage(p)) = {k}
  BY <1>2, OneCall, Zenon DEF AfterMessage
<1> QED
  BY <1>3, MoreCalls, Zenon

LEMMA InFlight ==
  ASSUME RequestInv, NEW p \in conn, NEW m \in flight[p]
  PROVE  p \in Peers /\ ReqOK(m.req) /\ DOMAIN lost = Classes /\ "blocks" \in Classes /\ "headers" \in Classes
BY Zenon DEF RequestInv, PeerInv, ContainerInv, KeyInv, MsgsOK, Classes

LEMMA RespondHeadersStep ==
  ASSUME RequestInv, NEW t \in Threads, NEW p \in conn, NEW m \in flight[p], RespondHeaders(t, p, m)
  PROVE  RequestInv'
<1> /\ Idle(t) /\ Unmatched(p, m) /\ m.req.type = "headers"
    /\ UNCHANGED <<inflight, asked, lost, waiting, tasks, conn, pending, session, handshaking>>
  BY Zenon DEF RespondHeaders, keyVars, peerVars, ghostVars
<1> PICK k, more, got, types :
      /\ k = Received("headers", m.req.hashes, got, "headers", Nobody, m.delay)
      /\ more \in FollowUps(types, p) /\ Start(t, <<k>> \o more \o AfterMessage(p))
  BY Zenon DEF RespondHeaders
<1> p \in Peers /\ ReqOK(m.req) /\ DOMAIN lost = Classes /\ "headers" \in Classes
  BY InFlight, Zenon
<1>4. JobOK(k) /\ ~NeedsNext(k) /\ \A h \in m.req.hashes : Carries(k, "headers", h)
  <2>1. m.req.hashes \in SUBSET Hashes /\ Class("headers") = "headers"
    BY Zenon DEF ReqOK, Class
  <2> QED
    BY <2>1, ReceivedCall, Zenon
<1> PICK first : first = <<k>> \o more
  BY Zenon
<1>6. CallsOK(first) /\ k \in Range(first)
  BY <1>4, OneCall, FollowUpCalls, MoreCalls
<1>7. PICK calls : calls = first \o AfterMessage(p)
  BY Zenon
<1>8. CallsOK(calls) /\ k \in Range(calls) /\ SendPending(p) \in Range(calls) /\ Start(t, calls)
  BY <1>6, <1>7, ThenServe, Zenon
<1>9. \A c, h : HasKey(m.req, c, h) => Carries(k, c, h)
  BY <1>4, Zenon DEF HasKey, Class
<1>10. Answer(t, p, m, calls)
  BY <1>8, <1>9, Zenon DEF Answer
<1> QED
  BY <1>10, Answered, Zenon

LEMMA RespondBlocksStep ==
  ASSUME RequestInv, NEW t \in Threads, NEW p \in conn, NEW m \in flight[p], RespondBlocks(t, p, m)
  PROVE  RequestInv'
<1>1. /\ Idle(t) /\ Unmatched(p, m) /\ m.req.type \in {"blocks", "public"}
      /\ UNCHANGED <<inflight, asked, lost, waiting, tasks, conn, pending, session, handshaking>>
  BY Zenon DEF RespondBlocks, keyVars, peerVars, ghostVars
<1>2. PICK got, k, l, again :
        /\ k = [op |-> "dispatch", task |-> [blocks |-> got, requested |-> m.req.hashes,
                                             compact |-> FALSE, peer |-> p, delay |-> m.delay]]
        /\ l = Again(m.req, m.delay) /\ again = IF m.req.type = "public" THEN <<l>> ELSE <<>>
        /\ Start(t, again \o <<k>> \o AfterMessage(p))
  BY Zenon DEF RespondBlocks
<1>3. p \in Peers /\ ReqOK(m.req) /\ DOMAIN lost = Classes
  BY InFlight, Zenon
<1>4. JobOK(k) /\ ~NeedsNext(k) /\ \A h \in m.req.hashes : Carries(k, "blocks", h)
  BY <1>2, <1>3, Zenon DEF ReqOK, JobOK, NeedsNext, Carries
<1>5. JobOK(l) /\ ~NeedsNext(l)
  BY <1>2, <1>3, Zenon DEF Again, JobOK, NeedsNext
<1>6. CallsOK(again) /\ CallsOK(<<k>>) /\ Range(<<k>>) = {k}
  BY <1>2, <1>4, <1>5, OneCall, NoCalls, Zenon
<1>7. PICK first : first = again \o <<k>>
  BY Zenon
<1>8. CallsOK(first) /\ k \in Range(first)
  BY <1>6, <1>7, MoreCalls, Zenon
<1>9. PICK calls : calls = first \o AfterMessage(p)
  BY Zenon
<1>10. CallsOK(calls) /\ k \in Range(calls) /\ SendPending(p) \in Range(calls) /\ Start(t, calls)
  BY <1>2, <1>3, <1>7, <1>8, <1>9, ThenServe, Zenon
<1>11. \A c, h : HasKey(m.req, c, h) => Carries(k, c, h)
  BY <1>1, <1>4, Zenon DEF HasKey, Class
<1>12. Answer(t, p, m, calls)
  BY <1>1, <1>3, <1>10, <1>11, Zenon DEF Answer
<1> QED
  BY <1>12, Answered, Zenon

(* One request for the transactions of each block that misses some. *)
TxnRequests(H, p) == {Request("txn", {h}, p, 0) : h \in H}

LEMMA TxnCalls ==
  ASSUME RequestAssumption, NEW H \in SUBSET Hashes, NEW p,
         NEW s \in Orders(TxnRequests(H, p))
  PROVE  CallsOK(s) /\ \A h \in H : \E k \in Range(s) : Carries(k, "blocks", h)
<1> DEFINE f == [h \in H |-> Request("txn", {h}, p, 0)]
           R == TxnRequests(H, p)
<1>1. IsFiniteSet(R)
  <2>1. IsFiniteSet(H)
    BY FS_Subset, Zenon DEF RequestAssumption
  <2>2. Range(f) = R
    BY Zenon DEF Range, TxnRequests
  <2>3. IsFiniteSet(Range(f))
    BY <2>1, FiniteRange, Zenon
  <2> QED
    BY <2>2, <2>3, Zenon
<1> IsSeq(s) /\ Range(s) = R
  BY <1>1, OrderOf, Zenon
<1>3. ASSUME NEW h \in H, NEW k, k = Request("txn", {h}, p, 0)
      PROVE  JobOK(k) /\ ~NeedsNext(k) /\ Carries(k, "blocks", h)
  BY <1>3, Zenon DEF Request, JobOK, ReqOK, NeedsNext, Carries, HasKey, Class
<1>4. \A k \in R : JobOK(k) /\ ~NeedsNext(k)
  BY <1>3, Zenon DEF TxnRequests
<1>5. \A h \in H : \E k \in R : Carries(k, "blocks", h)
  BY <1>3, Zenon DEF TxnRequests
<1> HIDE DEF R
<1>6. \A i \in DOMAIN s : s[i] \in R
  BY Zenon DEF Range
<1>7. Paired(s)
  BY <1>4, <1>6, Zenon DEF Paired
<1> QED
  BY <1>4, <1>5, <1>7, Zenon DEF CallsOK

LEMMA RespondCompactStep ==
  ASSUME RequestAssumption, RequestInv, NEW t \in Threads, NEW p \in conn, NEW m \in flight[p],
         RespondCompact(t, p, m)
  PROVE  RequestInv'
<1>1. /\ Idle(t) /\ Unmatched(p, m) /\ m.req.type = "compact"
      /\ UNCHANGED <<inflight, asked, lost, waiting, tasks, conn, pending, session, handshaking>>
  BY Zenon DEF RespondCompact, keyVars, peerVars
<1>2. PICK f \in [m.req.hashes -> {"unusable", "txn", "ok"}], full \in SUBSET Hashes :
        \E txns \in Orders({Request("txn", {h}, p, 0) : h \in {g \in m.req.hashes : f[g] = "txn"}}) :
          Start(t, txns \o <<Received("blocks", (m.req.hashes \ {g \in m.req.hashes : f[g] = "txn"}) \ full,
                                      {g \in m.req.hashes : f[g] = "ok"}, FullType, p, m.delay),
                             [op |-> "dispatch",
                              task |-> [blocks |-> full, requested |-> full,
                                        compact |-> TRUE, peer |-> p, delay |-> m.delay]]>>
                       \o AfterMessage(p))
  BY Zenon DEF RespondCompact
<1>3. PICK txn, tried, ok :
        /\ txn = {g \in m.req.hashes : f[g] = "txn"}
        /\ tried = (m.req.hashes \ {g \in m.req.hashes : f[g] = "txn"}) \ full
        /\ ok = {g \in m.req.hashes : f[g] = "ok"}
  BY Zenon
<1>4. PICK txns, k, l :
        /\ txns \in Orders(TxnRequests(txn, p))
        /\ k = Received("blocks", tried, ok, FullType, p, m.delay)
        /\ l = [op |-> "dispatch", task |-> [blocks |-> full, requested |-> full,
                                             compact |-> TRUE, peer |-> p, delay |-> m.delay]]
        /\ Start(t, txns \o <<k, l>> \o AfterMessage(p))
  BY <1>2, <1>3, Zenon DEF TxnRequests
<1>5. p \in Peers /\ ReqOK(m.req) /\ DOMAIN lost = Classes /\ "blocks" \in Classes
  BY InFlight, Zenon
<1>6. /\ m.req.hashes \subseteq txn \cup tried \cup full
      /\ txn \in SUBSET Hashes /\ tried \in SUBSET Hashes
  BY <1>3, <1>5, Zenon DEF ReqOK
<1>7. CallsOK(txns) /\ \A h \in txn : \E r \in Range(txns) : Carries(r, "blocks", h)
  BY <1>4, <1>6, TxnCalls, Zenon
<1>8. JobOK(k) /\ ~NeedsNext(k) /\ \A h \in tried : Carries(k, "blocks", h)
  BY <1>4, <1>5, <1>6, FullTypeClass, ReceivedCall, Zenon
<1>9. JobOK(l) /\ ~NeedsNext(l) /\ \A h \in full : Carries(l, "blocks", h)
  BY <1>4, <1>6, Zenon DEF JobOK, NeedsNext, Carries
<1>10. CallsOK(<<k, l>>) /\ Range(<<k, l>>) = {k, l}
  BY <1>8, <1>9, PairOfCalls, Zenon
<1>11. PICK first : first = txns \o <<k, l>>
  BY Zenon
<1>12. CallsOK(first) /\ Range(first) = Range(txns) \cup {k, l}
  BY <1>7, <1>10, <1>11, MoreCalls, Zenon
<1>13. PICK calls : calls = first \o AfterMessage(p)
  BY Zenon
<1>14. /\ CallsOK(calls) /\ Range(first) \subseteq Range(calls)
       /\ SendPending(p) \in Range(calls) /\ Start(t, calls)
  BY <1>4, <1>5, <1>11, <1>12, <1>13, ThenServe, Zenon
<1>15. \A h \in m.req.hashes : \E r \in Range(calls) : Carries(r, "blocks", h)
  BY <1>6, <1>7, <1>8, <1>9, <1>12, <1>14, Zenon
<1>16. \A c, h : HasKey(m.req, c, h) => c = "blocks" /\ h \in m.req.hashes
  BY <1>1, Zenon DEF HasKey, Class
<1>17. Answer(t, p, m, calls)
  BY <1>1, <1>5, <1>14, <1>15, <1>16 DEF Answer
<1> QED
  BY <1>17, Answered, Zenon

LEMMA RespondTxnStep ==
  ASSUME RequestInv, NEW t \in Threads, NEW p \in conn, NEW m \in flight[p], RespondTxn(t, p, m)
  PROVE  RequestInv'
<1> /\ Idle(t) /\ Unmatched(p, m) /\ m.req.type = "txn"
    /\ UNCHANGED <<inflight, asked, waiting, tasks, conn, pending, session, handshaking>>
  BY Zenon DEF RespondTxn, keyVars, peerVars
<1> p \in Peers /\ ReqOK(m.req) /\ DOMAIN lost = Classes /\ "blocks" \in Classes
  BY InFlight, Zenon
<1>3. \A c, h : HasKey(m.req, c, h) => c = "blocks" /\ h \in m.req.hashes
  BY Zenon DEF HasKey, Class
<1>4. ASSUME NEW from, NEW got, lost' = lost,
             Start(t, <<Received("blocks", m.req.hashes, got, FullType, from, m.delay)>> \o AfterMessage(p))
      PROVE  RequestInv'
  <2>1. PICK k : k = Received("blocks", m.req.hashes, got, FullType, from, m.delay)
    BY Zenon
  <2>2. JobOK(k) /\ ~NeedsNext(k) /\ \A h \in m.req.hashes : Carries(k, "blocks", h)
    BY <2>1, FullTypeClass, ReceivedCall, Zenon DEF ReqOK
  <2>3. CallsOK(<<k>>) /\ Range(<<k>>) = {k}
    BY <2>2, OneCall, Zenon
  <2>4. PICK calls : calls = <<k>> \o AfterMessage(p)
    BY Zenon
  <2>5. CallsOK(calls) /\ k \in Range(calls) /\ SendPending(p) \in Range(calls) /\ Start(t, calls)
    BY <1>4, <2>1, <2>3, <2>4, ThenServe, Zenon
  <2>6. Answer(t, p, m, calls)
    BY <1>3, <1>4, <2>2, <2>5, Zenon DEF Answer
  <2> QED
    BY <2>6, Answered, Zenon
<1>5. ASSUME lost' = [lost EXCEPT !["blocks"] = @ \cup m.req.hashes], Start(t, AfterMessage(p))
      PROVE  RequestInv'
  <2>1. PICK calls, k : calls = AfterMessage(p) /\ k = SendPending(p)
    BY Zenon
  <2>2. JobOK(k) /\ ~NeedsNext(k)
    BY <2>1, Zenon DEF SendPending, JobOK, NeedsNext
  <2>3. CallsOK(calls) /\ SendPending(p) \in Range(calls)
    BY <2>1, <2>2, OneCall, Zenon DEF AfterMessage
  <2>4. /\ DOMAIN lost' = Classes /\ \A c \in Classes : lost[c] \subseteq lost'[c]
        /\ m.req.hashes \subseteq lost'["blocks"]
    BY <1>5, Zenon
  <2>5. Answer(t, p, m, calls)
    BY <1>3, <1>5, <2>1, <2>3, <2>4, Zenon DEF Answer
  <2> QED
    BY <2>5, Answered, Zenon
<1> QED
  BY <1>4, <1>5, Zenon DEF RespondTxn

LEMMA RespondMismatchStep ==
  ASSUME RequestInv, NEW t \in Threads, NEW p \in conn, NEW m \in flight[p], RespondMismatch(t, p, m)
  PROVE  RequestInv'
<1> PICK k, calls : k = Again(Resend(m.req), m.delay) /\ calls = <<k>> \o AfterMessage(p)
  BY Zenon
<1>2. /\ Idle(t) /\ Unmatched(p, m) /\ Start(t, calls)
      /\ UNCHANGED <<inflight, asked, lost, waiting, tasks, conn, pending, session, handshaking>>
  BY Zenon DEF RespondMismatch, keyVars, peerVars, ghostVars
<1> p \in Peers /\ ReqOK(m.req) /\ DOMAIN lost = Classes
  BY InFlight, Zenon
<1>4. k.op = "again" /\ k.req = Resend(m.req)
  BY Zenon DEF Again
<1>5. JobOK(k) /\ ~NeedsNext(k) /\ \A c, h : HasKey(m.req, c, h) => Carries(k, c, h)
  BY <1>4, ResendOK, Zenon DEF JobOK, NeedsNext, Carries, HasKey
<1>6. CallsOK(<<k>>) /\ Range(<<k>>) = {k}
  BY <1>5, OneCall, Zenon
<1>7. CallsOK(calls) /\ k \in Range(calls) /\ SendPending(p) \in Range(calls)
  BY <1>6, ThenServe, Zenon
<1>8. Answer(t, p, m, calls)
  BY <1>2, <1>5, <1>7, Zenon DEF Answer
<1> QED
  BY <1>8, Answered, Zenon

-----------------------------------------------------------------------------
(* The actions: peers *)

(* A handshake ends: a call that serves the peer remains. *)
LEMMA HandshakeEnds ==
  ASSUME RequestInv, TodoInv', NEW p, NEW r \in AllJobs', Serves(r, p), NEW j,
         \A k \in AllJobs : k \in AllJobs' \/ k = j, j.op \in {"leave", "none"},
         handshaking' = handshaking \ {p},
         UNCHANGED <<inflight, asked, lost, waiting, tasks, conn, flight, pending, timers, session>>
  PROVE  RequestInv'
<1> TodoInv /\ KeyInv /\ QueueInv /\ PeerInv /\ CarrierInv /\ AskedInv
  BY Zenon DEF RequestInv
<1> \A k \in AllJobs : k \in AllJobs' \/ k.op \in {"leave", "none"}
  BY Zenon
<1>3. ContainerInv' /\ FlightInv'
  BY Zenon DEF PeerInv, ContainerInv, FlightInv
<1>4. ServedInv'
  <2>1. \A q \in Peers \ {p} : Served(q)'
    BY Zenon DEF PeerInv, ServedInv, Served, Serves
  <2> QED
    BY <2>1, Zenon DEF ServedInv, Served
<1>5. TimedInv'
  BY Zenon DEF PeerInv, TimedInv, Timed
<1>6. QueueInv' /\ \A c, h : /\ HeldWaiting(c, h) => HeldWaiting(c, h)'
                             /\ HeldTask(c, h) => HeldTask(c, h)'
  BY QueuesKept, Zenon
<1>7. \A c, h : /\ HeldPeer(c, h) => HeldPeer(c, h)'
                /\ HeldJob(c, h) => HeldJob(c, h)'
  BY DEF HeldPeer, HeldJob, Carries
<1>8. KeyInv' /\ CarrierInv' /\ AskedInv'
  BY <1>6, <1>7, Handover, Zenon DEF Held
<1> QED
  BY <1>3, <1>4, <1>5, <1>6, <1>8, Zenon DEF RequestInv, PeerInv

LEMMA OnStatusStep ==
  ASSUME RequestInv, NEW t \in Threads, NEW p \in Peers, OnStatus(t, p)
  PROVE  RequestInv'
<1>1. PICK j, k, calls : /\ j = [op |-> "join", peer |-> p] /\ k = [op |-> "add", peer |-> p]
                         /\ calls = <<j, k>> \o AfterMessage(p)
  BY Zenon
<1>2. /\ Idle(t) /\ handshaking' = handshaking \ {p} /\ Start(t, calls)
      /\ UNCHANGED <<inflight, asked, lost, waiting, tasks, conn, flight, pending, timers, session>>
  BY <1>1, Zenon DEF OnStatus, keyVars, sendVars, ghostVars
<1>3. JobOK(j) /\ ~NeedsNext(j) /\ JobOK(k) /\ ~NeedsNext(k) /\ Serves(k, p)
  BY <1>1, Zenon DEF JobOK, NeedsNext, Serves
<1>4. CallsOK(<<j, k>>) /\ Range(<<j, k>>) = {j, k}
  BY <1>3, PairOfCalls, Zenon
<1>5. CallsOK(calls) /\ k \in Range(calls)
  BY <1>1, <1>4, ThenServe, Zenon
<1>6. TodoInv' /\ AllJobs \subseteq AllJobs' /\ k \in AllJobs'
  BY <1>2, <1>5, StartStep, Zenon DEF RequestInv
<1>7. PICK n : n = [op |-> "none"]
  BY Zenon
<1>8. n.op \in {"leave", "none"} /\ \A l \in AllJobs : l \in AllJobs' \/ l = n
  BY <1>6, <1>7, Zenon
<1> QED
  BY <1>2, <1>3, <1>6, <1>8, HandshakeEnds, Zenon

LEMMA LeaveSynStep ==
  ASSUME RequestInv, NEW t \in Threads, LeaveSyn(t)
  PROVE  RequestInv'
<1> PICK j, r : j = Head(todo[t]) /\ r = Head(Tail(todo[t]))
  BY Zenon
<1> /\ todo[t] # <<>> /\ j.op = "leave" /\ Do(t, <<>>) /\ handshaking' = handshaking \ {j.peer}
    /\ UNCHANGED <<inflight, asked, lost, waiting, tasks, conn, flight, pending, timers, session>>
  BY Zenon DEF LeaveSyn, At, keyVars, sendVars, ghostVars
<1> TodoInv
  BY Zenon DEF RequestInv
<1> /\ CallsOK(Tail(todo[t])) /\ Range(todo[t]) = {j} \cup Range(Tail(todo[t]))
    /\ Tail(todo[t]) # <<>> /\ r.op = "remove" /\ r.peer = j.peer
  BY HeadJob, Zenon DEF NeedsNext, Follows
<1>5. r \in Range(Tail(todo[t]))
  BY RangeTail, Zenon DEF CallsOK
<1> TodoInv' /\ Replaced(j, <<>>)
  BY DoStep, NoCalls, Zenon
<1>7. \A k \in AllJobs : k \in AllJobs' \/ k = j
  BY JobFacts, Zenon
<1>8. r \in AllJobs
  BY <1>5, Zenon DEF AllJobs
<1>9. r \in AllJobs' /\ Serves(r, j.peer)
  BY <1>7, <1>8, Zenon DEF Serves
<1> QED
  BY <1>7, <1>9, HandshakeEnds, Zenon

LEMMA PeerConnectedStep ==
  ASSUME RequestInv, NEW t \in Threads, PeerConnected(t)
  PROVE  RequestInv'
<1> PICK j : j = Head(todo[t])
  BY Zenon
<1> /\ todo[t] # <<>> /\ j.op = "join" /\ Do(t, <<>>)
    /\ UNCHANGED <<inflight, asked, lost, waiting, tasks, conn, flight, pending, timers,
                   session, handshaking>>
  BY Zenon DEF PeerConnected, At, keyVars, sendVars, ghostVars
<1>3. TodoInv' /\ Replaced(j, <<>>)
  BY DoStep, NoCalls, Zenon DEF RequestInv
<1>4. \A c, h : Carries(j, c, h) => \E k \in Range(<<>>) : Carries(k, c, h)
  BY Zenon DEF Carries
<1> QED
  BY <1>3, <1>4, PassOn, Zenon

LEMMA DisconnectStep ==
  ASSUME RequestInv, NEW t \in Threads, NEW p \in Peers, Disconnect(t, p)
  PROVE  RequestInv'
<1> PICK j, k : j = [op |-> "leave", peer |-> p] /\ k = [op |-> "remove", peer |-> p]
  BY Zenon
<1> /\ Idle(t) /\ session' \subseteq session /\ handshaking' = handshaking /\ Start(t, <<j, k>>)
    /\ UNCHANGED <<inflight, asked, lost, waiting, tasks, conn, flight, pending, timers>>
  BY Zenon DEF Disconnect, Leave, keyVars, sendVars, ghostVars
<1>3. JobOK(j) /\ JobOK(k) /\ Follows(j, k) /\ ~NeedsNext(k)
  BY Zenon DEF JobOK, NeedsNext, Follows
<1>4. CallsOK(<<j, k>>)
  BY <1>3, PairOfCalls, Zenon
<1>5. TodoInv' /\ AllJobs \subseteq AllJobs'
  BY <1>4, StartStep, Zenon DEF RequestInv
<1> QED
  BY <1>5, Started, Zenon

LEMMA ConnectStep ==
  ASSUME RequestInv, NEW p \in Peers, Connect(p)
  PROVE  RequestInv'
<1> /\ session' = session \cup {p} /\ handshaking' = handshaking \cup {p}
    /\ UNCHANGED <<todo, inflight, asked, lost, waiting, tasks, conn, flight, pending, timers>>
  BY Zenon DEF Connect, keyVars, sendVars, ghostVars
<1> TodoInv /\ KeyInv /\ QueueInv /\ PeerInv /\ CarrierInv /\ AskedInv
  BY Zenon DEF RequestInv
<1> TodoInv' /\ AllJobs' = AllJobs
  BY Zenon DEF TodoInv, AllJobs
<1>4. ContainerInv' /\ FlightInv'
  BY Zenon DEF PeerInv, ContainerInv, FlightInv
<1>5. ServedInv'
  BY Zenon DEF PeerInv, ServedInv, Served
<1>6. TimedInv'
  BY Zenon DEF PeerInv, TimedInv, Timed
<1>7. QueueInv' /\ \A c, h : Held(c, h) => Held(c, h)'
  BY Zenon DEF QueueInv, Held, HeldWaiting, HeldPeer, HeldTask, HeldJob
<1>8. KeyInv' /\ CarrierInv' /\ AskedInv'
  BY <1>7, Handover, Zenon
<1> QED
  BY <1>4, <1>5, <1>6, <1>7, <1>8, Zenon DEF RequestInv, PeerInv

LEMMA AskStep ==
  ASSUME RequestInv, NEW t \in Threads, Ask(t)
  PROVE  RequestInv'
<1> /\ Idle(t)
    /\ UNCHANGED <<inflight, asked, lost, waiting, tasks, conn, flight, pending, timers,
                   session, handshaking>>
  BY Zenon DEF Ask, keyVars, sendVars, peerVars, ghostVars
<1> PICK type, hashes, p, k : /\ hashes \subseteq Hashes /\ k = Request(type, hashes, p, 0)
                              /\ Start(t, <<k>>)
  BY Zenon DEF Ask
<1>3. JobOK(k) /\ ~NeedsNext(k)
  BY Zenon DEF Request, JobOK, ReqOK, NeedsNext
<1>4. TodoInv' /\ AllJobs \subseteq AllJobs'
  BY <1>3, OneCall, StartStep, Zenon DEF RequestInv
<1> QED
  BY <1>4, Started, Zenon

-----------------------------------------------------------------------------
(* The invariant *)

LEMMA InitInv ==
  ASSUME RequestAssumption, Init
  PROVE  RequestInv
<1> USE DEF Init
<1> CallsOK(<<>>) /\ IsSeq(<<>>) /\ Range(<<>>) = {}
  BY NoCalls, Zenon DEF CallsOK
<1>2. TodoInv
  BY Zenon DEF TodoInv
<1>3. KeyInv
  BY Zenon DEF KeyInv
<1>4. QueueInv
  BY Zenon DEF QueueInv, MsgsOK
<1>5. ContainerInv
  BY Zenon DEF ContainerInv, MsgsOK
<1>6. FlightInv
  BY FS_EmptySet DEF FlightInv, FlightOK, TimersOK, RequestAssumption
<1>7. ServedInv /\ TimedInv
  BY Zenon DEF ServedInv, Served, TimedInv
<1>8. CarrierInv /\ AskedInv
  BY Zenon DEF CarrierInv, AskedInv
<1> QED
  BY <1>2, <1>3, <1>4, <1>5, <1>6, <1>7, <1>8, Zenon DEF RequestInv, PeerInv

LEMMA WorkStep ==
  ASSUME RequestAssumption, RequestInv, NEW t \in Threads, Work(t)
  PROVE  RequestInv'
<1>1. CASE RequestWithDelay(t) \/ CheckNetInflight(t) \/ SendRequest(t) \/ SendFails(t)
           \/ PushWaiting(t) \/ ResendToAnotherPeer(t) \/ ItemsReceived(t)
  BY <1>1, RequestWithDelayStep, CheckNetInflightStep, SendRequestStep, SendFailsStep,
     PushWaitingStep, ResendToAnotherPeerStep, ItemsReceivedStep, Zenon
<1>2. CASE SendPendingRequests(t) \/ Dispatch(t) \/ OnBlocksInner(t)
           \/ ProcessTimeout(t) \/ AfterTimeouts(t)
  BY <1>2, SendPendingStep, DispatchStep, OnBlocksInnerStep, ProcessTimeoutStep, AfterTimeoutsStep, Zenon
<1>3. CASE StartDrain(t) \/ TakeWaiting(t) \/ SelectForBatch(t) \/ SendBatched(t)
  BY <1>3, StartDrainStep, TakeWaitingStep, SelectForBatchStep, SendBatchedStep, Zenon
<1>4. CASE PeerConnected(t) \/ AddPeer(t) \/ LeaveSyn(t) \/ RemovePeer(t)
  BY <1>4, PeerConnectedStep, AddPeerStep, LeaveSynStep, RemovePeerStep, Zenon
<1> QED
  BY <1>1, <1>2, <1>3, <1>4, Zenon DEF Work

LEMMA RespondStep ==
  ASSUME RequestAssumption, RequestInv, NEW t \in Threads, Respond(t)
  PROVE  RequestInv'
BY RespondHeadersStep, RespondBlocksStep, RespondCompactStep, RespondTxnStep, RespondMismatchStep, Zenon
   DEF Respond

LEMMA Stutter ==
  ASSUME RequestInv, UNCHANGED vars
  PROVE  RequestInv'
<1> /\ UNCHANGED <<todo, inflight, asked, lost, waiting, tasks, conn, flight, pending, timers,
                   session, handshaking>>
  BY Zenon DEF vars, keyVars, sendVars, peerVars, ghostVars
<1>2. TodoInv' /\ AllJobs' = AllJobs
  BY Zenon DEF RequestInv, TodoInv, AllJobs
<1> QED
  BY <1>2, Started, Zenon

(* Whatever the threads, peers and timers do, each key in flight is in one *)
(* of the places where it will be dealt with, and each container keeps     *)
(* its limit, its ids, its timers and somebody to serve it.                *)
THEOREM RequestInvariant == Spec => []RequestInv
<1>1. Init => RequestInv
  BY InitInv, RequestAssumption, Zenon
<1>2. RequestInv /\ [Next]_vars => RequestInv'
  <2> SUFFICES ASSUME RequestInv, [Next]_vars PROVE RequestInv'
    BY Zenon
  <2> USE RequestAssumption
  <2>1. ASSUME NEW t \in Threads, Work(t) \/ Respond(t)
        PROVE  RequestInv'
    BY <2>1, WorkStep, RespondStep, Zenon
  <2>2. ASSUME NEW t \in Threads, PopTask(t) \/ CheckRequests(t) \/ Ask(t)
        PROVE  RequestInv'
    BY <2>2, PopTaskStep, CheckRequestsStep, AskStep, Zenon
  <2>3. ASSUME NEW t \in Threads, NEW p \in Peers, OnStatus(t, p) \/ Disconnect(t, p)
        PROVE  RequestInv'
    BY <2>3, OnStatusStep, DisconnectStep, Zenon
  <2>4. ASSUME NEW p \in Peers, Connect(p)
        PROVE  RequestInv'
    BY <2>4, ConnectStep, Zenon
  <2>5. CASE UNCHANGED vars
    BY <2>5, Stutter, Zenon
  <2> QED
    BY <2>1, <2>2, <2>3, <2>4, <2>5, Zenon DEF Next
<1> QED
  BY <1>1, <1>2, PTL DEF Spec

(* The places of a key are the requests InflightExact looks through. *)
LEMMA HeldCarried ==
  ASSUME RequestInv, NEW c, NEW h, Held(c, h)
  PROVE  \E r \in CarriedRequests : Class(r.type) = c /\ h \in r.hashes
<1>1. CASE HeldWaiting(c, h)
  BY <1>1, Zenon DEF HeldWaiting, HasKey, CarriedRequests
<1>2. CASE HeldPeer(c, h)
  <2>1. PICK p \in conn : \E m \in flight[p] \cup Range(pending[p]) : HasKey(m.req, c, h)
    BY <1>2, Zenon DEF HeldPeer
  <2>2. PICK m \in flight[p] \cup Range(pending[p]) : HasKey(m.req, c, h)
    BY <2>1, Zenon
  <2> QED
    BY <2>2 DEF HasKey, CarriedRequests
<1>3. CASE HeldTask(c, h)
  <2>1. PICK task \in Range(tasks) : h \in task.requested
    BY <1>3, Zenon DEF HeldTask
  <2>2. PICK r : r = [type |-> "blocks", hashes |-> task.requested]
    BY Zenon
  <2>3. r \in CarriedRequests
    BY <2>1, <2>2, Zenon DEF CarriedRequests
  <2> QED
    BY <1>3, <2>1, <2>2, <2>3, Zenon DEF HeldTask, Class
<1>4. CASE HeldJob(c, h)
  <2>0. PICK t \in Threads : \E k \in Range(todo[t]) : Carries(k, c, h)
    BY <1>4, Zenon DEF HeldJob, AllJobs
  <2>1. PICK j \in Range(todo[t]) : Carries(j, c, h)
    BY <2>0, Zenon
  <2>2. JobOK(j)
    BY <2>1, Zenon DEF RequestInv, TodoInv, CallsOK
  <2>3. \E r \in JobRequests(j) : Class(r.type) = c /\ h \in r.hashes
    <3>1. CASE j.op \in {"request", "check", "send", "unsent", "wait", "again"}
      BY <2>1, <3>1, Zenon DEF Carries, HasKey, JobRequests
    <3>2. CASE j.op = "received"
      <4>1. PICK r : r = [type |-> j.class, hashes |-> j.requested]
        BY Zenon
      <4>2. r \in JobRequests(j) /\ j.class = c /\ h \in j.requested /\ j.class \in Classes
        BY <2>1, <2>2, <3>2, <4>1, Zenon DEF Carries, JobOK, JobRequests
      <4> QED
        BY <4>1, <4>2, Zenon DEF Class, Classes
    <3>3. CASE j.op \in {"dispatch", "recover"}
      <4>1. PICK r : r = [type |-> "blocks", hashes |-> j.task.requested]
        BY Zenon
      <4>2. r \in JobRequests(j) /\ c = "blocks" /\ h \in j.task.requested
        BY <2>1, <3>3, <4>1, Zenon DEF Carries, JobRequests
      <4> QED
        BY <4>1, <4>2, Zenon DEF Class
    <3>4. CASE j.op \in {"timeout", "resend", "batched"}
      BY <2>1, <3>4, Zenon DEF Carries, HasKey, JobRequests
    <3> QED
      BY <2>1, <3>1, <3>2, <3>3, <3>4, Zenon DEF Carries
  <2>4. JobRequests(j) \subseteq CarriedRequests
    BY <2>1 DEF CarriedRequests
  <2> QED
    BY <2>3, <2>4, Zenon
<1> QED
  BY <1>1, <1>2, <1>3, <1>4, Zenon DEF Held

(* A key in flight always has somebody who will have it received or        *)
(* requested again, and a key asked for and not received is in flight or   *)
(* about to be, for any number of threads, peers and hashes: with_inflight *)
(* never refuses a hash nobody is after.                                   *)
THEOREM InflightExactHolds == Spec => []InflightExact
<1>1. RequestInv => InflightExact
  <2> SUFFICES ASSUME RequestInv, NEW c \in Classes
               PROVE  /\ \A h \in inflight[c] :
                           \/ h \in lost[c]
                           \/ \E r \in CarriedRequests : Class(r.type) = c /\ h \in r.hashes
                      /\ \A h \in asked[c] :
                           \/ h \in inflight[c]
                           \/ \E t \in Threads : \E j \in Range(todo[t]) :
                                j.op = "request" /\ Class(j.req.type) = c /\ h \in j.req.hashes
    BY Zenon DEF InflightExact
  <2>1. \A h \in inflight[c] : h \in lost[c] \/ Held(c, h)
    BY Zenon DEF RequestInv, CarrierInv
  <2>2. \A h \in asked[c] : h \in inflight[c] \/ \E t \in Threads : \E j \in Range(todo[t]) : Asks(j, c, h)
    BY Zenon DEF RequestInv, AskedInv, AllJobs
  <2> QED
    BY <2>1, <2>2, HeldCarried, Zenon DEF Asks, HasKey
<1> QED
  BY <1>1, RequestInvariant, PTL

(* A container forgets none of its requests: those queued behind the limit *)
(* are about to be sent when a place is free, those sent are timed, and    *)
(* the limit holds, whatever sessions are opened and closed meanwhile.     *)
THEOREM PeerRequestsServedHolds == Spec => []PeerRequestsServed
<1>1. RequestInv => PeerRequestsServed
  <2> SUFFICES ASSUME RequestInv PROVE PeerRequestsServed
    BY Zenon
  <2>1. PendingServed
    BY Zenon DEF PendingServed, RequestInv, PeerInv, ContainerInv, ServedInv, Served, Serves, AllJobs
  <2>2. \A x : Timed(x) => x \in timers \cup HeldTimers
    BY DEF Timed, HeldTimers, AllJobs
  <2>3. FlightTimed
    BY <2>2, Zenon DEF FlightTimed, RequestInv, PeerInv, ContainerInv, TimedInv
  <2>4. \A p \in Peers : Cardinality(flight[p]) <= MaxInflight
    BY Zenon DEF RequestInv, PeerInv, FlightInv, FlightOK
  <2> QED
    BY <2>1, <2>3, <2>4, Zenon DEF PeerRequestsServed
<1> QED
  BY <1>1, RequestInvariant, PTL
=============================================================================
