--------------------------- MODULE RequestManager ---------------------------
(***************************************************************************)
(* The request manager of the synchronization protocol: which headers and  *)
(* block bodies have been asked of which peer, and what happens when an    *)
(* answer is wrong, late or missing, when the peer goes away, or when the  *)
(* node cannot take more blocks.                                           *)
(*                                                                         *)
(* Each handler runs on a worker thread.  `todo[t]` is the rest of the     *)
(* handler thread t is running, as a sequence of calls; a step of t runs   *)
(* the first call up to the end of one critical section and puts what the  *)
(* call still has to do back in front.  So every interleaving of critical  *)
(* sections is a behaviour, and an idle thread has an empty sequence.      *)
(*                                                                         *)
(* A request is its type and the set of hashes it asks for.  A delay is a  *)
(* number of REQUEST_START_WAITING_TIME units, 0 standing for None.        *)
(* Header requests also stand for the epoch requests, whose code is the    *)
(* same with epoch numbers as keys.                                        *)
(***************************************************************************)
EXTENDS Integers, Sequences, FiniteSets, Functions

CONSTANTS Hashes,       \* block hashes
          Peers,        \* node ids
          Threads,      \* worker threads
          Nobody,       \* no peer, or no holder of the lock on waiting_requests
          AskTypes,     \* the request types the node issues of its own accord
          CatchUp,      \* the node is in a catch-up phase
          MaxAsks,      \* bound: requests issued of the node's own accord
          MaxSurprises, \* bound: sessions opened after the start and extra blocks
          MaxInflight,  \* max_inflight_request_count of a peer
          QueueCap,     \* capacity of recover_public_queue, in average blocks
          DelayBound    \* DEFAULT_REQUEST_DELAY_UPPER_BOUND, in delay units

ASSUME RequestAssumption ==
  /\ Nobody \notin Peers \cup Threads
  /\ IsFiniteSet(Hashes) /\ IsFiniteSet(Peers) /\ IsFiniteSet(Threads)
  /\ AskTypes \subseteq {"headers", "blocks", "public", "compact"}
  /\ CatchUp \in BOOLEAN
  /\ {MaxAsks, MaxSurprises, MaxInflight, QueueCap, DelayBound} \subseteq Nat

VARIABLES
  inflight,   \* inflight_keys, by class of key
  net,        \* inflight_keys of NET_INFLIGHT_BLOCKS
  waiting,    \* waiting_requests: requests and their next delay
  waitLock,   \* who holds the mutex on waiting_requests for several steps
  session,    \* peers with a live session
  handshaking,\* syn.handshaking_peers
  syn,        \* syn.peers
  conn,       \* peers with a RequestContainer
  flight,     \* inflight_requests of each container
  pending,    \* pending_requests of each container
  timers,     \* requests_queue, without the entries marked removed
  tasks,      \* recover_public_queue
  todo,       \* what each thread still has to do
  graph,      \* blocks whose body the synchronization graph holds
  asked,      \* keys requested and neither received nor cancelled
  lost,       \* keys whose request was discarded without being asked again
  extra,      \* blocks that came with a compact response beside what it had to answer
  asks, connects  \* how many requests and sessions there have been

keyVars == <<inflight, net>>
peerVars == <<session, handshaking, syn>>
sendVars == <<conn, flight, pending, timers>>
ghostVars == <<graph, asked, lost, extra>>
budget == <<asks, connects>>
vars == <<keyVars, waiting, waitLock, peerVars, sendVars, tasks, todo, ghostVars, budget>>

Classes == {"headers", "blocks"}
Types == {"headers", "blocks", "public", "compact", "txn"}

(* The class of keys a request of the given type holds: GetBlocks, with or *)
(* without public keys, GetCompactBlocks and GetBlockTxn share one.        *)
Class(type) == IF type = "headers" THEN "headers" ELSE "blocks"

(* try_get_block_hashes: the requests that count as blocks on the network. *)
AsksBlocks(req) == req.type \in {"blocks", "public", "compact"}

(* The request to send when `req` has failed. *)
Resend(req) == CASE req.type = "compact" -> [req EXCEPT !.type = "public"]
                 [] req.type = "txn" -> [req EXCEPT !.type = "blocks"]
                 [] OTHER -> req

(* request_block_need_public, for nodes configured to ask for public keys. *)
FullType == IF CatchUp /\ "public" \in AskTypes THEN "public" ELSE "blocks"

ConstantDelay(d) == 1
(* The delay the request gets if it fails again. *)
NextDelay(d) == IF d > DelayBound THEN d ELSE d + 1

-----------------------------------------------------------------------------
(* The calls a thread may have to make. *)

Request(type, hashes, p, d) ==
  [op |-> "request", req |-> [type |-> type, hashes |-> hashes], peer |-> p, delay |-> d]
Again(req, d) == [op |-> "again", req |-> req, delay |-> d]
Received(c, requested, got, type, p, d) ==
  [op |-> "received", class |-> c, requested |-> requested, got |-> got, type |-> type,
   peer |-> p, delay |-> d]
SendPending(p) == [op |-> "pending", peer |-> p]
Timeout(due, msgs, drop, keep) ==
  [op |-> "timeout", timers |-> due, msgs |-> msgs, drop |-> drop, keep |-> keep]

(* on_message ends by serving the peer the message came from. *)
AfterMessageNothing(p) == <<>>
AfterMessage(p) == <<SendPending(p)>>

At(t, op) == todo[t] # <<>> /\ Head(todo[t]).op = op
Do(t, calls) == todo' = [todo EXCEPT ![t] = calls \o Tail(@)]
Idle(t) == todo[t] = <<>>
Start(t, calls) == todo' = [todo EXCEPT ![t] = calls]

(* The orders in which the entries of a hash map or set may come. *)
Orders(S) == Bijection(1 .. Cardinality(S), S)

(* PeerFilter::select: no peer may pass the filter even when some are known. *)
Selected == syn \cup {Nobody}

-----------------------------------------------------------------------------
(* recover_public_queue *)

QueueSize == SumFunction([i \in DOMAIN tasks |-> Cardinality(tasks[i].blocks)])
EstimatedAvailable == IF QueueSize >= QueueCap THEN 0 ELSE QueueCap - QueueSize
QueueFull == QueueSize >= QueueCap

(* check_and_update_net_inflight_blocks refuses a request. *)
NetRefuses(req) == AsksBlocks(req) /\ Cardinality(net) >= EstimatedAvailable
NetWith(req) == IF AsksBlocks(req) THEN net \cup req.hashes ELSE net
NetWithout(req) == IF AsksBlocks(req) THEN net \ req.hashes ELSE net

(* on_removed of each request type. *)
KeysWithout(req) == [inflight EXCEPT ![Class(req.type)] = @ \ req.hashes]
NetOnRemoved(req) == IF Class(req.type) = "blocks" THEN net \ req.hashes ELSE net

-----------------------------------------------------------------------------
(* Containers *)

(* Request ids are never reused in the code; here ids that no request in   *)
(* flight and no outstanding timer has stand for the next ones.            *)
HeldTimers == UNION {UNION {IF j.op = "timeout" THEN j.timers ELSE {} : j \in Range(todo[t])} :
                       t \in Threads}
UsedIds(p) == {m.id : m \in flight[p]} \cup {x.id : x \in {y \in timers \cup HeldTimers : y.peer = p}}
FreshIds(p, n) ==
  CHOOSE ids \in Injection(1 .. n, (1 .. (Cardinality(UsedIds(p)) + n)) \ UsedIds(p)) : TRUE

(* The entries of requests_queue for new requests. *)
NewTimers(p, ids) == {[peer |-> p, id |-> ids[i]] : i \in DOMAIN ids}

(* immediate_send_request_to_peer for each message of a sequence: it is in *)
(* flight and timed, whether the network took it or not.                   *)
SendNow(p, msgs) ==
  LET ids == FreshIds(p, Len(msgs))
  IN  /\ flight' = [flight EXCEPT ![p] = @ \cup {[id |-> ids[i], req |-> msgs[i].req,
                                                 delay |-> msgs[i].delay] : i \in DOMAIN msgs}]
      /\ timers' = timers \cup NewTimers(p, ids)

(* send_request to a peer that has a container: the request is sent, or    *)
(* queued when the peer has too many in flight.                            *)
Place(p, req, d) ==
  LET msg == [req |-> req, delay |-> d]
  IN  /\ IF Cardinality(flight[p]) < MaxInflight
         THEN SendNow(p, <<msg>>) /\ UNCHANGED pending
         ELSE pending' = [pending EXCEPT ![p] = Append(@, msg)] /\ UNCHANGED <<flight, timers>>
      /\ UNCHANGED conn

(* match_request: the request leaves the container and its timer is        *)
(* marked removed.                                                         *)
Unmatched(p, m) ==
  /\ flight' = [flight EXCEPT ![p] = @ \ {m}]
  /\ timers' = timers \ {[peer |-> p, id |-> m.id]}

(* An entry for waiting_requests, a heap that may hold equal entries: `no` *)
(* tells those apart.                                                      *)
Entry(req, d) ==
  LET Copy(n) == [req |-> req, delay |-> d, no |-> n]
  IN  Copy(CHOOSE n \in 1 .. Cardinality(waiting) + 1 : Copy(n) \notin waiting)

-----------------------------------------------------------------------------
(* Asking *)

(* with_inflight: the hashes of a request that are not in flight yet.  A   *)
(* GetBlockTxn reuses the key of the compact block request.                *)
NewHashesUnchecked(req) == req.hashes
NewHashes(req) == IF req.type = "txn" THEN req.hashes ELSE req.hashes \ inflight[Class(req.type)]

(* request_with_delay up to the end of with_inflight: keys already in      *)
(* flight are dropped from the request, the others are taken.              *)
RequestWithDelay(t) ==
  /\ At(t, "request")
  /\ LET j == Head(todo[t])
         c == Class(j.req.type)
         req == [j.req EXCEPT !.hashes = NewHashes(j.req)]
     IN  /\ inflight' = IF j.req.type = "txn" THEN inflight
                        ELSE [inflight EXCEPT ![c] = @ \cup j.req.hashes]
         /\ asked' = IF j.req.type = "txn" THEN asked
                     ELSE [asked EXCEPT ![c] = @ \cup req.hashes]
         /\ Do(t, CASE req.hashes = {} -> <<>>
                    [] req.hashes # {} /\ j.peer # Nobody /\ j.delay = 0 ->
                         <<[op |-> "check", req |-> req, peer |-> j.peer]>>
                    [] OTHER ->
                         <<[op |-> "wait", req |-> req, delay |-> NextDelay(j.delay)]>>)
  /\ UNCHANGED <<net, waiting, waitLock, peerVars, sendVars, tasks, graph, lost, extra, budget>>

(* check_and_update_net_inflight_blocks of a request that has a peer and   *)
(* no delay.                                                               *)
CheckNetInflight(t) ==
  /\ At(t, "check")
  /\ LET j == Head(todo[t])
     IN  IF NetRefuses(j.req)
         THEN /\ Do(t, <<[op |-> "wait", req |-> j.req, delay |-> NextDelay(0)]>>)
              /\ UNCHANGED net
         ELSE /\ Do(t, <<[op |-> "send", req |-> j.req, peer |-> j.peer]>>)
              /\ net' = NetWith(j.req)
  /\ UNCHANGED <<inflight, waiting, waitLock, peerVars, sendVars, tasks, ghostVars, budget>>

(* What is left to do when send_request gives the request back. *)
UnsentForgotten(req) == <<>>
Unsent(req) == <<[op |-> "unsent", req |-> req]>>

SendRequest(t) ==
  /\ At(t, "send")
  /\ LET j == Head(todo[t])
     IN  IF j.peer \in conn
         THEN Place(j.peer, j.req, NextDelay(0)) /\ Do(t, <<>>)
         ELSE /\ Do(t, Unsent(j.req))
              /\ UNCHANGED sendVars
  /\ UNCHANGED <<keyVars, waiting, waitLock, peerVars, tasks, ghostVars, budget>>

(* The peer went away before the request was sent: the network slots are   *)
(* given back and the request waits.                                       *)
SendFails(t) ==
  /\ At(t, "unsent")
  /\ LET j == Head(todo[t])
     IN  /\ net' = NetWithout(j.req)
         /\ Do(t, <<[op |-> "wait", req |-> j.req, delay |-> NextDelay(0)]>>)
  /\ UNCHANGED <<inflight, waiting, waitLock, peerVars, sendVars, tasks, ghostVars, budget>>

PushWaiting(t) ==
  /\ At(t, "wait")
  /\ waitLock = Nobody
  /\ LET j == Head(todo[t])
     IN  waiting' = waiting \cup {Entry(j.req, j.delay)}
  /\ Do(t, <<>>)
  /\ UNCHANGED <<keyVars, waitLock, peerVars, sendVars, tasks, ghostVars, budget>>

(* resend_request_to_another_peer up to the choice of the peer. *)
ResendToAnotherPeer(t) ==
  /\ At(t, "again")
  /\ LET j == Head(todo[t])
         req == Resend(j.req)
     IN  /\ inflight' = KeysWithout(j.req)
         /\ net' = NetOnRemoved(j.req)
         /\ \E p \in Selected : Do(t, <<Request(req.type, req.hashes, p, j.delay)>>)
  /\ UNCHANGED <<waiting, waitLock, peerVars, sendVars, tasks, ghostVars, budget>>

(* What was asked for and not received, and nobody else has taken over. *)
Missing(j) == (j.requested \ j.got) \cap inflight[j.class]

(* headers_received, epochs_received and blocks_received: the keys are     *)
(* released, and those not received that nobody else has taken over are    *)
(* requested again.                                                        *)
ItemsReceived(t) ==
  /\ At(t, "received")
  /\ LET j == Head(todo[t])
     IN  /\ inflight' = [inflight EXCEPT ![j.class] = @ \ (j.requested \cup j.got)]
         /\ net' = IF j.class = "blocks" THEN net \ (j.requested \cup j.got) ELSE net
         /\ asked' = [asked EXCEPT ![j.class] = @ \ j.got]
         /\ IF Missing(j) = {} THEN Do(t, <<>>)
            ELSE \E p \in IF j.peer = Nobody THEN Selected ELSE {j.peer} :
                   Do(t, <<Request(j.type, Missing(j), p, j.delay)>>)
  /\ UNCHANGED <<waiting, waitLock, peerVars, sendVars, tasks, graph, lost, extra, budget>>

(* send_pending_requests: fill the free places of a container. *)
SendPendingRequests(t) ==
  /\ At(t, "pending")
  /\ LET p == Head(todo[t]).peer
         free == MaxInflight - Cardinality(flight[p])
         n == IF free < Len(pending[p]) THEN free ELSE Len(pending[p])
     IN  /\ SendNow(p, SubSeq(pending[p], 1, n))
         /\ pending' = [pending EXCEPT ![p] = SubSeq(@, n + 1, Len(@))]
  /\ Do(t, <<>>)
  /\ UNCHANGED <<keyVars, waiting, waitLock, peerVars, conn, tasks, ghostVars, budget>>

(* AsyncTaskQueue::dispatch: a task that does not fit is dropped. *)
Dispatch(t) ==
  /\ At(t, "dispatch")
  /\ LET task == Head(todo[t]).task
     IN  IF QueueSize + Cardinality(task.blocks) > QueueCap
         THEN lost' = [lost EXCEPT !["blocks"] = @ \cup task.requested] /\ UNCHANGED tasks
         ELSE tasks' = Append(tasks, task) /\ UNCHANGED lost
  /\ Do(t, <<>>)
  /\ UNCHANGED <<keyVars, waiting, waitLock, peerVars, sendVars, graph, asked, extra, budget>>

-----------------------------------------------------------------------------
(* Responses.  A response to a request the container no longer has is      *)
(* refused (RequestNotFound) and changes nothing.                          *)

(* The calls a handler makes of its own accord after a response, such as   *)
(* for missing parents: at most one further request.                       *)
FollowUps(types, p) ==
  {<<>>} \cup (IF asks < MaxAsks
               THEN {<<Request(x[1], {x[2]}, p, 0)>> : x \in (types \cap AskTypes) \X (Hashes \ graph)}
               ELSE {})
CountFollowUp(calls) == asks' = asks + Len(calls) /\ UNCHANGED connects

RespondHeaders(t, p, m) ==
  /\ Idle(t) /\ m.req.type = "headers"
  /\ Unmatched(p, m)
  /\ \E got \in SUBSET Hashes, more \in FollowUps({"headers", "blocks", "compact", "public"}, p) :
       /\ Start(t, <<Received("headers", m.req.hashes, got, "headers", Nobody, m.delay)>>
                     \o more \o AfterMessage(p))
       /\ CountFollowUp(more)
  /\ UNCHANGED <<keyVars, waiting, waitLock, peerVars, conn, pending, tasks, ghostVars>>

(* GetBlocksResponse and GetBlocksWithPublicResponse: the latter tries the *)
(* request as a GetCompactBlocks first, and that attempt resends it.       *)
RespondBlocks(t, p, m) ==
  /\ Idle(t) /\ m.req.type \in {"blocks", "public"}
  /\ ~QueueFull
  /\ Unmatched(p, m)
  /\ \E got \in SUBSET Hashes :
       LET task == [blocks |-> got, requested |-> m.req.hashes, compact |-> FALSE,
                    peer |-> p, delay |-> m.delay]
       IN  Start(t, (IF m.req.type = "public" THEN <<Again(m.req, m.delay)>> ELSE <<>>)
                    \o <<[op |-> "dispatch", task |-> task]>> \o AfterMessage(p))
  /\ UNCHANGED <<keyVars, waiting, waitLock, peerVars, conn, pending, tasks, ghostVars, budget>>

(* GetCompactBlocksResponse: each block asked for is missing, skipped or   *)
(* rebuilt and refused, or misses transactions, which the node then asks   *)
(* for, or is rebuilt and taken.  Next to those the response has full      *)
(* blocks.  Nothing compares them with the request: their hashes become    *)
(* what the task asked for, be they expected or not.                       *)
RespondCompact(t, p, m) ==
  /\ Idle(t) /\ m.req.type = "compact"
  /\ ~QueueFull
  /\ Unmatched(p, m)
  /\ \E f \in [m.req.hashes -> {"unusable", "txn", "ok"}], full \in SUBSET Hashes :
       LET With(kind) == {h \in m.req.hashes : f[h] = kind}
           expected == m.req.hashes \ With("txn")
           task == [blocks |-> full, requested |-> full, compact |-> TRUE,
                    peer |-> p, delay |-> m.delay]
       IN  /\ graph' = graph \cup With("ok")
           /\ extra' = extra \cup (full \ expected)
           /\ full \subseteq expected \/ Cardinality(extra) + connects < MaxSurprises
           /\ \E txns \in Orders({Request("txn", {h}, p, 0) : h \in With("txn")}) :
                Start(t, txns \o <<Received("blocks", expected \ full, With("ok"), FullType, p, m.delay),
                                    [op |-> "dispatch", task |-> task]>> \o AfterMessage(p))
  /\ UNCHANGED <<keyVars, waiting, waitLock, peerVars, conn, pending, tasks, asked, lost, budget>>

(* GetBlockTxnResponse.  When a signature cannot be recovered the handler  *)
(* returns before blocks_received.                                         *)
RespondTxn(t, p, m) ==
  /\ Idle(t) /\ m.req.type = "txn"
  /\ Unmatched(p, m)
  /\ \/ \E from \in {p, Nobody}, got \in SUBSET m.req.hashes :
          /\ from = p => got = {}
          /\ graph' = graph \cup got
          /\ Start(t, <<Received("blocks", m.req.hashes, got, FullType, from, m.delay)>>
                      \o AfterMessage(p))
          /\ UNCHANGED lost
     \/ /\ lost' = [lost EXCEPT !["blocks"] = @ \cup m.req.hashes]
        /\ Start(t, AfterMessage(p))
        /\ UNCHANGED graph
  /\ UNCHANGED <<keyVars, waiting, waitLock, peerVars, conn, pending, tasks, asked, extra, budget>>

(* A response of another type than the request: downcast_ref resends it. *)
RespondMismatch(t, p, m) ==
  /\ Idle(t)
  /\ Unmatched(p, m)
  /\ Start(t, <<Again(Resend(m.req), m.delay)>> \o AfterMessage(p))
  /\ UNCHANGED <<keyVars, waiting, waitLock, peerVars, conn, pending, tasks, ghostVars, budget>>

(* on_blocks_inner_task: the task leaves the queue ... *)
PopTask(t) ==
  /\ Idle(t) /\ tasks # <<>>
  /\ tasks' = Tail(tasks)
  /\ Start(t, <<[op |-> "recover", task |-> Head(tasks)]>>)
  /\ UNCHANGED <<keyVars, waiting, waitLock, peerVars, sendVars, ghostVars, budget>>

(* ... and its blocks are taken off the network and inserted: those        *)
(* already in the graph and those asked for that turn out valid count as   *)
(* received.                                                               *)
OnBlocksInner(t) ==
  /\ At(t, "recover")
  /\ LET task == Head(todo[t]).task
     IN  /\ net' = net \ (task.blocks \cup task.requested)
         /\ \E valid \in SUBSET ((task.blocks \cap task.requested) \ graph),
               p \in Selected \ {task.peer} :
              /\ graph' = graph \cup valid
              /\ \E more \in FollowUps({"blocks", "public"}, p) :
                   /\ Do(t, <<Received("blocks", task.requested, valid \cup (task.blocks \cap graph),
                                       IF task.compact THEN "compact" ELSE FullType, p, task.delay)>>
                            \o more)
                   /\ CountFollowUp(more)
  /\ UNCHANGED <<inflight, waiting, waitLock, peerVars, sendVars, tasks, asked, lost, extra>>

-----------------------------------------------------------------------------
(* CHECK_REQUEST_TIMER: remove_expired_flying_request *)

(* get_timeout_sync_requests takes the timers that have run out; the       *)
(* waiting requests are looked at once those have been dealt with.         *)
CheckRequests(t) ==
  /\ Idle(t)
  /\ timers # {} \/ waiting # {}
  /\ \E out \in SUBSET timers :
       /\ timers' = timers \ out
       /\ Start(t, (IF out = {} THEN <<>> ELSE <<Timeout(out, <<>>, {}, {})>>)
                   \o <<[op |-> "drain"]>>)
  /\ UNCHANGED <<keyVars, waiting, waitLock, peerVars, conn, flight, pending, tasks, ghostVars, budget>>

(* One turn of the loop of process_timeout_requests: a request still in    *)
(* flight is taken out, and its peer, which is late, is to be dropped or   *)
(* to be served.                                                           *)
ProcessTimeout(t) ==
  /\ At(t, "timeout") /\ Head(todo[t]).timers # {}
  /\ LET j == Head(todo[t])
     IN  \E x \in j.timers :
           LET hit == {m \in flight[x.peer] : m.id = x.id}
               late == {x.peer : m \in hit}
           IN  /\ flight' = [flight EXCEPT ![x.peer] = @ \ hit]
               /\ \E drop \in SUBSET late, found \in Orders(hit) :
                    Do(t, <<Timeout(j.timers \ {x}, j.msgs \o found,
                                    j.drop \cup drop, j.keep \cup (late \ drop))>>)
  /\ UNCHANGED <<keyVars, waiting, waitLock, peerVars, conn, pending, timers, tasks, ghostVars, budget>>

(* The calls on_peer_disconnected makes. *)
Leave(p) == <<[op |-> "leave", peer |-> p], [op |-> "remove", peer |-> p]>>
Leaving(peers) == [i \in 1 .. 2 * Len(peers) |-> Leave(peers[(i + 1) \div 2])[2 - (i % 2)]]

(* The rest of process_timeout_requests and the resending of the requests. *)
(* disconnect_peer has an effect only on a live session.                   *)
AfterTimeouts(t) ==
  /\ At(t, "timeout") /\ Head(todo[t]).timers = {}
  /\ LET j == Head(todo[t])
         gone == j.drop \cap session
     IN  /\ session' = session \ gone
         /\ \E out \in Orders(gone), served \in Orders(j.keep) :
              Do(t, Leaving(out) \o [i \in DOMAIN served |-> SendPending(served[i])]
                    \o [i \in DOMAIN j.msgs |-> Again(j.msgs[i].req, j.msgs[i].delay)])
  /\ UNCHANGED <<keyVars, waiting, waitLock, handshaking, syn, sendVars, tasks, ghostVars, budget>>

(* resend_waiting_requests holds the lock on waiting_requests to its end.  *)
(* `rest` are the requests whose time has come, `batch` what the batcher   *)
(* has of them.                                                            *)
StartDrain(t) ==
  /\ At(t, "drain") /\ waitLock = Nobody
  /\ \E rest \in SUBSET waiting :
       /\ waiting' = waiting \ rest
       /\ IF rest = {} THEN Do(t, <<>>) /\ UNCHANGED waitLock
          ELSE /\ waitLock' = t
               /\ Do(t, <<[op |-> "resend", rest |-> rest, batch |-> {}]>>)
  /\ UNCHANGED <<keyVars, peerVars, sendVars, tasks, ghostVars, budget>>

(* DelayBucket::insert with buckets of two delay units, the last of which  *)
(* takes all longer delays.  Requests of a class that share a bucket       *)
(* become one, without public keys, with a delay between theirs.           *)
LastBucket == 29
Bucket(c, d) == <<c, IF d \div 2 < LastBucket THEN d \div 2 ELSE LastBucket>>
Batched(batch, req, d) ==
  LET c == Class(req.type)
      same == {b \in batch : Bucket(Class(b.req.type), b.delay) = Bucket(c, d)}
      hashes == req.hashes \cup UNION {b.req.hashes : b \in same}
  IN  {(batch \ same) \cup {[req |-> [type |-> c, hashes |-> hashes], delay |-> e]} :
         e \in {d} \cup {b.delay : b \in same}}

(* What is left of resend_waiting_requests; the lock is released at its end. *)
Resending(t, rest, batch, calls) ==
  IF rest = {} /\ batch = {} /\ calls = <<>>
  THEN Do(t, <<>>) /\ waitLock' = Nobody
  ELSE Do(t, calls \o <<[op |-> "resend", rest |-> rest, batch |-> batch]>>) /\ UNCHANGED waitLock

(* One waiting request: it is cancelled, kept waiting for room, or batched. *)
TakeWaiting(t) ==
  /\ At(t, "resend")
  /\ LET j == Head(todo[t])
     IN  \E w \in j.rest :
           LET rest == j.rest \ {w}
               req == Resend(w.req)
           IN  \/ /\ ~CatchUp /\ w.delay > DelayBound
                  /\ inflight' = KeysWithout(w.req)
                  /\ net' = NetOnRemoved(w.req)
                  /\ asked' = [asked EXCEPT ![Class(req.type)] = @ \ req.hashes]
                  /\ Resending(t, rest, j.batch, <<>>)
                  /\ UNCHANGED waiting
               \/ /\ CatchUp \/ w.delay <= DelayBound
                  /\ NetRefuses(req)
                  /\ waiting' = waiting \cup {Entry(req, w.delay)}
                  /\ Resending(t, rest, j.batch, <<>>)
                  /\ UNCHANGED <<inflight, net, asked>>
               \/ /\ CatchUp \/ w.delay <= DelayBound
                  /\ ~NetRefuses(req)
                  /\ net' = NetWith(req)
                  /\ \E batch \in Batched(j.batch, req, w.delay) : Resending(t, rest, batch, <<>>)
                  /\ UNCHANGED <<inflight, waiting, asked>>
  /\ UNCHANGED <<peerVars, sendVars, tasks, graph, lost, extra, budget>>

(* One batched request: it waits again when there is no peer for it. *)
SelectForBatch(t) ==
  /\ At(t, "resend") /\ Head(todo[t]).rest = {}
  /\ LET batch == Head(todo[t]).batch
     IN  \E b \in batch, p \in Selected :
           IF p = Nobody
           THEN /\ net' = NetWithout(b.req)
                /\ waiting' = waiting \cup {Entry(b.req, b.delay)}
                /\ Resending(t, {}, batch \ {b}, <<>>)
           ELSE /\ Resending(t, {}, batch \ {b}, <<[op |-> "batched", msg |-> b, peer |-> p]>>)
                /\ UNCHANGED <<net, waiting>>
  /\ UNCHANGED <<inflight, peerVars, sendVars, tasks, ghostVars, budget>>

(* send_request for a batched request; if the peer has gone meanwhile the  *)
(* request waits again.                                                    *)
SendBatched(t) ==
  /\ At(t, "batched")
  /\ LET j == Head(todo[t])
         rest == Tail(todo[t])
         last == rest[1].batch = {}
     IN  /\ todo' = [todo EXCEPT ![t] = IF last THEN Tail(rest) ELSE rest]
         /\ waitLock' = IF last THEN Nobody ELSE waitLock
         /\ IF j.peer \in conn
            THEN Place(j.peer, j.msg.req, j.msg.delay) /\ UNCHANGED waiting
            ELSE waiting' = waiting \cup {Entry(j.msg.req, j.msg.delay)} /\ UNCHANGED sendVars
  /\ UNCHANGED <<keyVars, peerVars, tasks, ghostVars, budget>>

-----------------------------------------------------------------------------
(* Peers *)

(* on_peer_connected: a new session starts its handshake. *)
Connect(p) ==
  /\ p \notin session /\ Cardinality(extra) + connects < MaxSurprises
  /\ session' = session \cup {p}
  /\ handshaking' = handshaking \cup {p}
  /\ connects' = connects + 1
  /\ UNCHANGED <<keyVars, waiting, waitLock, syn, sendVars, tasks, todo, ghostVars, asks>>

(* A Status message ends the handshake of a peer that is not known yet. *)
OnStatus(t, p) ==
  /\ Idle(t)
  /\ p \in handshaking \ syn
  /\ handshaking' = handshaking \ {p}
  /\ Start(t, <<[op |-> "join", peer |-> p], [op |-> "add", peer |-> p]>> \o AfterMessage(p))
  /\ UNCHANGED <<keyVars, waiting, waitLock, session, syn, sendVars, tasks, ghostVars, budget>>

PeerConnected(t) ==
  /\ At(t, "join")
  /\ syn' = syn \cup {Head(todo[t]).peer}
  /\ Do(t, <<>>)
  /\ UNCHANGED <<keyVars, waiting, waitLock, session, handshaking, sendVars, tasks, ghostVars, budget>>

(* add_peer replaces a container the peer may still have. *)
AddPeer(t) ==
  /\ At(t, "add")
  /\ LET p == Head(todo[t]).peer
         dropped(c) == UNION {m.req.hashes : m \in {n \in flight[p] \cup Range(pending[p]) :
                                                      Class(n.req.type) = c}}
     IN  /\ conn' = conn \cup {p}
         /\ flight' = [flight EXCEPT ![p] = {}]
         /\ pending' = [pending EXCEPT ![p] = <<>>]
         /\ lost' = [c \in Classes |-> lost[c] \cup dropped(c)]
  /\ Do(t, <<>>)
  /\ UNCHANGED <<keyVars, waiting, waitLock, peerVars, timers, tasks, graph, asked, extra, budget>>

(* A session is closed by the network layer or by another handler. *)
Disconnect(t, p) ==
  /\ Idle(t) /\ p \in session
  /\ session' = session \ {p}
  /\ Start(t, Leave(p))
  /\ UNCHANGED <<keyVars, waiting, waitLock, handshaking, syn, sendVars, tasks, ghostVars, budget>>

(* on_peer_disconnected: the peer is forgotten by syn ... *)
LeaveSyn(t) ==
  /\ At(t, "leave")
  /\ LET p == Head(todo[t]).peer
     IN  syn' = syn \ {p} /\ handshaking' = handshaking \ {p}
  /\ Do(t, <<>>)
  /\ UNCHANGED <<keyVars, waiting, waitLock, session, sendVars, tasks, ghostVars, budget>>

(* get_unfinished_requests: those in flight, in any order, and those queued. *)
UnfinishedSent(p) == Orders(flight[p])
Unfinished(p) == {s \o pending[p] : s \in Orders(flight[p])}

(* ... and its container is removed and its requests are resent. *)
RemovePeer(t) ==
  /\ At(t, "remove")
  /\ LET p == Head(todo[t]).peer
     IN  /\ conn' = conn \ {p}
         /\ flight' = [flight EXCEPT ![p] = {}]
         /\ pending' = [pending EXCEPT ![p] = <<>>]
         /\ timers' = timers \ {[peer |-> p, id |-> m.id] : m \in flight[p]}
         /\ \E msgs \in Unfinished(p) :
              Do(t, [i \in DOMAIN msgs |-> Again(msgs[i].req, msgs[i].delay)])
  /\ UNCHANGED <<keyVars, waiting, waitLock, peerVars, tasks, ghostVars, budget>>

-----------------------------------------------------------------------------
(* The node asks for headers or blocks of its own accord. *)
Ask(t) ==
  /\ Idle(t) /\ asks < MaxAsks
  /\ \E type \in AskTypes, hashes \in (SUBSET (Hashes \ graph)) \ {{}}, p \in Selected :
       Start(t, <<Request(type, hashes, p, 0)>>)
  /\ asks' = asks + 1
  /\ UNCHANGED <<keyVars, waiting, waitLock, peerVars, sendVars, tasks, ghostVars, connects>>

Init ==
  /\ inflight = [c \in Classes |-> {}] /\ net = {}
  /\ waiting = {} /\ waitLock = Nobody
  /\ session = Peers /\ handshaking = {} /\ syn = Peers
  /\ conn = Peers /\ timers = {}
  /\ flight = [p \in Peers |-> {}] /\ pending = [p \in Peers |-> <<>>]
  /\ tasks = <<>> /\ todo = [t \in Threads |-> <<>>]
  /\ graph = {} /\ extra = {} /\ asked = [c \in Classes |-> {}] /\ lost = [c \in Classes |-> {}]
  /\ asks = 0 /\ connects = 0

(* A thread goes on with the handler it is running. *)
Work(t) ==
  \/ RequestWithDelay(t) \/ CheckNetInflight(t) \/ SendRequest(t) \/ SendFails(t)
  \/ PushWaiting(t) \/ ResendToAnotherPeer(t) \/ ItemsReceived(t) \/ SendPendingRequests(t)
  \/ Dispatch(t) \/ OnBlocksInner(t)
  \/ ProcessTimeout(t) \/ AfterTimeouts(t)
  \/ StartDrain(t) \/ TakeWaiting(t) \/ SelectForBatch(t) \/ SendBatched(t)
  \/ PeerConnected(t) \/ AddPeer(t) \/ LeaveSyn(t) \/ RemovePeer(t)

Respond(t) ==
  \E p \in conn : \E m \in flight[p] :
    \/ RespondHeaders(t, p, m) \/ RespondBlocks(t, p, m) \/ RespondCompact(t, p, m)
    \/ RespondTxn(t, p, m) \/ RespondMismatch(t, p, m)

Next ==
  \/ \E t \in Threads :
       \/ Work(t) \/ Respond(t) \/ PopTask(t) \/ CheckRequests(t) \/ Ask(t)
       \/ \E p \in Peers : OnStatus(t, p) \/ Disconnect(t, p)
  \/ \E p \in Peers : Connect(p)

Spec == Init /\ [][Next]_vars

-----------------------------------------------------------------------------
(* Properties *)

(* The requests a call of a thread still has in hand. *)
JobRequests(j) ==
  CASE j.op \in {"request", "check", "send", "unsent", "wait", "again"} -> {j.req}
    [] j.op = "received" -> {[type |-> j.class, hashes |-> j.requested]}
    [] j.op \in {"dispatch", "recover"} -> {[type |-> "blocks", hashes |-> j.task.requested]}
    [] j.op = "timeout" -> {m.req : m \in Range(j.msgs)}
    [] j.op = "resend" -> {m.req : m \in j.rest \cup j.batch}
    [] j.op = "batched" -> {j.msg.req}
    [] OTHER -> {}

CarriedRequests ==
  {w.req : w \in waiting}
  \cup (UNION {{m.req : m \in flight[p] \cup Range(pending[p])} : p \in conn})
  \cup {[type |-> "blocks", hashes |-> task.requested] : task \in Range(tasks)}
  \cup (UNION {UNION {JobRequests(j) : j \in Range(todo[t])} : t \in Threads})

(* A key in flight is in the hands of somebody who will have it received   *)
(* or requested again: a waiting request, a request at a peer, a task or a *)
(* running handler.  Otherwise with_inflight would refuse it for good.     *)
(* The exceptions are the three places where a request is discarded.  And  *)
(* "when a header or block is requested by the RequestManager, it is       *)
(* ensured that if it's not fully received, its hash exists in in_flight", *)
(* unless the thread that took it out is about to request it again.        *)
InflightExact ==
  LET carried == CarriedRequests
  IN  \A c \in Classes :
        /\ \A h \in inflight[c] :
             \/ h \in lost[c]
             \/ \E r \in carried : Class(r.type) = c /\ h \in r.hashes
        /\ \A h \in asked[c] :
             \/ h \in inflight[c]
             \/ \E t \in Threads : \E j \in Range(todo[t]) :
                  j.op = "request" /\ Class(j.req.type) = c /\ h \in j.req.hashes

(* A request queued behind the peer's limit is about to be sent or resent  *)
(* elsewhere when a place becomes free.  A container left over from an     *)
(* earlier session is served or replaced after the peer's handshake.       *)
PendingServed ==
  \A p \in (conn \cap session) \ handshaking : pending[p] # <<>> =>
    \/ Cardinality(flight[p]) >= MaxInflight
    \/ \E t \in Threads : \E j \in Range(todo[t]) :
         \/ j.op \in {"pending", "remove", "add"} /\ j.peer = p
         \/ j.op = "timeout" /\ p \in j.drop \cup j.keep

(* A request that was sent can time out: process_timeout_requests will     *)
(* find it.                                                                *)
FlightTimed ==
  \A p \in conn : \A m \in flight[p] : [peer |-> p, id |-> m.id] \in timers \cup HeldTimers

(* No request is forgotten at a peer, queued or sent, and no peer has more *)
(* than max_inflight_request_count of them to answer.                      *)
PeerRequestsServed ==
  /\ PendingServed
  /\ FlightTimed
  /\ \A p \in Peers : Cardinality(flight[p]) <= MaxInflight

(* Who has a request for a key in hand: one element for each place where   *)
(* the request or its answer is, once it has passed with_inflight.         *)
Holders(c, h) ==
  LET Has(req) == Class(req.type) = c /\ h \in req.hashes
  IN  {<<"waiting", w>> : w \in {v \in waiting : Has(v.req)}}
      \cup (UNION {{<<"flight", p, m>> : m \in {n \in flight[p] : Has(n.req)}} : p \in conn})
      \cup (UNION {{<<"pending", p, i>> : i \in {k \in DOMAIN pending[p] : Has(pending[p][k].req)}} :
                     p \in conn})
      \cup {<<"task", i>> : i \in {k \in DOMAIN tasks : c = "blocks" /\ h \in tasks[k].requested}}
      \cup (UNION {{<<"job", t, i>> : i \in {k \in DOMAIN todo[t] :
                                               /\ todo[t][k].op # "request"
                                               /\ \E req \in JobRequests(todo[t][k]) : Has(req)}} :
                     t \in Threads})

(* inflight_keys is "used to avoid send duplicated requests": a block the  *)
(* graph does not have is never being obtained twice at the same time.     *)
(* The exception is a full block in a compact response that did not ask    *)
(* for it, or that also makes the node ask for its transactions: the task  *)
(* it comes in is a second holder, and lets a second request be sent.      *)
OneHolderPerKey ==
  \A h \in Hashes \ (graph \cup extra) : Cardinality(Holders("blocks", h)) <= 1

-----------------------------------------------------------------------------
(* Liveness *)

(* A check finds that the requests for h at the peers have run out of time. *)
Expires(h) ==
  /\ \E t \in Threads : CheckRequests(t)
  /\ \A p \in Peers : \A m \in flight[p] :
       h \in m.req.hashes => [peer |-> p, id |-> m.id] \notin timers'
  /\ timers' # timers

(* A check finds that the waiting requests for h are due. *)
Due(h) ==
  /\ \E t \in Threads : StartDrain(t)
  /\ \A w \in waiting' : h \notin w.req.hashes
  /\ waiting' # waiting

(* Worker threads do not stop, the request timer keeps firing and time     *)
(* passes, and peers are not throttled for ever.                           *)
Fairness ==
  /\ \A t \in Threads : WF_vars(Work(t))
  /\ SF_vars(\E t \in Threads : CheckRequests(t))
  /\ \A h \in Hashes : SF_vars(Expires(h)) /\ SF_vars(Due(h))
  /\ SF_vars(\E t \in Threads : SelectForBatch(t) /\ UNCHANGED waiting)
  /\ WF_vars(\E t \in Threads : PopTask(t))
FairSpec == Spec /\ Fairness

(* A header or block asked for is received or given up after too many      *)
(* attempts, as long as there is a peer to ask: retries never go on for    *)
(* ever without the delay growing, and no request is left behind.          *)
RequestsSettle ==
  \A c \in Classes : \A h \in Hashes :
    (h \in asked[c]) ~> (h \notin asked[c] \/ h \in lost[c] \/ syn = {})
=============================================================================
