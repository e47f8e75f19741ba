----------------------- MODULE ConversationTurnsProofs -----------------------
(***************************************************************************)
(* Proofs about ConversationTurns, for any number of conversations,        *)
(* requests, rounds and restarts and any size of the cache, as long as     *)
(* clients are patient: the page asks for a conversation only when it has  *)
(* no request in flight for it.                                            *)
(***************************************************************************)
EXTENDS ConversationTurns, SequenceFacts

------------------------------------------------------------------------------
(* Histories. *)

HasUser(h, t) == \E i \in 1..Len(h) : h[i] = [turn |-> t, kind |-> "user"]
ResultsFollow(h) ==
    \A i \in 1..Len(h) : h[i].kind = "results" =>
        i > 1 /\ h[i - 1].kind = "calls" /\ h[i - 1].turn = h[i].turn
Open(h, i) == h[i].kind = "calls" /\ ~CallAnswered(h, i)

\* Calls without results are those of the turns in C, and results follow
\* their calls; while r's tools run, its calls are last and still open.
Neat(h, C)     == ResultsFollow(h) /\ \A i \in 1..Len(h) : Open(h, i) => h[i].turn \in C
Loose(h, C, r) ==
    /\ ResultsFollow(h) /\ Len(h) > 0 /\ h[Len(h)] = [turn |-> r, kind |-> "calls"]
    /\ \A i \in 1..Len(h) : Open(h, i) => h[i].turn \in C \/ i = Len(h)

\* What a history is after one more message.
LEMMA OneMore ==
    ASSUME NEW h \in Seq(Message), NEW r \in Request,
           NEW k \in {"user", "nudge", "halt", "calls", "results", "reply"}
    PROVE  /\ Msg(r, k) \in Seq(Message) /\ h \o Msg(r, k) \in Seq(Message)
           /\ Len(h) \in Nat /\ Len(h \o Msg(r, k)) = Len(h) + 1
           /\ (h \o Msg(r, k))[Len(h) + 1] = [turn |-> r, kind |-> k]
           /\ \A i \in 1..Len(h) : (h \o Msg(r, k))[i] = h[i]
BY DEF Msg, Message

\* Appending loses no user message.
LEMMA UserStays ==
    ASSUME NEW h \in Seq(Message), NEW m \in Seq(Message), NEW t, HasUser(h, t)
    PROVE  HasUser(h \o m, t)
<1>1. PICK i \in 1..Len(h) : h[i] = [turn |-> t, kind |-> "user"]
  BY DEF HasUser
<1>2. i \in 1..Len(h \o m) /\ (h \o m)[i] = h[i]
  BY <1>1
<1> QED BY <1>1, <1>2 DEF HasUser

\* Results still follow their calls when something else is appended, or the
\* results of the calls that were last.
LEMMA FollowStays ==
    ASSUME NEW h \in Seq(Message), NEW r \in Request, ResultsFollow(h),
           NEW k \in {"user", "nudge", "halt", "calls", "results", "reply"},
           k # "results" \/ (Len(h) > 0 /\ h[Len(h)] = [turn |-> r, kind |-> "calls"])
    PROVE  ResultsFollow(h \o Msg(r, k))
<1> DEFINE g == h \o Msg(r, k)
<1>1. /\ Len(h) \in Nat /\ Len(g) = Len(h) + 1 /\ g[Len(h) + 1] = [turn |-> r, kind |-> k]
      /\ \A i \in 1..Len(h) : g[i] = h[i]
  BY ZenonT(30), OneMore
<1> HIDE DEF g
<1>2. ASSUME NEW i \in 1..Len(g), g[i].kind = "results"
      PROVE  i > 1 /\ g[i - 1].kind = "calls" /\ g[i - 1].turn = g[i].turn
  <2>1. CASE i \in 1..Len(h)
    <3>1. i > 1 /\ h[i - 1].kind = "calls" /\ h[i - 1].turn = h[i].turn
      BY <1>1, <1>2, <2>1 DEF ResultsFollow
    <3>2. i - 1 \in 1..Len(h)
      BY <1>1, <2>1, <3>1
    <3> QED BY <1>1, <2>1, <3>1, <3>2
  <2>2. CASE i = Len(h) + 1
    <3>1. k = "results" /\ Len(h) > 0 /\ h[Len(h)] = [turn |-> r, kind |-> "calls"]
      BY <1>1, <1>2, <2>2
    <3>2. Len(h) \in 1..Len(h) /\ i - 1 = Len(h)
      BY <1>1, <2>2, <3>1
    <3> QED BY <1>1, <2>2, <3>1, <3>2
  <2> QED BY <1>1, <2>1, <2>2
<1> QED BY <1>2 DEF ResultsFollow, g

\* What is open after an append was open before, or is what was appended.
LEMMA OpenStays ==
    ASSUME NEW h \in Seq(Message), NEW r \in Request,
           NEW k \in {"user", "nudge", "halt", "calls", "results", "reply"},
           NEW i \in 1..Len(h \o Msg(r, k)), Open(h \o Msg(r, k), i)
    PROVE  \/ /\ i \in 1..Len(h) /\ Open(h, i) /\ (h \o Msg(r, k))[i] = h[i]
              /\ i = Len(h) => k # "results" \/ r # h[i].turn
           \/ i = Len(h) + 1 /\ k = "calls"
<1> DEFINE g == h \o Msg(r, k)
<1>1. /\ Len(h) \in Nat /\ Len(g) = Len(h) + 1 /\ g[Len(h) + 1] = [turn |-> r, kind |-> k]
      /\ \A j \in 1..Len(h) : g[j] = h[j]
  BY ZenonT(30), OneMore
<1>0. \A j \in 1..Len(h) : h[j] \in Message
  OBVIOUS
<1> HIDE DEF g
<1>2. g[i].kind = "calls" /\ ~CallAnswered(g, i) /\ i \in 1..Len(g)
  BY DEF Open, g
<1>3. CASE i = Len(h) + 1
  BY <1>1, <1>2, <1>3
<1>4. CASE i # Len(h) + 1
  <2>0. i \in 1..Len(h)
    BY <1>1, <1>2, <1>4
  <2>1. g[i] = h[i] /\ h[i].kind = "calls" /\ h[i] \in Message
    BY <1>0, <1>1, <1>2, <2>0
  <2>2. ~CallAnswered(h, i)
    <3> SUFFICES ASSUME CallAnswered(h, i) PROVE FALSE
      OBVIOUS
    <3>1. i < Len(h) /\ h[i + 1] = [h[i] EXCEPT !.kind = "results"]
      BY DEF CallAnswered
    <3>2. i + 1 \in 1..Len(h) /\ i < Len(g)
      BY <1>1, <2>0, <3>1
    <3> QED BY <1>1, <1>2, <2>1, <3>1, <3>2 DEF CallAnswered
  <2>3. ASSUME i = Len(h), k = "results", r = h[i].turn PROVE FALSE
    <3>1. g[i + 1] = [turn |-> r, kind |-> "results"] /\ i < Len(g)
      BY <1>1, <2>3
    <3>2. [h[i] EXCEPT !.kind = "results"] = [turn |-> r, kind |-> "results"]
      BY <2>1, <2>3 DEF Message
    <3> QED BY <1>2, <2>1, <3>1, <3>2 DEF CallAnswered
  <2> QED BY <2>0, <2>1, <2>2, <2>3 DEF Open, g
<1> QED BY <1>3, <1>4

\* A neat history stays neat behind a user's message, a nudge or an answer.
LEMMA NeatPlain ==
    ASSUME NEW h \in Seq(Message), NEW C, NEW r \in Request, Neat(h, C),
           NEW k \in {"user", "nudge", "halt", "reply"}
    PROVE  Neat(h \o Msg(r, k), C)
<1>1. ResultsFollow(h \o Msg(r, k))
  BY FollowStays DEF Neat
<1>2. ASSUME NEW i \in 1..Len(h \o Msg(r, k)), Open(h \o Msg(r, k), i)
      PROVE  (h \o Msg(r, k))[i].turn \in C
  BY <1>2, OpenStays DEF Neat
<1> QED BY <1>1, <1>2 DEF Neat

\* Calls are appended when the tools start.
LEMMA NeatCalls ==
    ASSUME NEW h \in Seq(Message), NEW C, NEW r \in Request, Neat(h, C)
    PROVE  Loose(h \o Msg(r, "calls"), C, r)
<1> DEFINE g == h \o Msg(r, "calls")
<1>1. ResultsFollow(g)
  BY FollowStays DEF Neat
<1>0. Len(h) \in Nat /\ Len(g) = Len(h) + 1 /\ g[Len(h) + 1] = [turn |-> r, kind |-> "calls"]
  BY OneMore
<1>2. Len(g) > 0 /\ g[Len(g)] = [turn |-> r, kind |-> "calls"]
  BY <1>0
<1>3. ASSUME NEW i \in 1..Len(g), Open(g, i) PROVE g[i].turn \in C \/ i = Len(g)
  <2>1. \/ i \in 1..Len(h) /\ Open(h, i) /\ g[i] = h[i]
        \/ i = Len(h) + 1
    BY <1>3, OpenStays
  <2> QED BY <1>0, <2>1 DEF Neat
<1> QED BY <1>1, <1>2, <1>3 DEF Loose

\* Their results close them.
LEMMA LooseResults ==
    ASSUME NEW h \in Seq(Message), NEW C, NEW r \in Request, Loose(h, C, r)
    PROVE  Neat(h \o Msg(r, "results"), C)
<1> DEFINE g == h \o Msg(r, "results")
<1>1. ResultsFollow(g)
  BY FollowStays DEF Loose
<1> HIDE DEF g
<1>2. ASSUME NEW i \in 1..Len(g), Open(g, i) PROVE g[i].turn \in C
  <2>1. /\ i \in 1..Len(h) /\ Open(h, i) /\ g[i] = h[i]
        /\ i = Len(h) => r # h[i].turn
    BY <1>2, OpenStays DEF g
  <2>2. i # Len(h)
    BY <2>1 DEF Loose
  <2> QED BY <2>1, <2>2 DEF Loose
<1> QED BY <1>1, <1>2 DEF Neat, g

\* A turn cut short leaves its calls open, and is then one of those that may.
LEMMA LooseCut ==
    ASSUME NEW h \in Seq(Message), NEW C, NEW D, NEW r, Loose(h, C, r), C \subseteq D, r \in D
    PROVE  Neat(h, D)
BY DEF Loose, Neat

\* More turns may be cut short later.
LEMMA CutGrows ==
    ASSUME NEW h, NEW C, NEW D, C \subseteq D
    PROVE  /\ Neat(h, C) => Neat(h, D)
           /\ \A r : Loose(h, C, r) => Loose(h, D, r)
BY DEF Loose, Neat

------------------------------------------------------------------------------
(* The inductive invariant. *)

Working == {"starting"} \cup InScope
Cut     == {t \in Request : req[t].cut # "no"}
ReqType == [kind : {"chat", "resume"}, at : Stage, conv : Conv \cup {NoConv},
            obj : Object \cup {0}, stop : BOOLEAN, nudged : BOOLEAN,
            cut : {"no", "stop", "gone"}, rounds : 0..MaxRounds]
CacheType == [Conv -> Object \cup {0}]
HeapType  == [Object -> Seq(Message)]

Types ==
    /\ cached \in CacheType /\ heap \in HeapType /\ disk \in [Conv -> Seq(Message)]
    /\ active \subseteq Conv /\ stopEvent \in [Conv -> Request \cup {0}]
    /\ req \in [Request -> ReqType] /\ kept \subseteq Request

\* A conversation has one request in flight at most.
Sole == \A r, s \in Request :
    req[r].at \in InFlight /\ req[s].at \in InFlight /\ req[r].conv = req[s].conv => r = s

\* A history object belongs to one conversation, and a request that is about
\* to run a turn has the object the cache has, if the cache has any.
Owned ==
    /\ \A r \in Request : req[r].at = "unused" => req[r] = NoReq
    /\ \A c \in Conv : cached[c] # 0 => req[cached[c]].conv = c
    /\ \A r \in Request : req[r].at \in InFlight => req[r].conv \in Conv
    /\ \A r \in Request : req[r].at \in Working =>
          /\ req[r].obj \in Object /\ req[req[r].obj].conv = req[r].conv
          /\ cached[req[r].conv] \in {0, req[r].obj}
    /\ \A r \in Request : req[r].stop => req[r].at \in InScope

\* The registered stop event is that of the turn in scope.
Scoped ==
    /\ \A c \in Conv : stopEvent[c] # 0 =>
          req[stopEvent[c]].at \in InScope /\ req[stopEvent[c]].conv = c
    /\ \A r \in Request : req[r].at \in InScope => stopEvent[req[r].conv] = r
    /\ \A c \in Conv : c \in active <=> stopEvent[c] # 0

\* A turn that has ended is in the file, in the cached history and in the
\* history of whichever turn of the conversation runs next.
Kept ==
    /\ \A r \in Request : req[r].at \in InScope => HasUser(heap[req[r].obj], r)
    /\ \A t \in kept :
          /\ req[t].at \in {"closing", "done"} /\ req[t].conv \in Conv
          /\ HasUser(disk[req[t].conv], t)
          /\ cached[req[t].conv] # 0 => HasUser(heap[cached[req[t].conv]], t)
          /\ \A r \in Request : req[r].at \in Working /\ req[r].conv = req[t].conv =>
                HasUser(heap[req[r].obj], t)

\* Files and histories are neat, but for the calls of the tools that run.
AllNeat ==
    /\ \A c \in Conv : Neat(disk[c], Cut)
    /\ \A r \in Request : req[r].at = "tools" => Loose(heap[req[r].obj], Cut, r)
    /\ \A o \in Object : (\A r \in Request : req[r].at = "tools" => req[r].obj # o) =>
          Neat(heap[o], Cut)

TurnInv == Types /\ Sole /\ Owned /\ Scoped /\ Kept /\ AllNeat

\* At the start there is nothing.
LEMMA TurnsInit == Init => TurnInv
<1> SUFFICES ASSUME Init PROVE TurnInv
  OBVIOUS
<1> USE DEF Init, NoReq
<1>1. Types
  BY TurnsAssumption DEF Types, CacheType, HeapType, ReqType, Stage, NoFile, Request, Object
<1>2. Sole /\ Owned
  BY DEF Sole, Owned, InFlight, Working, InScope
<1>3. Scoped /\ Kept
  BY DEF Scoped, Kept, InScope, Working
<1>4. AllNeat
  BY DEF AllNeat, Neat, ResultsFollow, NoFile
<1> QED BY <1>1, <1>2, <1>3, <1>4 DEF TurnInv

------------------------------------------------------------------------------
(* Requests that arrive. *)

\* What an arriving request, or one that goes on evicting, changes.
Arrival(r, c) ==
    /\ UNCHANGED <<disk, active, stopEvent, kept>>
    /\ \/ req[r].at = "unused" /\ Waiting(c) = {}
       \/ req[r].at = "evicting" /\ req[r].conv = c
    /\ req' \in [Request -> ReqType] /\ cached' \in CacheType /\ heap' \in HeapType
    /\ req'[r].at \in {"evicting", "starting", "done"} /\ req'[r].conv = c
    /\ req'[r].cut = req[r].cut /\ req'[r].stop = FALSE
    /\ \A s \in Request : s # r => req'[s] = req[s]
    /\ \A o \in Object : o # r => heap'[o] = heap[o]
    /\ heap'[r] = heap[r] \/ (heap'[r] = disk[c] /\ req[r].at = "unused")
    /\ \A d \in Conv : \/ cached'[d] \in {0, cached[d]}
                       \/ d = c /\ cached'[d] = r /\ heap'[r] = disk[c] /\ req[r].at = "unused"
    /\ req'[r].at = "starting" => req'[r].obj = cached'[c] /\ cached'[c] # 0

\* What is left of a request that is over.
LEMMA EndedType ==
    ASSUME NEW q \in ReqType
    PROVE  /\ Ended(q) \in ReqType /\ Ended(q).at = "done" /\ Ended(q).conv = q.conv
           /\ Ended(q).cut = q.cut /\ Ended(q).stop = FALSE
<1> DEFINE k == [NoReq EXCEPT !.kind = q.kind]
           d == [k EXCEPT !.at = "done"]
           e == [d EXCEPT !.conv = q.conv]
<1>1. Ended(q) = [e EXCEPT !.cut = q.cut]
  BY DEF Ended
<1>2. NoReq \in ReqType /\ NoReq.stop = FALSE
  BY TurnsAssumption DEF NoReq, ReqType, Stage
<1>3. k \in ReqType /\ k.stop = FALSE
  BY <1>2 DEF ReqType
<1> HIDE DEF k
<1>4. d \in ReqType /\ d.stop = FALSE /\ d.at = "done"
  BY <1>3 DEF ReqType, Stage
<1> HIDE DEF d
<1>5. e \in ReqType /\ e.stop = FALSE /\ e.at = "done" /\ e.conv = q.conv
  BY <1>4 DEF ReqType
<1> HIDE DEF e
<1> QED BY <1>1, <1>5 DEF ReqType

\* What one test of the eviction loop does.
LEMMA EvictEffect ==
    ASSUME Types, NEW r \in Request, NEW q \in ReqType, q.conv \in Conv, NEW order,
           NEW objs \in CacheType, Evict(r, q, order, objs), ~q.stop
    PROVE  /\ cached' \in CacheType /\ \A d \in Conv : cached'[d] \in {0, objs[d]}
           /\ req' \in [Request -> ReqType] /\ \A s \in Request : s # r => req'[s] = req[s]
           /\ req'[r].at \in {"evicting", "starting", "done"} /\ req'[r].conv = q.conv
           /\ req'[r].cut = q.cut /\ req'[r].stop = FALSE
           /\ req'[r].at = "starting" => req'[r].obj = cached'[q.conv] /\ cached'[q.conv] # 0
<1>1. Ended(q) \in ReqType /\ Ended(q).at = "done" /\ Ended(q).conv = q.conv
      /\ Ended(q).cut = q.cut /\ Ended(q).stop = FALSE
  BY EndedType
<1>2. CASE Len(order) <= MaxCached \/ Evictable(order, q.conv) = {}
  <2>1. cached' = objs /\ req' = [req EXCEPT ![r] = Returned(q, objs)]
    BY <1>2 DEF Evict
  <2>2. \/ Returned(q, objs) = Ended(q)
        \/ Returned(q, objs) = [q EXCEPT !.at = "starting", !.obj = objs[q.conv]] /\ objs[q.conv] # 0
    BY DEF Returned
  <2>3. CASE Returned(q, objs) = Ended(q)
    BY <1>1, <2>1, <2>3 DEF Types
  <2>4. CASE Returned(q, objs) = [q EXCEPT !.at = "starting", !.obj = objs[q.conv]] /\ objs[q.conv] # 0
    <3> DEFINE p == [q EXCEPT !.at = "starting", !.obj = objs[q.conv]]
    <3>1. p \in ReqType /\ p.at = "starting" /\ p.conv = q.conv /\ p.cut = q.cut
          /\ p.stop = FALSE /\ p.obj = objs[q.conv]
      BY DEF ReqType, CacheType, Stage
    <3> HIDE DEF p
    <3>2. req' = [req EXCEPT ![r] = p]
      BY <2>1, <2>4 DEF p
    <3> QED BY <2>1, <2>4, <3>1, <3>2 DEF Types
  <2> QED BY <2>2, <2>3, <2>4
<1>3. CASE ~(Len(order) <= MaxCached \/ Evictable(order, q.conv) = {})
  <2> DEFINE p == [q EXCEPT !.at = "evicting"]
  <2>1. PICK k : cached' = [objs EXCEPT ![k] = 0]
    BY <1>3 DEF Evict
  <2>2. req' = [req EXCEPT ![r] = p]
    BY <1>3 DEF Evict
  <2>3. p \in ReqType /\ p.at = "evicting" /\ p.conv = q.conv /\ p.cut = q.cut /\ p.stop = FALSE
    BY DEF ReqType, Stage
  <2> HIDE DEF p
  <2>4. cached' \in CacheType /\ \A d \in Conv : cached'[d] \in {0, objs[d]}
    BY <2>1 DEF CacheType
  <2> QED BY <2>2, <2>3, <2>4 DEF Types
<1> QED BY <1>2, <1>3

\* Requests of patient clients, and of those that wait for an eviction, arrive.
LEMMA Arriving ==
    ASSUME Patient, Types, Owned, NEW r \in Request, NEW c \in Conv,
           ChatHit(r, c) \/ ChatMiss(r, c) \/ Resume(r, c)
    PROVE  Arrival(r, c)
<1>0. /\ req[r].at = "unused" /\ req[r] = NoReq /\ Waiting(c) = {}
      /\ UNCHANGED <<disk, active, stopEvent, kept>>
  BY DEF ChatHit, ChatMiss, Resume, Fresh, MayAsk, Owned, scope
<1>1. NoReq \in ReqType /\ NoReq.stop = FALSE /\ NoReq.cut = "no"
  BY TurnsAssumption DEF NoReq, ReqType, Stage
<1>2. CASE ChatHit(r, c)
  <2> DEFINE a == [NoReq EXCEPT !.at = "starting"]
             b == [a EXCEPT !.conv = c]
             q == [b EXCEPT !.obj = cached[c]]
  <2>1. /\ req' = [req EXCEPT ![r] = q] /\ cached[c] # 0 /\ UNCHANGED <<cached, heap>>
    BY <1>2 DEF ChatHit
  <2>2. a \in ReqType /\ a.stop = FALSE /\ a.cut = "no" /\ a.at = "starting"
    BY <1>1 DEF ReqType, Stage
  <2> HIDE DEF a
  <2>3. b \in ReqType /\ b.stop = FALSE /\ b.cut = "no" /\ b.at = "starting" /\ b.conv = c
    BY <2>2 DEF ReqType
  <2> HIDE DEF b
  <2>4. /\ q \in ReqType /\ q.stop = FALSE /\ q.cut = "no" /\ q.at = "starting" /\ q.conv = c
        /\ q.obj = cached[c]
    BY <2>3 DEF ReqType, Types, CacheType
  <2> HIDE DEF q
  <2> QED BY <1>0, <1>1, <2>1, <2>4 DEF Arrival, Types
<1>3. CASE ChatMiss(r, c) \/ Resume(r, c)
  <2>1. PICK q, order :
           /\ q \in ReqType /\ q.conv = c /\ ~q.stop /\ q.cut = "no"
           /\ Evict(r, q, order, [cached EXCEPT ![c] = r])
    <3> DEFINE a == [NoReq EXCEPT !.conv = c]
               b == [NoReq EXCEPT !.kind = "resume"]
               d == [b EXCEPT !.conv = c]
    <3>1. a \in ReqType /\ a.conv = c /\ ~a.stop /\ a.cut = "no"
      BY <1>1 DEF ReqType
    <3>2. b \in ReqType /\ ~b.stop /\ b.cut = "no"
      BY <1>1 DEF ReqType
    <3>3. d \in ReqType /\ d.conv = c /\ ~d.stop /\ d.cut = "no"
      <4> HIDE DEF b
      <4> QED BY <3>2 DEF ReqType
    <3>4. \/ Evict(r, a, Append(lru, c), [cached EXCEPT ![c] = r])
          \/ Evict(r, d, Moved(c), [cached EXCEPT ![c] = r])
      BY <1>3 DEF ChatMiss, Resume
    <3> HIDE DEF a, d
    <3> QED BY <3>1, <3>3, <3>4
  <2> DEFINE objs == [cached EXCEPT ![c] = r]
  <2>2. /\ objs \in CacheType /\ objs[c] = r /\ \A d \in Conv : d # c => objs[d] = cached[d]
    BY DEF Types, CacheType, Object
  <2>3. heap' = [heap EXCEPT ![r] = disk[c]]
    BY <1>3 DEF ChatMiss, Resume, Hydrated
  <2>4. /\ heap' \in HeapType /\ heap'[r] = disk[c] /\ \A o \in Object : o # r => heap'[o] = heap[o]
    BY <2>3 DEF Types, HeapType, Object
  <2> HIDE DEF objs
  <2>5. Evict(r, q, order, objs)
    BY <2>1 DEF objs
  <2>6. /\ cached' \in CacheType /\ \A d \in Conv : cached'[d] \in {0, objs[d]}
        /\ req' \in [Request -> ReqType] /\ \A s \in Request : s # r => req'[s] = req[s]
        /\ req'[r].at \in {"evicting", "starting", "done"} /\ req'[r].conv = c
        /\ req'[r].cut = "no" /\ req'[r].stop = FALSE
        /\ req'[r].at = "starting" => req'[r].obj = cached'[c] /\ cached'[c] # 0
    BY <2>1, <2>2, <2>5, EvictEffect
  <2> QED BY <1>0, <1>1, <2>2, <2>4, <2>6 DEF Arrival
<1> QED BY <1>2, <1>3

\* A request that waits for the eviction of another turn's history arrives later.
LEMMA ArrivingLate ==
    ASSUME Types, Owned, NEW r \in Request, EvictMore(r)
    PROVE  req[r].conv \in Conv /\ Arrival(r, req[r].conv)
<1> DEFINE c == req[r].conv
<1>1. /\ req[r] \in ReqType /\ req[r].at = "evicting" /\ c \in Conv /\ ~req[r].stop
      /\ cached \in CacheType
  BY DEF EvictMore, Types, Owned, InFlight, InScope
<1>2. Evict(r, req[r], lru, cached) /\ UNCHANGED <<disk, active, stopEvent, kept, heap>>
  BY DEF EvictMore, scope
<1>3. /\ cached' \in CacheType /\ \A d \in Conv : cached'[d] \in {0, cached[d]}
      /\ req' \in [Request -> ReqType] /\ \A s \in Request : s # r => req'[s] = req[s]
      /\ req'[r].at \in {"evicting", "starting", "done"} /\ req'[r].conv = c
      /\ req'[r].cut = req[r].cut /\ req'[r].stop = FALSE
      /\ req'[r].at = "starting" => req'[r].obj = cached'[c] /\ cached'[c] # 0
  BY <1>1, <1>2, EvictEffect
<1> QED BY <1>1, <1>2, <1>3 DEF Arrival, Types

\* An arrival keeps the invariant.
LEMMA ArrivalKeeps ==
    ASSUME TurnInv, NEW r \in Request, NEW c \in Conv, Arrival(r, c) PROVE TurnInv'
<1> USE NoConvAssumption
<1> USE DEF Object
<1>0. Types /\ Sole /\ Owned /\ Scoped /\ Kept /\ AllNeat
  BY DEF TurnInv
<1>1. /\ req[r].at \in {"unused", "evicting"} /\ req'[r].at \in {"evicting", "starting", "done"}
      /\ req'[r].conv = c /\ req'[r].cut = req[r].cut /\ req'[r].stop = FALSE
      /\ \A s \in Request : s # r => req'[s] = req[s]
      /\ req'[r].at = "starting" => req'[r].obj = cached'[c] /\ cached'[c] # 0
      /\ UNCHANGED <<disk, active, stopEvent, kept>>
      /\ \A o \in Object : o # r => heap'[o] = heap[o]
      /\ heap'[r] = heap[r] \/ (heap'[r] = disk[c] /\ req[r].at = "unused")
      /\ \A d \in Conv : \/ cached'[d] \in {0, cached[d]}
                         \/ d = c /\ cached'[d] = r /\ heap'[r] = disk[c] /\ req[r].at = "unused"
      /\ cached' \in CacheType
  BY DEF Arrival
<1>2. Types'
  BY <1>0, <1>1 DEF Types, Arrival
<1>3. \A s \in Request : req[s].at \in InFlight /\ req[s].conv = c => s = r
  BY <1>0 DEF Arrival, Waiting, Sole, InFlight
<1>4. Sole'
  BY <1>0, <1>1, <1>3 DEF Sole, InFlight, InScope
\* nobody holds the object that r makes, and its conversation does not change
<1>5. /\ \A d \in Conv : cached[d] = r => req[r].at = "evicting" /\ d = c
      /\ \A s \in Request : req[s].at \in Working /\ req[s].obj = r => req[r].at = "evicting"
      /\ \A s \in Request : req[s].at \in Working => s # r
  <2>1. r # 0
    BY DEF Request
  <2>2. req[r].at = "unused" => req[r].conv = NoConv
    BY <1>0 DEF Owned, NoReq
  <2>3. req[r].at = "evicting" => req[r].conv = c
    BY DEF Arrival
  <2>4. ASSUME NEW d \in Conv, cached[d] = r PROVE req[r].at = "evicting" /\ d = c
    BY <1>0, <1>1, <2>1, <2>2, <2>3, <2>4 DEF Owned
  <2>5. ASSUME NEW s \in Request, req[s].at \in Working, req[s].obj = r PROVE req[r].at = "evicting"
    <3>1. req[s].conv \in Conv /\ req[r].conv = req[s].conv
      BY <1>0, <2>5 DEF Owned, Working, InFlight
    <3> QED BY <1>1, <2>2, <3>1
  <2>6. \A s \in Request : req[s].at \in Working => s # r
    BY <1>1 DEF Working, InScope
  <2> QED BY <2>4, <2>5, <2>6
<1>6. \A o \in Object : req[o].conv \in Conv => req'[o].conv = req[o].conv
  BY <1>0, <1>1 DEF Owned, NoReq, Arrival
<1>7. Owned'
  <2>1. \A s \in Request : req'[s].at = "unused" => req'[s] = NoReq
    BY <1>0, <1>1 DEF Owned
  <2>2. \A d \in Conv : cached'[d] # 0 => req'[cached'[d]].conv = d
    BY <1>0, <1>1, <1>6 DEF Owned, Types, CacheType
  <2>3. \A s \in Request : req'[s].at \in InFlight => req'[s].conv \in Conv
    BY <1>0, <1>1 DEF Owned
  <2>4. \A s \in Request : req'[s].stop => req'[s].at \in InScope
    BY <1>0, <1>1 DEF Owned
  <2>5. ASSUME NEW s \in Request, req'[s].at \in Working
        PROVE  /\ req'[s].obj \in Object /\ req'[req'[s].obj].conv = req'[s].conv
               /\ cached'[req'[s].conv] \in {0, req'[s].obj}
    <3>1. CASE s = r
      <4>1. req'[r].at = "starting" /\ req'[r].obj = cached'[c] /\ cached'[c] # 0
        BY <1>1, <2>5, <3>1 DEF Working, InScope
      <4> QED BY <1>1, <2>2, <3>1, <4>1 DEF CacheType
    <3>2. CASE s # r
      <4>1. req'[s] = req[s] /\ req[s].conv # c /\ req[s].conv \in Conv /\ req[s].at \in Working
        BY <1>0, <1>1, <1>3, <2>5, <3>2 DEF Owned, Working, InFlight
      <4> QED BY <1>0, <1>1, <1>6, <4>1 DEF Owned
    <3> QED BY <3>1, <3>2
  <2> QED BY <2>1, <2>2, <2>3, <2>4, <2>5 DEF Owned
<1>8. Scoped'
  <2>1. \A s \in Request : req[s].at \in InScope \/ req'[s].at \in InScope => s # r
    BY <1>1 DEF InScope
  <2>2. \A d \in Conv : stopEvent[d] # 0 => stopEvent[d] \in Request
    BY <1>0 DEF Types
  <2> QED BY <1>0, <1>1, <2>1, <2>2 DEF Scoped
<1>9. Kept'
  <2>1. ASSUME NEW s \in Request, req'[s].at \in InScope PROVE HasUser(heap'[req'[s].obj], s)
    <3>1. s # r /\ req'[s] = req[s] /\ req[s].at \in Working /\ req[s].obj \in Object
      BY <1>0, <1>1, <2>1 DEF InScope, Working, Owned
    <3>2. heap'[req[s].obj] = heap[req[s].obj]
      BY <1>1, <1>5, <3>1
    <3> QED BY <1>0, <2>1, <3>1, <3>2 DEF Kept
  <2>2. ASSUME NEW t \in kept
        PROVE  /\ req'[t].at \in {"closing", "done"} /\ req'[t].conv \in Conv
               /\ HasUser(disk'[req'[t].conv], t)
               /\ cached'[req'[t].conv] # 0 => HasUser(heap'[cached'[req'[t].conv]], t)
               /\ \A s \in Request : req'[s].at \in Working /\ req'[s].conv = req'[t].conv =>
                     HasUser(heap'[req'[s].obj], t)
    <3>1. /\ t # r /\ t \in Request /\ req'[t] = req[t] /\ req[t].conv \in Conv
          /\ req[t].at \in {"closing", "done"} /\ HasUser(disk[req[t].conv], t)
          /\ cached[req[t].conv] # 0 => HasUser(heap[cached[req[t].conv]], t)
      BY <1>0, <1>1 DEF Kept, Types
    <3>2. \A d \in Conv : cached'[d] # 0 /\ cached'[d] = cached[d] => heap'[cached'[d]] = heap[cached[d]]
      BY <1>0, <1>1, <1>5, SMTT(20) DEF Types, CacheType
    <3>3. cached'[req[t].conv] # 0 => HasUser(heap'[cached'[req[t].conv]], t)
      <4>1. CASE cached'[req[t].conv] \in {0, cached[req[t].conv]}
        BY <3>1, <3>2, <4>1
      <4>2. CASE req[t].conv = c /\ cached'[c] = r /\ heap'[r] = disk[c]
        BY <3>1, <4>2
      <4> QED BY <1>1, <3>1, <4>1, <4>2
    <3>4. ASSUME NEW s \in Request, req'[s].at \in Working, req'[s].conv = req[t].conv
          PROVE  HasUser(heap'[req'[s].obj], t)
      <4>1. CASE s = r
        BY <1>1, <3>3, <3>4, <4>1 DEF Working, InScope
      <4>2. CASE s # r
        <5>1. req'[s] = req[s] /\ req[s].obj \in Object
          BY <1>0, <1>1, <3>4, <4>2 DEF Owned
        <5>2. heap'[req[s].obj] = heap[req[s].obj]
          BY <1>1, <1>5, <3>4, <5>1
        <5> QED BY <1>0, <3>4, <5>1, <5>2 DEF Kept
      <4> QED BY <4>1, <4>2
    <3> QED BY <1>1, <3>1, <3>3, <3>4
  <2> QED BY <1>1, <2>1, <2>2 DEF Kept
<1>10. AllNeat'
  <2>1. Cut' = Cut
    BY <1>1 DEF Cut
  <2>2. ASSUME NEW s \in Request, req'[s].at = "tools"
        PROVE  /\ s # r /\ req[s].at = "tools" /\ req'[s] = req[s] /\ req[s].obj \in Object
               /\ heap'[req[s].obj] = heap[req[s].obj]
    BY <1>0, <1>1, <1>5, <2>2 DEF Owned, Working, InScope
  <2>3. \A s \in Request : req[s].at = "tools" => req'[s] = req[s]
    BY <1>1
  <2>4. ASSUME NEW o \in Object, \A s \in Request : req'[s].at = "tools" => req'[s].obj # o
        PROVE  Neat(heap'[o], Cut)
    <3>1. Neat(heap[o], Cut)
      BY <1>0, <2>3, <2>4 DEF AllNeat
    <3> QED BY <1>0, <1>1, <3>1 DEF AllNeat
  <2> QED BY <1>0, <1>1, <2>1, <2>2, <2>4 DEF AllNeat
<1> QED BY <1>2, <1>4, <1>7, <1>8, <1>9, <1>10 DEF TurnInv

------------------------------------------------------------------------------
(* Turns. *)

\* What a step of a turn changes: its record, its history, and, when it ends
\* its run_turn, the file.
Progress(r) ==
    /\ cached' = cached /\ req[r].at \in {"starting", "model", "tools"}
    /\ req' \in [Request -> ReqType] /\ heap' \in HeapType
    /\ \A s \in Request : s # r => req'[s] = req[s]
    /\ req'[r].at \in InScope /\ req'[r].conv = req[r].conv /\ req'[r].obj = req[r].obj
    /\ req'[r].cut = req[r].cut \/ req'[r].cut # "no"
    /\ \A o \in Object : o # req[r].obj => heap'[o] = heap[o]
    /\ \A t : HasUser(heap[req[r].obj], t) => HasUser(heap'[req[r].obj], t)
    /\ HasUser(heap'[req[r].obj], r)
    /\ IF req'[r].at = "tools" THEN Loose(heap'[req[r].obj], Cut', r)
       ELSE Neat(heap'[req[r].obj], Cut')
    /\ \/ UNCHANGED <<disk, kept>>
       \/ /\ disk' = [disk EXCEPT ![req[r].conv] = heap'[req[r].obj]]
          /\ kept' = kept \cup {r} /\ req'[r].at = "closing"
    /\ \/ UNCHANGED <<active, stopEvent>> /\ req[r].at \in InScope
       \/ /\ active' = active \cup {req[r].conv}
          /\ stopEvent' = [stopEvent EXCEPT ![req[r].conv] = r]

\* Turns of different conversations have different histories, and no other
\* conversation has this one's in the cache.
LEMMA OwnHistory ==
    ASSUME Sole, Owned, NEW r \in Request, req[r].at \in Working
    PROVE  /\ \A s \in Request : s # r /\ req[s].at \in Working =>
                 req[s].conv # req[r].conv /\ req[s].obj # req[r].obj
           /\ \A d \in Conv : d # req[r].conv => cached[d] # req[r].obj
           /\ req[r].obj # 0 /\ req[r].obj \in Object /\ req[r].conv \in Conv
BY DEF Sole, Owned, Working, InFlight, Object, Request

\* A request that gets on without writing to a history keeps the invariant.
LEMMA ProgressKeeps ==
    ASSUME TurnInv, NEW r \in Request, Progress(r) PROVE TurnInv'
<1> DEFINE o == req[r].obj
           c == req[r].conv
<1>0. Types /\ Sole /\ Owned /\ Scoped /\ Kept /\ AllNeat
  BY DEF TurnInv
<1>1. /\ req[r].at \in Working /\ req[r].at \in InFlight
      /\ req'[r].at \in Working /\ req'[r].at \in InFlight /\ req'[r].at # "unused"
  BY DEF Progress, Working, InFlight, InScope
<1>2. /\ \A s \in Request : s # r /\ req[s].at \in Working => req[s].conv # c /\ req[s].obj # o
      /\ \A d \in Conv : d # c => cached[d] # o
      /\ o # 0 /\ o \in Object /\ c \in Conv /\ cached[c] \in {0, o}
  BY <1>0, <1>1, OwnHistory DEF Owned
<1>3. /\ cached' = cached /\ \A s \in Request : s # r => req'[s] = req[s]
      /\ req'[r].conv = c /\ req'[r].obj = o
      /\ \A p \in Object : p # o => heap'[p] = heap[p]
  BY DEF Progress
<1>4. heap'[o] \in Seq(Message)
  BY <1>2 DEF Progress, HeapType
<1>5. Types'
  <2>1. disk' \in [Conv -> Seq(Message)] /\ kept' \subseteq Request
    BY <1>0, <1>2, <1>4 DEF Types, Progress
  <2>2. active' \subseteq Conv /\ stopEvent' \in [Conv -> Request \cup {0}]
    BY <1>0, <1>2 DEF Types, Progress
  <2> QED BY <1>0, <1>3, <2>1, <2>2 DEF Types, Progress
<1>6. Sole'
  BY <1>0, <1>1, <1>3 DEF Sole
<1>7. Owned'
  <2>1. \A s \in Request : req'[s].conv = req[s].conv
    BY <1>3
  <2>2. \A s \in Request : req'[s].stop => req'[s].at \in InScope
    BY <1>0, <1>3 DEF Owned, Progress
  <2>3. \A s \in Request : req'[s].at = "unused" => req'[s] = NoReq
    BY <1>0, <1>1, <1>3 DEF Owned
  <2>4. \A d \in Conv : cached[d] # 0 => req'[cached[d]].conv = d
    BY <1>0, <2>1 DEF Owned, Types, CacheType, Object
  <2>5. \A s \in Request : req'[s].at \in InFlight => req'[s].conv \in Conv
    BY <1>0, <1>2, <1>3 DEF Owned
  <2>6. ASSUME NEW s \in Request, req'[s].at \in Working
        PROVE  /\ req'[s].obj \in Object /\ req'[req'[s].obj].conv = req'[s].conv
               /\ cached[req'[s].conv] \in {0, req'[s].obj}
    <3>1. req[s].at \in Working /\ req'[s].obj = req[s].obj
      BY <1>1, <1>3, <2>6
    <3> QED BY <1>0, <2>1, <3>1 DEF Owned, Object
  <2> QED BY <1>3, <2>2, <2>3, <2>4, <2>5, <2>6 DEF Owned
<1>8. Scoped'
  <2>1. CASE UNCHANGED <<active, stopEvent>> /\ req[r].at \in InScope
    <3>1. \A s \in Request : req'[s].at \in InScope => req[s].at \in InScope /\ req'[s].conv = req[s].conv
      BY <1>3, <2>1
    <3>2. \A s \in Request : req[s].at \in InScope => req'[s].at \in InScope
      BY <1>3 DEF Progress
    <3>3. \A d \in Conv : stopEvent[d] # 0 => stopEvent[d] \in Request
      BY <1>0 DEF Types
    <3> QED BY <1>0, <2>1, <3>1, <3>2, <3>3 DEF Scoped
  <2>2. CASE /\ active' = active \cup {c}
             /\ stopEvent' = [stopEvent EXCEPT ![c] = r]
    <3>1. stopEvent'[c] = r /\ \A d \in Conv : d # c => stopEvent'[d] = stopEvent[d]
      BY <1>0, <1>2, <2>2 DEF Types
    <3>2. r # 0
      BY DEF Request
    <3>3. \A d \in Conv : stopEvent[d] # 0 /\ d # c => stopEvent[d] \in Request /\ stopEvent[d] # r
      BY <1>0 DEF Types, Scoped
    <3>4. req'[r].at \in InScope
      BY DEF Progress
    <3>5. \A d \in Conv : stopEvent'[d] # 0 => req'[stopEvent'[d]].at \in InScope /\ req'[stopEvent'[d]].conv = d
      BY <1>0, <1>3, <3>1, <3>3, <3>4 DEF Scoped
    <3>6. ASSUME NEW s \in Request, req'[s].at \in InScope PROVE stopEvent'[req'[s].conv] = s
      <4>1. CASE s = r
        BY <1>3, <3>1, <4>1
      <4>2. CASE s # r
        <5>1. req'[s] = req[s] /\ req[s].conv # c /\ req[s].conv \in Conv
          BY <1>0, <1>2, <1>3, <3>6, <4>2 DEF Working, Owned, InFlight
        <5> QED BY <1>0, <3>1, <3>6, <5>1 DEF Scoped
      <4> QED BY <4>1, <4>2
    <3>7. \A d \in Conv : d \in active' <=> stopEvent'[d] # 0
      BY <1>0, <2>2, <3>1, <3>2 DEF Scoped
    <3> QED BY <3>5, <3>6, <3>7 DEF Scoped
  <2> QED BY <2>1, <2>2 DEF Progress
<1>9. Kept'
  <2>1. /\ \A t : HasUser(heap[o], t) => HasUser(heap'[o], t)
        /\ HasUser(heap'[o], r)
    BY DEF Progress
  <2>2. ASSUME NEW s \in Request, req'[s].at \in InScope PROVE HasUser(heap'[req'[s].obj], s)
    <3>1. CASE s = r
      BY <1>3, <2>1, <3>1
    <3>2. CASE s # r
      <4>1. req'[s] = req[s] /\ req[s].obj # o /\ req[s].obj \in Object
        BY <1>0, <1>2, <1>3, <2>2, <3>2 DEF Working, Owned
      <4> QED BY <1>0, <1>3, <2>2, <4>1 DEF Kept
    <3> QED BY <3>1, <3>2
  <2>3. ASSUME NEW t \in kept'
        PROVE  /\ req'[t].at \in {"closing", "done"} /\ req'[t].conv \in Conv
               /\ HasUser(disk'[req'[t].conv], t)
               /\ cached'[req'[t].conv] # 0 => HasUser(heap'[cached'[req'[t].conv]], t)
               /\ \A s \in Request : req'[s].at \in Working /\ req'[s].conv = req'[t].conv =>
                     HasUser(heap'[req'[s].obj], t)
    <3>1. CASE t = r /\ r \notin kept
      <4>1. disk' = [disk EXCEPT ![c] = heap'[o]] /\ req'[r].at = "closing"
        BY <2>3, <3>1 DEF Progress
      <4>2. disk'[c] = heap'[o]
        BY <1>0, <1>2, <4>1 DEF Types
      <4>3. \A s \in Request : req'[s].at \in Working /\ req'[s].conv = c => s = r
        BY <1>2, <1>3
      <4> QED BY <1>2, <1>3, <2>1, <3>1, <4>1, <4>2, <4>3
    <3>2. CASE t \in kept
      <4> DEFINE d == req[t].conv
      <4>1. /\ t \in Request /\ t # r /\ req'[t] = req[t] /\ d \in Conv
            /\ req[t].at \in {"closing", "done"} /\ HasUser(disk[d], t)
            /\ cached[d] # 0 => HasUser(heap[cached[d]], t)
            /\ \A s \in Request : req[s].at \in Working /\ req[s].conv = d => HasUser(heap[req[s].obj], t)
        BY <1>0, <1>3, <3>2 DEF Kept, Types, Progress
      <4>2. HasUser(disk'[d], t)
        <5>1. CASE d = c
          <6>1. HasUser(heap'[o], t)
            BY <1>1, <2>1, <4>1, <5>1
          <6>2. disk'[d] = disk[d] \/ disk'[d] = heap'[o]
            BY <1>0, <4>1, <5>1 DEF Types, Progress
          <6> QED BY <4>1, <6>1, <6>2
        <5>2. CASE d # c
          <6>1. disk'[d] = disk[d]
            BY <1>0, <4>1, <5>2 DEF Types, Progress
          <6> QED BY <4>1, <6>1
        <5> QED BY <5>1, <5>2
      <4>3. \A p \in Object : HasUser(heap[p], t) => HasUser(heap'[p], t)
        BY <1>3, <2>1
      <4>4. cached[d] # 0 => HasUser(heap'[cached[d]], t)
        BY <1>0, <4>1, <4>3 DEF Types, CacheType
      <4>5. \A s \in Request : req'[s].at \in Working /\ req'[s].conv = d => HasUser(heap'[req'[s].obj], t)
        BY <1>0, <1>1, <1>3, <4>1, <4>3 DEF Owned
      <4> QED BY <1>3, <4>1, <4>2, <4>4, <4>5
    <3> QED BY <2>3, <3>1, <3>2 DEF Progress
  <2> QED BY <2>2, <2>3 DEF Kept
<1>10. AllNeat'
  <2>1. Cut \subseteq Cut'
    BY <1>3 DEF Cut, Progress
  <2>2. \A h : /\ Neat(h, Cut) => Neat(h, Cut')
               /\ \A s : Loose(h, Cut, s) => Loose(h, Cut', s)
    BY <2>1, CutGrows
  <2>3. IF req'[r].at = "tools" THEN Loose(heap'[o], Cut', r) ELSE Neat(heap'[o], Cut')
    BY DEF Progress
  <2>4. ASSUME NEW d \in Conv PROVE Neat(disk'[d], Cut')
    <3>1. disk'[d] = disk[d] \/ (disk'[d] = heap'[o] /\ req'[r].at = "closing")
      BY <1>0, <1>2 DEF Types, Progress
    <3> QED BY <1>0, <2>2, <2>3, <3>1 DEF AllNeat
  <2>5. ASSUME NEW s \in Request, req'[s].at = "tools" PROVE Loose(heap'[req'[s].obj], Cut', s)
    <3>1. CASE s = r
      BY <1>3, <2>3, <2>5, <3>1
    <3>2. CASE s # r
      <4>1. req'[s] = req[s] /\ req[s].at = "tools" /\ req[s].obj # o /\ req[s].obj \in Object
        BY <1>0, <1>2, <1>3, <2>5, <3>2 DEF Working, InScope, Owned
      <4> QED BY <1>0, <1>3, <2>2, <4>1 DEF AllNeat
    <3> QED BY <3>1, <3>2
  <2>6. ASSUME NEW p \in Object, \A s \in Request : req'[s].at = "tools" => req'[s].obj # p
        PROVE  Neat(heap'[p], Cut')
    <3>1. CASE p = o
      BY <1>3, <2>3, <2>6, <3>1
    <3>2. CASE p # o
      <4>1. \A s \in Request : req[s].at = "tools" => req[s].obj # p
        BY <1>3, <2>6, <3>2
      <4> QED BY <1>0, <1>3, <2>2, <3>2, <4>1 DEF AllNeat
    <3> QED BY <3>1, <3>2
  <2> QED BY <2>4, <2>5, <2>6 DEF AllNeat
<1> QED BY <1>5, <1>6, <1>7, <1>8, <1>9, <1>10 DEF TurnInv

\* A message or two are appended to the history a turn writes to.
LEMMA Writing ==
    ASSUME TurnInv, NEW r \in Request, req[r].at \in Working, NEW m \in Seq(Message), Wrote(r, m)
    PROVE  /\ heap' \in HeapType /\ req[r].obj \in Object /\ heap[req[r].obj] \in Seq(Message)
           /\ heap'[req[r].obj] = heap[req[r].obj] \o m
           /\ \A o \in Object : o # req[r].obj => heap'[o] = heap[o]
           /\ \A t : HasUser(heap[req[r].obj], t) => HasUser(heap'[req[r].obj], t)
           /\ req[r].at # "tools" => Neat(heap[req[r].obj], Cut)
           /\ req[r].at = "tools" => Loose(heap[req[r].obj], Cut, r)
           /\ req[r].at \in InScope => HasUser(heap[req[r].obj], r)
           /\ req[r] \in ReqType /\ req[r].conv \in Conv
<1> DEFINE o == req[r].obj
<1>1. o \in Object /\ heap[o] \in Seq(Message) /\ req[r].conv \in Conv /\ req[r] \in ReqType
  BY DEF TurnInv, Types, HeapType, Owned, Working, InFlight
<1>2. heap' = [heap EXCEPT ![o] = heap[o] \o m]
  BY DEF Wrote
<1>3. heap[o] \o m \in Seq(Message)
  BY <1>1
<1> HIDE DEF o
<1>4. heap' \in HeapType /\ heap'[o] = heap[o] \o m /\ \A p \in Object : p # o => heap'[p] = heap[p]
  BY <1>1, <1>2, <1>3 DEF TurnInv, Types, HeapType
<1>5. \A t : HasUser(heap[o], t) => HasUser(heap'[o], t)
  BY <1>1, <1>4, UserStays
<1>6. ASSUME req[r].at # "tools" PROVE Neat(heap[o], Cut)
  <2>1. \A s \in Request : req[s].at = "tools" => req[s].obj # o
    BY <1>6, OwnHistory DEF TurnInv, Working, InScope, o
  <2> QED BY <1>1, <2>1 DEF TurnInv, AllNeat
<1>7. /\ req[r].at = "tools" => Loose(heap[o], Cut, r)
      /\ req[r].at \in InScope => HasUser(heap[o], r)
  BY DEF TurnInv, AllNeat, Kept, o
<1> QED BY <1>1, <1>4, <1>5, <1>6, <1>7 DEF o

\* turn_scope is entered: the user's message is appended and saved.
LEMMA BeginTurnKeeps ==
    ASSUME TurnInv, NEW r \in Request, BeginTurn(r) PROVE TurnInv'
<1> DEFINE o == req[r].obj
<1>1. req[r].at \in Working /\ req[r].at = "starting" /\ Wrote(r, Msg(r, "user"))
  BY DEF BeginTurn, Working
<1>2. Msg(r, "user") \in Seq(Message)
  BY DEF Msg, Message
<1>3. req' = [req EXCEPT ![r] = [req[r] EXCEPT !.at = "model"]]
  BY DEF BeginTurn, TurnInv, Types
<1>4. /\ heap' \in HeapType /\ o \in Object /\ heap[o] \in Seq(Message)
      /\ heap'[o] = heap[o] \o Msg(r, "user")
      /\ \A p \in Object : p # o => heap'[p] = heap[p]
      /\ \A t : HasUser(heap[o], t) => HasUser(heap'[o], t)
      /\ Neat(heap[o], Cut)
  BY <1>1, <1>2, Writing
<1>5. /\ req' \in [Request -> ReqType] /\ \A s \in Request : s # r => req'[s] = req[s]
      /\ req'[r].at = "model" /\ req'[r].conv = req[r].conv /\ req'[r].obj = o
      /\ req'[r].cut = req[r].cut
  BY <1>3, ZenonT(30) DEF TurnInv, Types, ReqType, Stage
<1>6. Neat(heap'[o], Cut')
  <2>1. Cut' = Cut
    BY <1>5 DEF Cut
  <2> QED BY <1>4, <2>1, NeatPlain
<1>7. HasUser(heap'[o], r)
  <2>1. Len(heap'[o]) = Len(heap[o]) + 1 /\ Len(heap[o]) \in Nat
        /\ heap'[o][Len(heap[o]) + 1] = [turn |-> r, kind |-> "user"]
    <3> DEFINE h == heap[o]
    <3>1. h \in Seq(Message)
      BY <1>4
    <3> HIDE DEF h
    <3>2. /\ Len(h) \in Nat /\ Len(h \o Msg(r, "user")) = Len(h) + 1
          /\ (h \o Msg(r, "user"))[Len(h) + 1] = [turn |-> r, kind |-> "user"]
      BY <3>1, OneMore
    <3> QED BY <1>4, <3>2 DEF h
  <2>2. Len(heap[o]) + 1 \in 1..Len(heap'[o])
    BY <2>1
  <2> QED BY <2>1, <2>2 DEF HasUser
<1>8. Progress(r)
  BY <1>1, <1>4, <1>5, <1>6, <1>7 DEF Progress, BeginTurn, InScope, cache
<1> QED BY <1>8, ProgressKeeps

\* The model's answer is appended.
LEMMA AnswerKeeps ==
    ASSUME TurnInv, NEW r \in Request, Answer(r) PROVE TurnInv'
<1> DEFINE o == req[r].obj
           k == IF req[r].stop THEN "halt" ELSE "reply"
<1>1. req[r].at \in Working /\ req[r].at = "model" /\ Wrote(r, Msg(r, k)) /\ Saved(r, Msg(r, k))
  BY DEF Answer, Working, InScope, Saved
<1>2. Msg(r, k) \in Seq(Message)
  BY DEF Msg, Message
<1>3. req' = [req EXCEPT ![r] = [req[r] EXCEPT !.at = "closing"]]
  BY DEF Answer, TurnInv, Types
<1>4. /\ heap' \in HeapType /\ o \in Object /\ heap[o] \in Seq(Message)
      /\ heap'[o] = heap[o] \o Msg(r, k)
      /\ \A p \in Object : p # o => heap'[p] = heap[p]
      /\ \A t : HasUser(heap[o], t) => HasUser(heap'[o], t)
      /\ Neat(heap[o], Cut) /\ HasUser(heap[o], r)
  <2>1. req[r].at # "tools" /\ req[r].at \in InScope
    BY <1>1 DEF InScope
  <2> QED BY <1>1, <1>2, <2>1, Writing
<1>5. /\ req' \in [Request -> ReqType] /\ \A s \in Request : s # r => req'[s] = req[s]
      /\ req'[r].at = "closing" /\ req'[r].conv = req[r].conv /\ req'[r].obj = o
      /\ req'[r].cut = req[r].cut
  BY <1>3, ZenonT(30) DEF TurnInv, Types, ReqType, Stage
<1>6. Neat(heap'[o], Cut')
  <2>1. Cut' = Cut
    BY <1>5 DEF Cut
  <2> QED BY <1>4, <2>1, NeatPlain
<1>7. Progress(r)
  BY <1>1, <1>4, <1>5, <1>6 DEF Progress, Answer, Saved, InScope, cache, scope
<1> QED BY <1>7, ProgressKeeps

\* The model's calls are appended; the tools run next.
LEMMA CallToolsKeeps ==
    ASSUME TurnInv, NEW r \in Request, CallTools(r) PROVE TurnInv'
<1> DEFINE o == req[r].obj
<1>1. req[r].at \in Working /\ req[r].at = "model" /\ Wrote(r, Msg(r, "calls"))
  BY DEF CallTools, Working, InScope
<1>2. Msg(r, "calls") \in Seq(Message)
  BY DEF Msg, Message
<1>3. req' = [req EXCEPT ![r] = [[req[r] EXCEPT !.at = "tools"] EXCEPT !.rounds = req[r].rounds + 1]]
      /\ req[r].rounds + 1 \in 0..MaxRounds
  BY TurnsAssumption DEF CallTools, TurnInv, Types, ReqType
<1>4. /\ heap' \in HeapType /\ o \in Object /\ heap[o] \in Seq(Message)
      /\ heap'[o] = heap[o] \o Msg(r, "calls")
      /\ \A p \in Object : p # o => heap'[p] = heap[p]
      /\ \A t : HasUser(heap[o], t) => HasUser(heap'[o], t)
      /\ Neat(heap[o], Cut) /\ HasUser(heap[o], r)
  <2>1. req[r].at # "tools" /\ req[r].at \in InScope
    BY <1>1 DEF InScope
  <2> QED BY <1>1, <1>2, <2>1, Writing
<1>5. /\ req' \in [Request -> ReqType] /\ \A s \in Request : s # r => req'[s] = req[s]
      /\ req'[r].at = "tools" /\ req'[r].conv = req[r].conv /\ req'[r].obj = o
      /\ req'[r].cut = req[r].cut
  <2> DEFINE a == [req[r] EXCEPT !.at = "tools"]
             q == [a EXCEPT !.rounds = req[r].rounds + 1]
  <2>1. a \in ReqType /\ a.at = "tools" /\ a.conv = req[r].conv /\ a.obj = o /\ a.cut = req[r].cut
    BY DEF TurnInv, Types, ReqType, Stage
  <2> HIDE DEF a
  <2>2. q \in ReqType /\ q.at = "tools" /\ q.conv = req[r].conv /\ q.obj = o /\ q.cut = req[r].cut
    BY <1>3, <2>1 DEF ReqType
  <2>3. req' = [req EXCEPT ![r] = q]
    BY <1>3 DEF a
  <2> HIDE DEF q
  <2> QED BY <2>2, <2>3 DEF TurnInv, Types
<1>6. Loose(heap'[o], Cut', r)
  <2>1. Cut' = Cut
    BY <1>5 DEF Cut
  <2> QED BY <1>4, <2>1, NeatCalls
<1>7. Progress(r)
  BY <1>1, <1>4, <1>5, <1>6 DEF Progress, CallTools, InScope, cache, scope
<1> QED BY <1>7, ProgressKeeps

\* The model call raises: the turn leaves its scope without an answer.
LEMMA ModelFailsKeeps ==
    ASSUME TurnInv, NEW r \in Request, ModelFails(r) PROVE TurnInv'
<1> DEFINE o == req[r].obj
<1>1. req[r].at \in Working /\ req[r].at = "model" /\ Wrote(r, <<>>) /\ Saved(r, <<>>)
  BY DEF ModelFails, Working, InScope, Saved
<1>2. req' = [req EXCEPT ![r] = [req[r] EXCEPT !.at = "closing"]]
  BY DEF ModelFails, TurnInv, Types
<1>3. /\ heap' \in HeapType /\ o \in Object /\ heap[o] \in Seq(Message)
      /\ heap'[o] = heap[o] \o <<>>
      /\ \A p \in Object : p # o => heap'[p] = heap[p]
      /\ \A t : HasUser(heap[o], t) => HasUser(heap'[o], t)
      /\ Neat(heap[o], Cut) /\ HasUser(heap[o], r)
  <2>1. req[r].at # "tools" /\ req[r].at \in InScope /\ <<>> \in Seq(Message)
    BY <1>1 DEF InScope
  <2> QED BY <1>1, <2>1, Writing
<1>4. /\ req' \in [Request -> ReqType] /\ \A s \in Request : s # r => req'[s] = req[s]
      /\ req'[r].at = "closing" /\ req'[r].conv = req[r].conv /\ req'[r].obj = o
      /\ req'[r].cut = req[r].cut
  BY <1>2, ZenonT(30) DEF TurnInv, Types, ReqType, Stage
<1>5. Neat(heap'[o], Cut')
  <2>1. Cut' = Cut
    BY <1>4 DEF Cut
  <2>2. heap'[o] = heap[o]
    BY <1>3, ConcatEmptySeq
  <2> QED BY <1>3, <2>1, <2>2
<1>6. Progress(r)
  BY <1>1, <1>3, <1>4, <1>5 DEF Progress, ModelFails, Saved, InScope, cache, scope
<1> QED BY <1>6, ProgressKeeps

\* The results of the calls are appended, with the nudges that came.
LEMMA ResultsKeeps ==
    ASSUME TurnInv, NEW r \in Request, Results(r) PROVE TurnInv'
<1> DEFINE o     == req[r].obj
           added == Msg(r, "results") \o IF req[r].nudged THEN Msg(r, "nudge") ELSE <<>>
           at    == IF Halted(r) THEN "closing" ELSE "model"
           a     == [req[r] EXCEPT !.at = at]
           q     == [a EXCEPT !.nudged = FALSE]
<1>1. req[r].at \in Working /\ req[r].at = "tools" /\ Wrote(r, added)
  BY DEF Results, Working, InScope, Saved
<1>2. added \in Seq(Message) /\ Msg(r, "results") \in Seq(Message) /\ Msg(r, "nudge") \in Seq(Message)
  <2>1. Msg(r, "results") \in Seq(Message) /\ Msg(r, "nudge") \in Seq(Message)
    BY DEF Msg, Message
  <2>2. (IF req[r].nudged THEN Msg(r, "nudge") ELSE <<>>) \in Seq(Message)
    BY <2>1
  <2> QED BY <2>1, <2>2, ConcatProperties
<1>3. req' = [req EXCEPT ![r] = q]
  BY DEF Results, TurnInv, Types
<1>4. /\ heap' \in HeapType /\ o \in Object /\ heap[o] \in Seq(Message)
      /\ heap'[o] = heap[o] \o added
      /\ \A p \in Object : p # o => heap'[p] = heap[p]
      /\ \A t : HasUser(heap[o], t) => HasUser(heap'[o], t)
      /\ Loose(heap[o], Cut, r) /\ HasUser(heap[o], r)
  <2>1. req[r].at \in InScope
    BY <1>1 DEF InScope
  <2> HIDE DEF added
  <2> QED BY <1>1, <1>2, <2>1, Writing
<1>5. /\ req' \in [Request -> ReqType] /\ \A s \in Request : s # r => req'[s] = req[s]
      /\ req'[r].at = at /\ req'[r].conv = req[r].conv /\ req'[r].obj = o
      /\ req'[r].cut = req[r].cut
  <2>1. a \in ReqType /\ a.at = at /\ a.conv = req[r].conv /\ a.obj = o /\ a.cut = req[r].cut
    BY DEF TurnInv, Types, ReqType, Stage
  <2> HIDE DEF a
  <2>2. q \in ReqType /\ q.at = at /\ q.conv = req[r].conv /\ q.obj = o /\ q.cut = req[r].cut
    BY <2>1 DEF ReqType
  <2> HIDE DEF q
  <2> QED BY <1>3, <2>2 DEF TurnInv, Types
<1>6. Neat(heap'[o], Cut')
  <2> DEFINE h == heap[o]
             g == h \o Msg(r, "results")
  <2>1. Cut' = Cut
    BY <1>5 DEF Cut
  <2>2. h \in Seq(Message) /\ Loose(h, Cut, r)
    BY <1>4
  <2>3. heap'[o] = IF req[r].nudged THEN h \o (Msg(r, "results") \o Msg(r, "nudge"))
                   ELSE h \o (Msg(r, "results") \o <<>>)
    BY <1>4
  <2> HIDE DEF h
  <2>4. Neat(g, Cut) /\ g \in Seq(Message)
    BY <1>2, <2>2, LooseResults
  <2>5. /\ h \o (Msg(r, "results") \o Msg(r, "nudge")) = g \o Msg(r, "nudge")
        /\ Msg(r, "results") \o <<>> = Msg(r, "results")
    BY SMTT(20), <1>2, <2>2, ConcatAssociative, ConcatEmptySeq
  <2> HIDE DEF g
  <2>6. Neat(g \o Msg(r, "nudge"), Cut)
    BY <2>4, NeatPlain
  <2> QED BY <2>1, <2>3, <2>4, <2>5, <2>6 DEF g
<1>7. \/ UNCHANGED <<disk, kept>>
      \/ /\ disk' = [disk EXCEPT ![req[r].conv] = heap'[o]]
         /\ kept' = kept \cup {r} /\ at = "closing"
  BY DEF Results, Saved
<1>8. at \in InScope /\ at # "tools" /\ req[r].at \in InScope
  BY <1>1 DEF InScope
<1>9. UNCHANGED <<cached, active, stopEvent>>
  BY DEF Results, cache, scope
<1> HIDE DEF at
<1>10. Progress(r)
  BY <1>1, <1>4, <1>5, <1>6, <1>7, <1>8, <1>9 DEF Progress
<1> QED BY <1>10, ProgressKeeps

\* A stop cuts a turn short, between its calls and their results too.
LEMMA CutShortKeeps ==
    ASSUME TurnInv, NEW r \in Request, NEW why \in {"stop", "gone"}, CutShort(r, why) PROVE TurnInv'
<1> DEFINE o == req[r].obj
           a == [req[r] EXCEPT !.at = "closing"]
           q == [a EXCEPT !.cut = why]
<1>1. req[r].at \in Working /\ req[r].at = "tools" /\ Wrote(r, <<>>) /\ Saved(r, <<>>)
  BY DEF CutShort, Working, InScope, Saved
<1>2. req' = [req EXCEPT ![r] = q]
  BY DEF CutShort, TurnInv, Types
<1>3. /\ heap' \in HeapType /\ o \in Object /\ heap[o] \in Seq(Message)
      /\ heap'[o] = heap[o] \o <<>>
      /\ \A p \in Object : p # o => heap'[p] = heap[p]
      /\ \A t : HasUser(heap[o], t) => HasUser(heap'[o], t)
      /\ Loose(heap[o], Cut, r) /\ HasUser(heap[o], r)
  <2>1. req[r].at \in InScope /\ <<>> \in Seq(Message)
    BY <1>1 DEF InScope
  <2> QED BY <1>1, <2>1, Writing
<1>4. /\ req' \in [Request -> ReqType] /\ \A s \in Request : s # r => req'[s] = req[s]
      /\ req'[r].at = "closing" /\ req'[r].conv = req[r].conv /\ req'[r].obj = o
      /\ req'[r].cut = why
  <2>1. a \in ReqType /\ a.at = "closing" /\ a.conv = req[r].conv /\ a.obj = o
    BY DEF TurnInv, Types, ReqType, Stage
  <2> HIDE DEF a
  <2>2. q \in ReqType /\ q.at = "closing" /\ q.conv = req[r].conv /\ q.obj = o /\ q.cut = why
    BY <2>1 DEF ReqType
  <2> HIDE DEF q
  <2> QED BY <1>2, <2>2 DEF TurnInv, Types
<1>5. Neat(heap'[o], Cut')
  <2>1. Cut \subseteq Cut' /\ r \in Cut'
    BY <1>4 DEF Cut
  <2>2. heap'[o] = heap[o]
    BY <1>3, ConcatEmptySeq
  <2> QED BY <1>3, <2>1, <2>2, LooseCut
<1>6. Progress(r)
  BY <1>1, <1>3, <1>4, <1>5 DEF Progress, CutShort, Saved, InScope, cache, scope
<1> QED BY <1>6, ProgressKeeps

\* A request that is over: given up before its turn, or its turn has left
\* the scope.
LEMMA LeavingKeeps ==
    ASSUME TurnInv, NEW r \in Request, Abandon(r) \/ EndTurn(r) PROVE TurnInv'
<1>0. Types /\ Sole /\ Owned /\ Scoped /\ Kept /\ AllNeat
  BY DEF TurnInv
<1>1. /\ UNCHANGED <<cached, heap, disk, kept>> /\ req[r].at \in {"starting", "closing"}
      /\ req' = [req EXCEPT ![r] = Ended(req[r])] /\ req[r] \in ReqType
  BY <1>0 DEF Abandon, EndTurn, cache, Types
<1>2. /\ req' \in [Request -> ReqType] /\ req'[r].at = "done" /\ req'[r].conv = req[r].conv
      /\ req'[r].cut = req[r].cut /\ req'[r].stop = FALSE
      /\ \A s \in Request : s # r => req'[s] = req[s]
  BY <1>0, <1>1, EndedType DEF Types
<1>3. /\ req[r].at \in Working /\ req[r].at \in InFlight /\ req'[r].at \notin InFlight
      /\ req'[r].at \notin Working /\ req'[r].at \notin InScope
  BY <1>1, <1>2 DEF Working, InFlight, InScope
<1>4. Types'
  BY <1>0, <1>1, <1>2 DEF Types, Abandon, EndTurn, Left, scope
<1>5. Sole'
  BY <1>0, <1>2, <1>3 DEF Sole
<1>6. \A s \in Request : req'[s].conv = req[s].conv
  BY <1>2
<1>7. Owned'
  <2>1. \A s \in Request : req'[s].at = "unused" => req'[s] = NoReq
    BY <1>0, <1>2 DEF Owned
  <2>2. \A d \in Conv : cached[d] # 0 => req'[cached[d]].conv = d
    BY <1>0, <1>6 DEF Owned, Types, CacheType, Object
  <2>3. \A s \in Request : req'[s].at \in Working => s # r
    BY <1>3
  <2>4. \A s \in Request : req'[s].at \in Working =>
          /\ req'[s].obj \in Object /\ req'[req'[s].obj].conv = req'[s].conv
          /\ cached[req'[s].conv] \in {0, req'[s].obj}
    BY <1>0, <1>2, <1>6, <2>3 DEF Owned, Object
  <2>5. \A s \in Request : req'[s].at \in InFlight => req'[s].conv \in Conv
    BY <1>0, <1>2, <1>3 DEF Owned
  <2>6. \A s \in Request : req'[s].stop => req'[s].at \in InScope
    BY <1>0, <1>2 DEF Owned
  <2> QED BY <1>1, <2>1, <2>2, <2>4, <2>5, <2>6 DEF Owned
<1>8. Scoped'
  <2>0. \A d \in Conv : stopEvent[d] # 0 => stopEvent[d] \in Request
    BY <1>0 DEF Types
  <2>1. CASE Abandon(r)
    <3>1. UNCHANGED <<active, stopEvent>> /\ req[r].at \notin InScope
      BY <2>1 DEF Abandon, scope, InScope
    <3> QED BY <1>0, <1>2, <1>3, <2>0, <3>1 DEF Scoped
  <2>2. CASE EndTurn(r)
    <3> DEFINE c == req[r].conv
    <3>1. /\ active' = active \ {c} /\ stopEvent' = [stopEvent EXCEPT ![c] = 0]
          /\ c \in Conv /\ stopEvent[c] = r /\ req[r].at \in InScope
      BY <1>0, <1>3, <2>2 DEF EndTurn, Left, Owned, Scoped, InScope
    <3>2. stopEvent'[c] = 0 /\ \A d \in Conv : d # c => stopEvent'[d] = stopEvent[d]
      BY <1>0, <3>1 DEF Types
    <3>3. \A d \in Conv : d # c /\ stopEvent[d] # 0 => stopEvent[d] # r
      BY <1>0, <3>1 DEF Scoped
    <3>4. ASSUME NEW s \in Request, req'[s].at \in InScope PROVE stopEvent'[req'[s].conv] = s
      <4>1. s # r /\ req'[s] = req[s]
        BY <1>2, <1>3, <3>4
      <4>2. req[s].conv # c /\ req[s].conv \in Conv
        BY <1>0, <1>3, <3>1, <3>4, <4>1 DEF Scoped, Owned, InFlight
      <4> QED BY <1>0, <3>2, <3>4, <4>1, <4>2 DEF Scoped
    <3>5. \A d \in Conv : stopEvent'[d] # 0 => req'[stopEvent'[d]].at \in InScope /\ req'[stopEvent'[d]].conv = d
      BY <1>0, <1>2, <2>0, <3>2, <3>3 DEF Scoped
    <3>6. \A d \in Conv : d \in active' <=> stopEvent'[d] # 0
      BY <1>0, <3>1, <3>2 DEF Scoped
    <3> QED BY <3>4, <3>5, <3>6 DEF Scoped
  <2> QED BY <2>1, <2>2
<1>9. Kept'
  <2>1. \A s \in Request : req'[s].at \in Working => req'[s] = req[s]
    BY <1>2, <1>3
  <2>2. \A s \in Request : req'[s].at \in InScope => HasUser(heap[req'[s].obj], s)
    BY <1>0, <1>2, <1>3 DEF Kept
  <2>3. \A t \in kept : t \in Request /\ req'[t].at \in {"closing", "done"}
    BY <1>0, <1>2 DEF Kept, Types
  <2> QED BY <1>0, <1>1, <1>6, <2>1, <2>2, <2>3 DEF Kept
<1>10. AllNeat'
  <2>1. Cut' = Cut
    BY <1>2 DEF Cut
  <2>2. \A s \in Request : (req'[s].at = "tools" <=> req[s].at = "tools") /\ (req[s].at = "tools" => req'[s] = req[s])
    BY <1>1, <1>2
  <2> QED BY <1>0, <1>1, <2>1, <2>2 DEF AllNeat
<1> QED BY <1>4, <1>5, <1>7, <1>8, <1>9, <1>10 DEF TurnInv

\* A stop request or a nudge marks a turn in scope.
LEMMA MarkingKeeps ==
    ASSUME TurnInv, (\E c \in Conv : Stop(c)) \/ (\E r \in Request : Nudge(r)) PROVE TurnInv'
<1>0. Types /\ Sole /\ Owned /\ Scoped /\ Kept /\ AllNeat
  BY DEF TurnInv
<1>1. /\ UNCHANGED <<cached, heap, disk, active, stopEvent, kept>>
      /\ \E r \in Request : /\ req[r].at \in InScope
                            /\ \/ req' = [req EXCEPT ![r].stop = TRUE]
                               \/ req' = [req EXCEPT ![r].nudged = TRUE]
  <2>1. CASE \E c \in Conv : Stop(c)
    BY <1>0, <2>1 DEF Stop, cache, scope, Scoped, Types
  <2>2. CASE \E r \in Request : Nudge(r)
    BY <2>2 DEF Nudge, cache, scope, InScope
  <2> QED BY <2>1, <2>2
<1>2. PICK r \in Request : /\ req[r].at \in InScope
                           /\ \/ req' = [req EXCEPT ![r].stop = TRUE]
                              \/ req' = [req EXCEPT ![r].nudged = TRUE]
  BY <1>1
<1>3. /\ req' \in [Request -> ReqType] /\ \A s \in Request : s # r => req'[s] = req[s]
      /\ req'[r].at = req[r].at /\ req'[r].conv = req[r].conv /\ req'[r].obj = req[r].obj
      /\ req'[r].cut = req[r].cut
  <2>1. req[r] \in ReqType
    BY <1>0 DEF Types
  <2>2. PICK q \in ReqType : /\ req' = [req EXCEPT ![r] = q] /\ q.at = req[r].at
                             /\ q.conv = req[r].conv /\ q.obj = req[r].obj /\ q.cut = req[r].cut
    <3> DEFINE a == [req[r] EXCEPT !.stop = TRUE]
               b == [req[r] EXCEPT !.nudged = TRUE]
    <3>1. a \in ReqType /\ a.at = req[r].at /\ a.conv = req[r].conv /\ a.obj = req[r].obj /\ a.cut = req[r].cut
      BY <2>1 DEF ReqType
    <3>2. b \in ReqType /\ b.at = req[r].at /\ b.conv = req[r].conv /\ b.obj = req[r].obj /\ b.cut = req[r].cut
      BY <2>1 DEF ReqType
    <3>3. req' = [req EXCEPT ![r] = a] \/ req' = [req EXCEPT ![r] = b]
      BY <1>2
    <3> HIDE DEF a, b
    <3> QED BY <3>1, <3>2, <3>3
  <2> QED BY <1>0, <2>2 DEF Types
<1>4. \A s \in Request : /\ req'[s].at = req[s].at /\ req'[s].conv = req[s].conv
                         /\ req'[s].obj = req[s].obj /\ req'[s].cut = req[s].cut
  BY <1>3
<1>5. Types'
  BY <1>0, <1>1, <1>3 DEF Types
<1>6. Sole'
  BY <1>0, <1>4 DEF Sole
<1>7. Owned'
  <2>1. \A s \in Request : req'[s].at = "unused" => req'[s] = NoReq
    BY <1>0, <1>2, <1>3 DEF Owned, InScope
  <2>2. ASSUME NEW s \in Request, req'[s].stop PROVE req'[s].at \in InScope
    <3>1. CASE s = r
      BY <1>2, <1>3, <3>1
    <3>2. CASE s # r
      BY <1>0, <1>3, <2>2, <3>2 DEF Owned
    <3> QED BY <3>1, <3>2
  <2>3. \A d \in Conv : cached[d] # 0 => req'[cached[d]].conv = d
    BY <1>0, <1>4, ZenonT(30) DEF Owned, Types, CacheType, Object
  <2> QED BY <1>0, <1>1, <1>4, <2>1, <2>2, <2>3 DEF Owned, Object
<1>8. Scoped'
  <2>1. \A d \in Conv : stopEvent[d] # 0 => stopEvent[d] \in Request
    BY <1>0 DEF Types
  <2> QED BY <1>0, <1>1, <1>4, <2>1 DEF Scoped
<1>9. Kept'
  <2>1. kept \subseteq Request
    BY <1>0 DEF Types
  <2> QED BY <1>0, <1>1, <1>4, <2>1 DEF Kept
<1>10. AllNeat'
  <2>1. Cut' = Cut
    BY <1>4 DEF Cut
  <2> QED BY <1>0, <1>1, <1>4, <2>1 DEF AllNeat
<1> QED BY <1>5, <1>6, <1>7, <1>8, <1>9, <1>10 DEF TurnInv

\* A conversation is deleted when none of its requests is in flight; its
\* history may stay in the cache.
LEMMA DeleteKeeps ==
    ASSUME TurnInv, NEW c \in Conv, Delete(c) PROVE TurnInv'
<1>0. Types /\ Sole /\ Owned /\ Scoped /\ Kept /\ AllNeat
  BY DEF TurnInv
<1>1. /\ UNCHANGED <<cached, heap, active, stopEvent, req>>
      /\ disk' = [disk EXCEPT ![c] = <<>>] /\ kept' = {r \in kept : req[r].conv # c}
  BY DEF Delete, cache, scope, NoFile
<1>2. Types'
  BY <1>0, <1>1 DEF Types
<1>3. Sole' /\ Owned' /\ Scoped'
  BY <1>0, <1>1 DEF Sole, Owned, Scoped
<1>4. Kept'
  <2>1. \A t \in kept' : t \in kept /\ disk'[req[t].conv] = disk[req[t].conv]
    BY <1>0, <1>1 DEF Kept, Types
  <2> QED BY <1>0, <1>1, <2>1 DEF Kept
<1>5. AllNeat'
  <2>1. Neat(<<>>, Cut) /\ Cut' = Cut
    BY <1>1 DEF Neat, ResultsFollow, Cut
  <2>2. \A d \in Conv : Neat(disk'[d], Cut)
    BY <1>0, <1>1, <2>1 DEF AllNeat, Types
  <2> QED BY <1>0, <1>1, <2>1, <2>2 DEF AllNeat
<1> QED BY <1>2, <1>3, <1>4, <1>5 DEF TurnInv

\* The memory of the process is gone, the files stay.
LEMMA RestartKeeps ==
    ASSUME TurnInv, Restart PROVE TurnInv'
<1>0. Types /\ Sole /\ Owned /\ Scoped /\ Kept /\ AllNeat
  BY DEF TurnInv
<1>1. /\ UNCHANGED <<disk, kept>> /\ cached' = [c \in Conv |-> 0] /\ heap' = [o \in Object |-> <<>>]
      /\ active' = {} /\ stopEvent' = [c \in Conv |-> 0]
      /\ req' = [r \in Request |-> IF req[r].at \in InFlight THEN Ended(req[r]) ELSE req[r]]
  BY DEF Restart
<1>2. \A r \in Request : /\ req'[r] \in ReqType /\ req'[r].at \notin InFlight
                         /\ req'[r].conv = req[r].conv /\ req'[r].cut = req[r].cut
                         /\ req'[r].at = IF req[r].at \in InFlight THEN "done" ELSE req[r].at
                         /\ req[r].at \in InFlight => req'[r].stop = FALSE
                         /\ req[r].at \notin InFlight => req'[r] = req[r]
  <2> SUFFICES ASSUME NEW r \in Request
               PROVE  /\ req'[r] \in ReqType /\ req'[r].at \notin InFlight
                      /\ req'[r].conv = req[r].conv /\ req'[r].cut = req[r].cut
                      /\ req'[r].at = IF req[r].at \in InFlight THEN "done" ELSE req[r].at
                      /\ req[r].at \in InFlight => req'[r].stop = FALSE
                      /\ req[r].at \notin InFlight => req'[r] = req[r]
    OBVIOUS
  <2>1. req[r] \in ReqType
    BY <1>0 DEF Types
  <2>2. "done" \notin InFlight
    BY DEF InFlight, InScope
  <2> QED BY <1>1, <2>1, <2>2, EndedType
<1>3. \A r \in Request : req'[r].at \notin Working /\ req'[r].at \notin InScope
  BY <1>2 DEF Working, InFlight
<1>4. Types'
  <2>1. req' \in [Request -> ReqType]
    BY <1>1, <1>2
  <2> QED BY <1>0, <1>1, <2>1 DEF Types, CacheType, HeapType
<1>5. Sole'
  BY <1>2 DEF Sole
<1>6. Owned'
  <2>1. \A r \in Request : req'[r].stop => req'[r].at \in InScope
    BY <1>0, <1>2 DEF Owned, InFlight
  <2>2. \A r \in Request : req'[r].at = "unused" => req'[r] = NoReq
    BY <1>0, <1>2 DEF Owned
  <2> QED BY <1>1, <1>2, <1>3, <2>1, <2>2 DEF Owned
<1>7. Scoped'
  BY <1>1, <1>3 DEF Scoped
<1>8. Kept'
  <2>1. \A t \in kept : t \in Request /\ req'[t].at \in {"closing", "done"} /\ req'[t].conv = req[t].conv
    BY <1>0, <1>2 DEF Kept, Types
  <2>2. \A t \in kept : cached'[req[t].conv] = 0
    BY <1>0, <1>1 DEF Kept
  <2> QED BY <1>0, <1>1, <1>3, <2>1, <2>2 DEF Kept
<1>9. AllNeat'
  <2>1. Cut' = Cut
    BY <1>2 DEF Cut
  <2>2. Neat(<<>>, Cut)
    BY DEF Neat, ResultsFollow
  <2>3. \A r \in Request : req'[r].at # "tools"
    BY <1>3 DEF InScope
  <2> QED BY <1>0, <1>1, <2>1, <2>2, <2>3 DEF AllNeat
<1> QED BY <1>4, <1>5, <1>6, <1>7, <1>8, <1>9 DEF TurnInv

------------------------------------------------------------------------------
(* What holds throughout. *)

\* Every step of a run with patient clients keeps the invariant.
LEMMA TurnsStep == ASSUME Patient PROVE TurnInv /\ [Next]_vars => TurnInv'
<1> SUFFICES ASSUME TurnInv, [Next]_vars PROVE TurnInv'
  OBVIOUS
<1>0. Types /\ Owned
  BY DEF TurnInv
<1>1. CASE UNCHANGED vars
  <2>1. UNCHANGED <<cached, heap, disk, active, stopEvent, req, kept>>
    BY <1>1 DEF vars, cache, scope
  <2>2. Cut' = Cut
    BY <2>1 DEF Cut
  <2> QED BY <2>1, <2>2 DEF TurnInv, Types, Sole, Owned, Scoped, Kept, AllNeat
<1>2. ASSUME NEW r \in Request, NEW c \in Conv, ChatHit(r, c) \/ ChatMiss(r, c) \/ Resume(r, c)
      PROVE  TurnInv'
  BY <1>0, <1>2, Arriving, ArrivalKeeps
<1>3. ASSUME NEW r \in Request, EvictMore(r) PROVE TurnInv'
  BY <1>0, <1>3, ArrivingLate, ArrivalKeeps
<1>4. ASSUME NEW r \in Request, TurnStep(r) PROVE TurnInv'
  <2>1. CASE BeginTurn(r)
    BY <2>1, BeginTurnKeeps
  <2>2. CASE Abandon(r) \/ EndTurn(r)
    BY <2>2, LeavingKeeps
  <2>3. CASE Answer(r)
    BY <2>3, AnswerKeeps
  <2>4. CASE CallTools(r)
    BY <2>4, CallToolsKeeps
  <2>5. CASE ModelFails(r)
    BY <2>5, ModelFailsKeeps
  <2>6. CASE Results(r)
    BY <2>6, ResultsKeeps
  <2>7. CASE SubAgentStops(r) \/ ClientGone(r)
    BY <2>7, CutShortKeeps DEF SubAgentStops, ClientGone
  <2> QED BY <1>4, <2>1, <2>2, <2>3, <2>4, <2>5, <2>6, <2>7 DEF TurnStep
<1>5. CASE (\E r \in Request : Nudge(r)) \/ (\E c \in Conv : Stop(c))
  BY <1>5, MarkingKeeps
<1>6. ASSUME NEW c \in Conv, Delete(c) PROVE TurnInv'
  BY <1>6, DeleteKeeps
<1>7. CASE Restart
  BY <1>7, RestartKeeps
<1> QED BY <1>1, <1>2, <1>3, <1>4, <1>5, <1>6, <1>7 DEF Next

\* The invariant holds throughout.
LEMMA TurnsHold == ASSUME Patient PROVE Spec => []TurnInv
BY TurnsInit, TurnsStep, PTL DEF Spec

\* A turn that has ended stays in its conversation's file until the
\* conversation is deleted, through evictions, resumes, failures and
\* restarts, however many.
THEOREM TurnsAreKept == Patient => (Spec => []NoTurnLost)
<1> SUFFICES ASSUME Patient PROVE Spec => []NoTurnLost
  OBVIOUS
<1>1. TurnInv => NoTurnLost
  BY DEF TurnInv, Kept, NoTurnLost, HasUser
<1> QED BY <1>1, TurnsHold, PTL

\* Of what a model is sent, calls without results are only those of turns
\* that were cut short, and results stand behind their calls.
THEOREM OnlyCutOnesDangle == Patient => (Spec => []OnlyCutTurnsDangle)
<1> SUFFICES ASSUME Patient PROVE Spec => []OnlyCutTurnsDangle
  OBVIOUS
<1>1. TurnInv => OnlyCutTurnsDangle
  <2> SUFFICES ASSUME TurnInv, NEW r \in Request, req[r].at = "model"
               PROVE  LET h == heap[req[r].obj]
                      IN  \A i \in 1..Len(h) :
                            /\ h[i].kind = "calls" /\ ~CallAnswered(h, i) => req[h[i].turn].cut # "no"
                            /\ h[i].kind = "results" =>
                                  i > 1 /\ h[i - 1].kind = "calls" /\ h[i - 1].turn = h[i].turn
    BY DEF OnlyCutTurnsDangle
  <2>1. req[r].at \in Working /\ req[r].obj \in Object
    BY DEF TurnInv, Owned, Working, InScope
  <2>2. \A s \in Request : req[s].at = "tools" => req[s].obj # req[r].obj
    BY <2>1, OwnHistory DEF TurnInv, Working, InScope
  <2>3. Neat(heap[req[r].obj], Cut)
    BY <2>1, <2>2 DEF TurnInv, AllNeat
  <2> QED BY <2>3 DEF Neat, ResultsFollow, Open, Cut
<1> QED BY <1>1, TurnsHold, PTL

\* is_turn_active and request_stop speak of the turn that runs.
THEOREM ScopeIsTracked == Patient => (Spec => []ScopeTracked)
<1> SUFFICES ASSUME Patient PROVE Spec => []ScopeTracked
  OBVIOUS
<1>1. TurnInv => ScopeTracked
  <2> SUFFICES ASSUME TurnInv, NEW c \in Conv
               PROVE  /\ c \in active <=> Turns(c) # {}
                      /\ Turns(c) = IF stopEvent[c] = 0 THEN {} ELSE {stopEvent[c]}
    BY DEF ScopeTracked
  <2>1. \A r \in Turns(c) : r = stopEvent[c] /\ r # 0
    BY DEF TurnInv, Scoped, Turns, Request
  <2>2. stopEvent[c] # 0 => stopEvent[c] \in Turns(c)
    BY DEF TurnInv, Scoped, Turns, Types
  <2>3. c \in active <=> stopEvent[c] # 0
    BY DEF TurnInv, Scoped
  <2> QED BY <2>1, <2>2, <2>3
<1> QED BY <1>1, TurnsHold, PTL

\* The history of a turn in scope is written by that turn's steps alone.
LEMMA SoleHand ==
    ASSUME Patient, TurnInv, Next, NEW r \in Request, req[r].at \in InScope,
           heap'[req[r].obj] # heap[req[r].obj]
    PROVE  TurnStep(r) \/ Restart
<1> DEFINE o == req[r].obj
<1>0. /\ Types /\ Sole /\ Owned /\ req[r].at \in Working /\ o \in Object /\ o # 0
      /\ req[o].conv = req[r].conv /\ req[r].conv \in Conv
  BY OwnHistory DEF TurnInv, Working, Owned
<1>1. ASSUME NEW s \in Request, NEW c \in Conv, Arrival(s, c) PROVE FALSE
  <2>1. heap'[o] = heap[o]
    <3>1. CASE o # s
      BY <1>0, <1>1, <3>1 DEF Arrival
    <3>2. CASE o = s
      <4>1. req[s].at # "unused"
        BY <1>0, <3>2, NoConvAssumption DEF Owned, NoReq
      <4> QED BY <1>1, <3>2, <4>1 DEF Arrival
    <3> QED BY <3>1, <3>2
  <2> QED BY <2>1
<1>2. ASSUME NEW s \in Request, s # r, TurnStep(s) PROVE FALSE
  <2>1. CASE Abandon(s) \/ EndTurn(s)
    BY <2>1 DEF Abandon, EndTurn
  <2>2. CASE ~(Abandon(s) \/ EndTurn(s))
    <3>1. req[s].at \in Working /\ \E m : Wrote(s, m)
      BY <1>2, <2>2 DEF TurnStep, BeginTurn, Answer, CallTools, ModelFails, Results, SubAgentStops,
         ClientGone, CutShort, Saved, Working, InScope
    <3>2. req[s].obj # o
      BY <1>0, <1>2, <3>1, OwnHistory
    <3>3. heap'[o] = heap[o]
      BY <1>0, <3>1, <3>2 DEF Wrote, Types, HeapType
    <3> QED BY <3>3
  <2> QED BY <2>1, <2>2
<1>3. ASSUME NEW s \in Request, EvictMore(s) PROVE FALSE
  BY <1>0, <1>1, <1>3, ArrivingLate
<1>4. ASSUME NEW s \in Request, NEW c \in Conv, ChatHit(s, c) \/ ChatMiss(s, c) \/ Resume(s, c) PROVE FALSE
  BY <1>0, <1>1, <1>4, Arriving
<1>5. ASSUME (\E s \in Request : Nudge(s)) \/ \E c \in Conv : Stop(c) \/ Delete(c) PROVE FALSE
  BY <1>5 DEF Nudge, Stop, Delete
<1> QED BY <1>2, <1>3, <1>4, <1>5 DEF Next

\* What stands last after one more message, or two.
LEMMA LastAdded ==
    ASSUME NEW h \in Seq(Message), NEW r \in Request,
           NEW k \in {"user", "nudge", "halt", "calls", "results", "reply"}
    PROVE  Last(h \o Msg(r, k)) = [turn |-> r, kind |-> k]
<1> DEFINE g == h \o Msg(r, k)
<1>1. Len(h) \in Nat /\ Len(g) = Len(h) + 1 /\ g[Len(h) + 1] = [turn |-> r, kind |-> k]
  BY ZenonT(30), OneMore
<1> HIDE DEF g
<1>2. Last(g) = [turn |-> r, kind |-> k]
  BY <1>1 DEF Last
<1> QED BY <1>2 DEF g

\* The same for two messages at once.
LEMMA TwoMore ==
    ASSUME NEW h \in Seq(Message), NEW m \in Seq(Message), NEW n \in Seq(Message)
    PROVE  /\ h \o (m \o n) = (h \o m) \o n
           /\ h \o m \in Seq(Message) /\ m \o n \in Seq(Message)
BY SMTT(20), ConcatAssociative, ConcatProperties

\* A turn that was asked to stop writes no reply and starts no tools.
THEOREM StopsAreHeard == Patient => (Spec => StopIsHeard)
<1> SUFFICES ASSUME Patient PROVE Spec => StopIsHeard
  OBVIOUS
<1> DEFINE Obeys(r) == req[r].stop =>
          LET h == heap'[req[r].obj]
          IN  Len(h) > Len(heap[req[r].obj]) /\ Last(h).turn = r => Last(h).kind \notin {"calls", "reply"}
<1>1. TurnInv /\ [Next]_vars => [\A r \in Request : Obeys(r)]_vars
  <2> SUFFICES ASSUME TurnInv, Next, NEW r \in Request, req[r].stop,
                      Len(heap'[req[r].obj]) > Len(heap[req[r].obj])
               PROVE  Last(heap'[req[r].obj]).kind \notin {"calls", "reply"}
    OBVIOUS
  <2> DEFINE o == req[r].obj
  <2>1. req[r].at \in InScope /\ req[r].at \in Working /\ o \in Object /\ heap[o] \in Seq(Message)
    BY DEF TurnInv, Owned, Working, Types, HeapType
  <2>2. Len(heap[o]) \in Nat /\ heap'[o] # heap[o]
    BY <2>1
  <2>3. ~Restart
    BY <2>1, <2>2 DEF Restart
  <2>4. TurnStep(r)
    BY <2>1, <2>2, <2>3, SoleHand
  <2>5. ASSUME NEW k \in {"user", "nudge", "halt", "results"}, NEW h \in Seq(Message),
               heap'[o] = h \o Msg(r, k)
        PROVE  Last(heap'[o]).kind \notin {"calls", "reply"}
    <3>1. Last(h \o Msg(r, k)) = [turn |-> r, kind |-> k]
      BY LastAdded
    <3> QED BY <2>5, <3>1
  <2>6. CASE BeginTurn(r) \/ Abandon(r) \/ EndTurn(r)
    BY <2>1, <2>2, <2>6 DEF BeginTurn, Abandon, EndTurn, InScope
  <2>7. CASE Answer(r)
    <3>1. Wrote(r, Msg(r, "halt")) /\ Msg(r, "halt") \in Seq(Message)
      BY <2>7 DEF Answer, Saved, Msg, Message
    <3> QED BY <2>1, <2>5, <3>1, Writing
  <2>8. CASE CallTools(r)
    BY <2>8 DEF CallTools
  <2>9. CASE ModelFails(r) \/ SubAgentStops(r) \/ ClientGone(r)
    <3>1. Wrote(r, <<>>) /\ <<>> \in Seq(Message)
      BY <2>9 DEF ModelFails, SubAgentStops, ClientGone, CutShort, Saved
    <3>2. heap'[o] = heap[o] \o <<>>
      BY <2>1, <3>1, Writing
    <3> QED BY <2>1, <2>2, <3>2, ConcatEmptySeq
  <2>10. CASE Results(r)
    <3> DEFINE R == Msg(r, "results")
               N == Msg(r, "nudge")
    <3>1. R \in Seq(Message) /\ N \in Seq(Message)
      BY DEF Msg, Message
    <3>2. CASE req[r].nudged
      <4>1. Wrote(r, R \o N) /\ R \o N \in Seq(Message)
        BY <2>10, <3>1, <3>2, TwoMore DEF Results, Saved
      <4>2. heap'[o] = heap[o] \o (R \o N)
        BY <2>1, <4>1, Writing
      <4>3. heap'[o] = (heap[o] \o R) \o N /\ heap[o] \o R \in Seq(Message)
        <5> DEFINE h == heap[o]
        <5>1. h \in Seq(Message)
          BY <2>1
        <5> HIDE DEF h, R, N
        <5>2. h \o (R \o N) = (h \o R) \o N /\ h \o R \in Seq(Message)
          BY <3>1, <5>1, TwoMore
        <5> QED BY <4>2, <5>2 DEF h
      <4> QED BY <2>5, <4>3
    <3>3. CASE ~req[r].nudged
      <4>1. Wrote(r, R \o <<>>)
        BY <2>10, <3>3 DEF Results, Saved
      <4>2. R \o <<>> = R
        BY <3>1, ConcatEmptySeq
      <4>3. heap'[o] = heap[o] \o R
        BY <2>1, <3>1, <4>1, <4>2, Writing
      <4> QED BY <2>1, <2>5, <4>3
    <3> QED BY <3>2, <3>3
  <2> QED BY <2>4, <2>6, <2>7, <2>8, <2>9, <2>10 DEF TurnStep
<1> QED BY <1>1, TurnsHold, PTL DEF Spec, StopIsHeard

\* Making room drops no conversation that has a turn in scope.
LEMMA ActiveOnesStay ==
    ASSUME NEW r, NEW q, NEW order, NEW objs \in CacheType, Evict(r, q, order, objs),
           NEW d \in active, d \in Conv
    PROVE  cached'[d] = objs[d]
<1> DEFINE room == Evictable(order, q.conv)
<1>1. CASE Len(order) <= MaxCached \/ room = {}
  BY <1>1 DEF Evict
<1>2. CASE ~(Len(order) <= MaxCached \/ room = {})
  <2>1. Min(room) \in room
    <3>1. room \subseteq Nat
      BY DEF Evictable
    <3> HIDE DEF room
    <3> QED BY <1>2, <3>1, LeastOfNaturals
  <2>2. order[Min(room)] # d
    BY <2>1 DEF Evictable
  <2>3. cached' = [objs EXCEPT ![order[Min(room)]] = 0]
    BY <1>2 DEF Evict
  <2> HIDE DEF room
  <2> QED BY <2>2, <2>3 DEF CacheType
<1> QED BY <1>1, <1>2

\* A conversation whose turn is in flight keeps its cache entry, whatever
\* other conversations' requests evict meanwhile.
THEOREM ActiveOnesAreCached == Patient => (Spec => ActiveStaysCached)
<1> SUFFICES ASSUME Patient PROVE Spec => ActiveStaysCached
  OBVIOUS
<1> DEFINE Stays(r) ==
          /\ req[r].at \in InScope /\ cached[req[r].conv] = req[r].obj
          /\ req'[r].at \in InScope
          => cached'[req[r].conv] = req[r].obj
<1>1. TurnInv /\ [Next]_vars => [\A r \in Request : Stays(r)]_vars
  <2> SUFFICES ASSUME TurnInv, Next, NEW r \in Request, req[r].at \in InScope,
                      req'[r].at \in InScope
               PROVE  cached'[req[r].conv] = cached[req[r].conv]
    OBVIOUS
  <2> DEFINE d == req[r].conv
  <2>1. d \in Conv /\ d \in active /\ cached \in CacheType /\ Owned
    <3>1. req[r].at \in Working
      BY DEF Working
    <3>2. d \in Conv
      BY <3>1, OwnHistory DEF TurnInv
    <3> QED BY <3>2 DEF TurnInv, Scoped, Types, Request
  <2>2. ASSUME NEW s \in Request, NEW c \in Conv, ChatHit(s, c) \/ ChatMiss(s, c) \/ Resume(s, c)
        PROVE  cached'[d] = cached[d]
    <3>1. c # d
      BY <2>2 DEF ChatHit, ChatMiss, Resume, MayAsk, Waiting, InFlight
    <3>2. CASE ChatHit(s, c)
      BY <3>2 DEF ChatHit
    <3>3. CASE ChatMiss(s, c) \/ Resume(s, c)
      <4> DEFINE objs == [cached EXCEPT ![c] = s]
      <4>1. PICK q, order : Evict(s, q, order, objs)
        BY <3>3 DEF ChatMiss, Resume
      <4>2. objs \in CacheType /\ objs[d] = cached[d]
        BY <2>1, <3>1 DEF CacheType, Object
      <4> HIDE DEF objs
      <4> QED BY <2>1, <4>1, <4>2, ActiveOnesStay
    <3> QED BY <2>2, <3>2, <3>3
  <2>3. ASSUME NEW s \in Request, EvictMore(s) PROVE cached'[d] = cached[d]
    BY <2>1, <2>3, ActiveOnesStay DEF EvictMore
  <2>4. ASSUME NEW s \in Request, TurnStep(s) \/ Nudge(s) PROVE cached'[d] = cached[d]
    BY <2>4 DEF TurnStep, BeginTurn, Abandon, Answer, CallTools, ModelFails, Results, SubAgentStops,
       ClientGone, CutShort, EndTurn, Nudge, cache
  <2>5. CASE \E c \in Conv : Stop(c) \/ Delete(c)
    BY <2>5 DEF Stop, Delete, cache
  <2>6. CASE Restart
    <3>1. req'[r] = Ended(req[r]) /\ req[r] \in ReqType
      BY <2>6 DEF Restart, TurnInv, Types, InFlight
    <3>2. req'[r].at = "done"
      BY <3>1, EndedType
    <3> QED BY <3>2 DEF InScope
  <2> QED BY <2>2, <2>3, <2>4, <2>5, <2>6 DEF Next
<1> QED BY <1>1, TurnsHold, PTL DEF Spec, ActiveStaysCached
=============================================================================
