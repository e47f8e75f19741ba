----------------------------- MODULE BrowserProofs -----------------------------
(***************************************************************************)
(* Proofs about the browser's tools: the contexts of the agents, the live  *)
(* pictures, the files a call reports, the elements it acts on, the text   *)
(* it types and the sections it is given. Each is a behaviour of its own,  *)
(* so its invariant is proved of its own steps and then of AllSpec, whose  *)
(* other steps leave its variables alone.                                  *)
(***************************************************************************)
EXTENDS MCBrowser, SequenceFacts, FiniteSetTheorems

-----------------------------------------------------------------------------
(* The contexts of the one browser                                         *)

\* The names of the parts are told apart.
Distinct ==
    /\ None \notin Call \cup Pool!Key /\ Call \cap Pool!Key = {} /\ Conv \cap Sub = {}
    /\ "shutdown" \notin Call \cup Pool!Key /\ MaxChromes \in Nat /\ MaxContexts \in Nat

CtxType  == [at : {"free", "open", "closing", "closed"}, key : Pool!Key \cup {None}, in : Nat]
CallType == [at : {"idle", "launching", "waiting", "creating", "using"}, key : Pool!Key \cup {None},
             in : Nat, holds : Pool!Context \cup {0}, orphan : BOOLEAN]
Waiter   == Call \cup Pool!Key \cup {"shutdown"}

PoolTypes ==
    /\ chromes \subseteq 1..MaxChromes /\ root \in Nat
    /\ pool \in [Pool!Key -> Pool!Context \cup {0}] /\ ctx \in [Pool!Context -> CtxType]
    /\ lock \in Call \cup {None} /\ queue \in Seq(Waiter)
    /\ working \subseteq Pool!Key /\ release \in [Pool!Key -> {"none", "waiting", "closing"}]
    /\ poolCall \in [Call -> CallType] /\ hooked \in BOOLEAN
    /\ shut \in {"no", "waiting", "closing", "closed"}
    /\ shut = "no" => \A i \in 1..Len(queue) : queue[i] # "shutdown"

(* The call that creates a context holds the lock, and its key has none.   *)
Locked ==
    /\ \A c \in Call : poolCall[c].at = "creating" <=> lock = c
    /\ \A c \in Call : poolCall[c].at = "creating" => pool[poolCall[c].key] = 0

(* A call has a key that is at work, unless a stop left the call behind.   *)
Keyed ==
    /\ \A c \in Call : poolCall[c].at # "idle" => poolCall[c].key \in Pool!Key
    /\ \A c \in Call : poolCall[c].at # "idle" /\ ~poolCall[c].orphan => poolCall[c].key \in working
    /\ \A c \in Call : poolCall[c].at # "idle" /\ poolCall[c].key \in Sub =>
          poolCall[c].key \in working \cup left

(* A release that waits for the lock is ahead of every call of its key     *)
(* that was not left behind.                                               *)
Queued(q, cl, rel) ==
    /\ \A i, j \in 1..Len(q) : q[i] = q[j] => i = j
    /\ \A j \in 1..Len(q) : q[j] \in Call => cl[q[j]].at = "waiting"
    /\ \A k \in Pool!Key : rel[k] = "waiting" <=> \E j \in 1..Len(q) : q[j] = k
    /\ \A j \in 1..Len(q) : q[j] \in Call /\ ~cl[q[j]].orphan /\ rel[cl[q[j]].key] = "waiting" =>
          \E i \in 1..(j - 1) : q[i] = cl[q[j]].key

(* A context in the pool is open and its key's, and no other is open.      *)
Pooled ==
    /\ \A k \in Pool!Key : pool[k] # 0 => ctx[pool[k]].at = "open" /\ ctx[pool[k]].key = k
    /\ \A i \in Pool!Context : ctx[i].at = "open" => ctx[i].key \in Pool!Key /\ pool[ctx[i].key] = i

(* Whoever works in a context works in the one its key has in the pool.    *)
Safe ==
    \A c \in Call : poolCall[c].at \in {"creating", "using"} /\ ~poolCall[c].orphan =>
        /\ release[poolCall[c].key] # "waiting"
        /\ poolCall[c].at = "using" /\ shut \in {"no", "waiting"} =>
              poolCall[c].holds \in Pool!Context /\ pool[poolCall[c].key] = poolCall[c].holds

(* The exit hook is there before any context, and a sub-agent that is over *)
(* has had its context released.                                           *)
Released ==
    /\ root # 0 => hooked
    /\ \A c \in Call : poolCall[c].at # "idle" => hooked
    /\ \A k \in Pool!Key : pool[k] # 0 => hooked
    /\ \A k \in Sub \cap working : release[k] = "none"
    /\ \A k \in Sub \ (working \cup left) : release[k] # "waiting" => pool[k] = 0

PoolInv ==
    /\ PoolTypes /\ Locked /\ Keyed /\ Queued(queue, poolCall, release)
    /\ Pooled /\ Safe /\ Released

-----------------------------------------------------------------------------
(* The queue of the lock. *)

(* Tail takes the first one off.                                           *)
LEMMA TailFacts ==
    ASSUME NEW S, NEW q \in Seq(S), q # <<>>
    PROVE  /\ Tail(q) \in Seq(S) /\ Len(Tail(q)) \in Nat /\ Len(q) = Len(Tail(q)) + 1
           /\ Head(q) = q[1] /\ q[1] \in S /\ 1 \in 1..Len(q)
           /\ \A i \in 1..Len(Tail(q)) : Tail(q)[i] = q[i + 1] /\ i + 1 \in 1..Len(q)
<1>1. Len(q) \in Nat /\ Len(q) # 0
  OBVIOUS
<1> QED BY <1>1

(* Append adds one at the end.                                             *)
LEMMA AppendFacts ==
    ASSUME NEW S, NEW q \in Seq(S), NEW x \in S
    PROVE  /\ Append(q, x) \in Seq(S) /\ Len(q) \in Nat /\ Len(Append(q, x)) = Len(q) + 1
           /\ Append(q, x)[Len(q) + 1] = x
           /\ \A i \in 1..Len(q) : Append(q, x)[i] = q[i]
OBVIOUS

(* Neither calls nor releases change what matters to the order.            *)
LEMMA QueueKept ==
    ASSUME NEW q \in Seq(Waiter), NEW cl, NEW rel, NEW cm, NEW ren, Queued(q, cl, rel),
           \A c \in Call : cl[c].at = "waiting" =>
               cm[c].at = "waiting" /\ cm[c].key = cl[c].key /\ (~cm[c].orphan => ~cl[c].orphan),
           \A c \in Call : cl[c].at = "waiting" => cl[c].key \in Pool!Key,
           \A k \in Pool!Key : rel[k] = "waiting" <=> ren[k] = "waiting"
    PROVE  Queued(q, cm, ren)
<1>1. \A j \in 1..Len(q) : q[j] \in Call => cl[q[j]].at = "waiting" /\ cm[q[j]].at = "waiting"
  BY DEF Queued
<1>2. \A k \in Pool!Key : ren[k] = "waiting" <=> \E j \in 1..Len(q) : q[j] = k
  BY DEF Queued
<1>3. ASSUME NEW j \in 1..Len(q), q[j] \in Call, ~cm[q[j]].orphan, ren[cm[q[j]].key] = "waiting"
      PROVE  \E i \in 1..(j - 1) : q[i] = cm[q[j]].key
  <2>1. cm[q[j]].key = cl[q[j]].key /\ ~cl[q[j]].orphan /\ rel[cl[q[j]].key] = "waiting"
    BY <1>1, <1>3
  <2> QED BY <1>3, <2>1 DEF Queued
<1>4. \A i, j \in 1..Len(q) : q[i] = q[j] => i = j
  BY DEF Queued
<1> QED BY <1>1, <1>2, <1>3, <1>4 DEF Queued

(* The first in the queue leaves it; a release does not wait any more.     *)
LEMMA QueueTail ==
    ASSUME Distinct, NEW q \in Seq(Waiter), q # <<>>, NEW cl, NEW rel, NEW cm, NEW ren,
           Queued(q, cl, rel),
           \A c \in Call : c # Head(q) => cm[c] = cl[c],
           \A k \in Pool!Key : k # Head(q) => (rel[k] = "waiting" <=> ren[k] = "waiting"),
           \A c \in Call : cl[c].at = "waiting" => cl[c].key \in Pool!Key,
           Head(q) \in Pool!Key => ren[Head(q)] # "waiting"
    PROVE  Queued(Tail(q), cm, ren)
<1> DEFINE t == Tail(q)
<1>1. /\ t \in Seq(Waiter) /\ Len(t) \in Nat /\ Len(q) = Len(t) + 1 /\ Head(q) = q[1] /\ 1 \in 1..Len(q)
      /\ \A i \in 1..Len(t) : t[i] = q[i + 1] /\ i + 1 \in 1..Len(q)
      /\ \A j \in 1..Len(q) : j # 1 => j - 1 \in 1..Len(t) /\ q[j] = t[j - 1]
  <2>1. /\ t \in Seq(Waiter) /\ Len(t) \in Nat /\ Len(q) = Len(t) + 1 /\ Head(q) = q[1] /\ 1 \in 1..Len(q)
        /\ \A i \in 1..Len(t) : t[i] = q[i + 1] /\ i + 1 \in 1..Len(q)
    BY TailFacts
  <2> HIDE DEF t
  <2>2. ASSUME NEW j \in 1..Len(q), j # 1 PROVE j - 1 \in 1..Len(t) /\ q[j] = t[j - 1]
    <3>1. j - 1 \in 1..Len(t) /\ (j - 1) + 1 = j
      BY <2>1, <2>2
    <3>2. t[j - 1] = q[(j - 1) + 1]
      BY <2>1, <3>1
    <3> QED BY <3>1, <3>2
  <2> QED BY <2>1, <2>2
<1> HIDE DEF t
<1>2. \A i \in 1..Len(t) : t[i] # Head(q)
  BY <1>1 DEF Queued
<1>3. \A i, j \in 1..Len(t) : t[i] = t[j] => i = j
  BY <1>1 DEF Queued
<1>4. \A j \in 1..Len(t) : t[j] \in Call => cm[t[j]].at = "waiting" /\ cm[t[j]] = cl[t[j]]
  BY <1>1, <1>2 DEF Queued
<1>5. \A k \in Pool!Key : ren[k] = "waiting" <=> \E j \in 1..Len(t) : t[j] = k
  <2>1. ASSUME NEW k \in Pool!Key PROVE (ren[k] = "waiting") <=> \E j \in 1..Len(t) : t[j] = k
    <3>1. CASE k = Head(q)
      BY <1>2, <3>1
    <3>2. CASE k # Head(q)
      <4>1. ren[k] = "waiting" <=> \E j \in 1..Len(q) : q[j] = k
        BY <3>2 DEF Queued
      <4>2. ASSUME NEW j \in 1..Len(q), q[j] = k PROVE \E i \in 1..Len(t) : t[i] = k
        <5>1. j # 1
          BY <1>1, <3>2, <4>2
        <5>2. j - 1 \in 1..Len(t) /\ t[j - 1] = k
          BY <1>1, <4>2, <5>1
        <5> QED BY <5>2
      <4>3. ASSUME NEW i \in 1..Len(t), t[i] = k PROVE \E j \in 1..Len(q) : q[j] = k
        <5>1. i + 1 \in 1..Len(q) /\ q[i + 1] = k
          BY <1>1, <4>3
        <5> QED BY <5>1
      <4> QED BY <3>2, <4>1, <4>2, <4>3
    <3> QED BY <3>1, <3>2
  <2> QED BY <2>1
<1>6. ASSUME NEW j \in 1..Len(t), t[j] \in Call, ~cm[t[j]].orphan, ren[cm[t[j]].key] = "waiting"
      PROVE  \E i \in 1..(j - 1) : t[i] = cm[t[j]].key
  <2> DEFINE k == cl[t[j]].key
  <2>1. cm[t[j]] = cl[t[j]] /\ k \in Pool!Key /\ ren[k] = "waiting" /\ k # Head(q) /\ rel[k] = "waiting"
    BY <1>4, <1>6
  <2>0. j + 1 \in 1..Len(q) /\ q[j + 1] = t[j]
    BY <1>1
  <2> HIDE DEF k
  <2>2. PICK i \in 1..((j + 1) - 1) : q[i] = k
    <3>1. q[j + 1] \in Call /\ ~cl[q[j + 1]].orphan /\ cl[q[j + 1]].key = k
      BY <1>6, <2>0, <2>1 DEF k
    <3> QED BY <2>0, <2>1, <3>1 DEF Queued
  <2>3. i # 1 /\ i - 1 \in 1..(j - 1) /\ i - 1 \in 1..Len(t)
    BY <1>1, <2>1, <2>2
  <2>4. t[i - 1] = k /\ cm[t[j]].key = k
    BY <1>1, <2>1, <2>2, <2>3 DEF k
  <2> QED BY <2>3, <2>4
<1> QED BY <1>3, <1>4, <1>5, <1>6 DEF Queued, t

(* Whoever comes is the last one; a release that comes finds only calls of *)
(* its key that were left behind.                                          *)
LEMMA QueueAppend ==
    ASSUME Distinct, NEW q \in Seq(Waiter), NEW x \in Waiter, NEW cl, NEW rel, NEW cm, NEW ren,
           Queued(q, cl, rel), \A i \in 1..Len(q) : q[i] # x,
           \A c \in Call : c # x /\ cl[c].at = "waiting" =>
               cm[c].at = "waiting" /\ cm[c].key = cl[c].key /\ (~cm[c].orphan => ~cl[c].orphan),
           \A k \in Pool!Key : k # x => (rel[k] = "waiting" <=> ren[k] = "waiting"),
           x \in Pool!Key => ren[x] = "waiting"
                 /\ \A c \in Call : cm[c].at = "waiting" /\ cm[c].key = x => cm[c].orphan,
           x \in Call => cm[x].at = "waiting"
                 /\ cm[x].key \in Pool!Key,
           \A c \in Call : cl[c].at = "waiting" => cl[c].key \in Pool!Key
    PROVE  Queued(Append(q, x), cm, ren)
<1> DEFINE t == Append(q, x)
<1>1. /\ Len(q) \in Nat /\ Len(t) = Len(q) + 1 /\ t[Len(q) + 1] = x
      /\ \A i \in 1..Len(q) : t[i] = q[i]
      /\ \A i \in 1..Len(t) : i \in 1..Len(q) \/ i = Len(q) + 1
  BY AppendFacts
<1> HIDE DEF t
<1>2. \A i, j \in 1..Len(t) : t[i] = t[j] => i = j
  BY <1>1 DEF Queued
<1>3. \A j \in 1..Len(t) : t[j] \in Call => cm[t[j]].at = "waiting"
  BY <1>1 DEF Queued
<1>4. \A k \in Pool!Key : ren[k] = "waiting" <=> \E j \in 1..Len(t) : t[j] = k
  <2>1. ASSUME NEW k \in Pool!Key PROVE (ren[k] = "waiting") <=> \E j \in 1..Len(t) : t[j] = k
    <3>1. (\E j \in 1..Len(t) : t[j] = k) <=> (k = x \/ \E j \in 1..Len(q) : q[j] = k)
      BY <1>1
    <3>2. CASE k = x
      BY <3>1, <3>2
    <3>3. CASE k # x
      BY <3>1, <3>3 DEF Queued
    <3> QED BY <3>2, <3>3
  <2> QED BY <2>1
<1>5. ASSUME NEW j \in 1..Len(t), t[j] \in Call, ~cm[t[j]].orphan, ren[cm[t[j]].key] = "waiting"
      PROVE  \E i \in 1..(j - 1) : t[i] = cm[t[j]].key
  <2>1. CASE j \in 1..Len(q)
    <3> DEFINE c == q[j]
    <3>1. c \in Call /\ t[j] = c /\ cl[c].at = "waiting" /\ c # x
      BY <1>1, <1>5, <2>1 DEF Queued
    <3>2. cm[c].key = cl[c].key /\ ~cl[c].orphan /\ cl[c].key \in Pool!Key /\ cm[c].at = "waiting"
      BY <1>5, <3>1
    <3>3. cl[c].key # x
      BY <1>5, <3>1, <3>2
    <3>4. rel[cl[c].key] = "waiting"
      BY <1>5, <3>1, <3>2, <3>3
    <3>5. \E i \in 1..(j - 1) : q[i] = cl[c].key
      BY <2>1, <3>1, <3>2, <3>4 DEF Queued
    <3> QED BY <1>1, <2>1, <3>1, <3>2, <3>5
  <2>2. CASE j = Len(q) + 1
    <3>1. x \in Call /\ cm[x].key # x /\ rel[cm[x].key] = "waiting"
      BY <1>1, <1>5, <2>2 DEF Distinct
    <3>2. PICK i \in 1..Len(q) : q[i] = cm[x].key
      BY <3>1 DEF Queued
    <3> QED BY <1>1, <2>2, <3>2
  <2> QED BY <1>1, <2>1, <2>2
<1> QED BY <1>2, <1>3, <1>4, <1>5 DEF Queued, t
-----------------------------------------------------------------------------
(* The steps of turns and spans, of the shutdown and of the processes.     *)

(* Before anything is asked for.                                           *)
LEMMA PoolInit == ASSUME Distinct PROVE Pool!Init => PoolInv
<1> SUFFICES ASSUME Pool!Init PROVE PoolInv
  OBVIOUS
<1> USE DEF Pool!Init, Pool!Idle, Pool!Free
<1>1. PoolTypes
  <2>1. poolCall \in [Call -> CallType] /\ ctx \in [Pool!Context -> CtxType] /\ pool \in [Pool!Key -> Pool!Context \cup {0}]
    BY DEF CtxType, CallType
  <2>2. queue \in Seq(Waiter) /\ \A i \in 1..Len(queue) : queue[i] # "shutdown"
    OBVIOUS
  <2> QED BY <2>1, <2>2 DEF PoolTypes
<1>2. Locked /\ Keyed /\ Safe /\ Released
  BY DEF Distinct, Locked, Keyed, Safe, Released, Pool!Key
<1>3. Queued(queue, poolCall, release)
  BY DEF Queued
<1>4. Pooled
  BY DEF Pooled
<1> QED BY <1>1, <1>2, <1>3, <1>4 DEF PoolInv

(* A turn begins, or the span of a new sub-agent.                          *)
LEMMA EnterKeeps ==
    ASSUME Distinct, PoolInv, NEW k \in Pool!Key, Pool!Enter(k) PROVE PoolInv'
<1> USE DEF PoolInv, Pool!Enter, Pool!pools
<1>1. PoolTypes'
  BY DEF PoolTypes
<1>2. Locked' /\ Pooled'
  BY DEF Locked, Pooled
<1>3. Keyed'
  BY DEF Keyed
<1>4. Queued(queue, poolCall, release)'
  BY DEF Queued
<1>5. Safe'
  BY DEF Safe
<1>6. Released'
  BY DEF Released, Pool!Key
<1> QED BY <1>1, <1>2, <1>3, <1>4, <1>5, <1>6

(* It ends, and leaves what still runs behind.                             *)
LEMMA ExitKeeps ==
    ASSUME Distinct, PoolInv, NEW k \in Pool!Key, Pool!Exit(k) PROVE PoolInv'
<1> USE DEF PoolInv
<1>1. /\ UNCHANGED <<chromes, root, pool, ctx, lock, shut, hooked>>
      /\ working' = working \ {k} /\ k \in working
      /\ left' = IF Pool!Running(k) # {} THEN left \cup {k} ELSE left
      /\ poolCall' \in [Call -> CallType]
      /\ \A c \in Call : /\ poolCall'[c].at = poolCall[c].at /\ poolCall'[c].key = poolCall[c].key
                         /\ poolCall'[c].holds = poolCall[c].holds
                         /\ (~poolCall'[c].orphan => ~poolCall[c].orphan)
                         /\ (poolCall[c].at # "idle" /\ poolCall[c].key = k => poolCall'[c].orphan)
  BY ZenonT(30) DEF Pool!Exit, Pool!pools, PoolTypes, CallType, Pool!Running
<1>2. \/ /\ k \in Sub /\ hooked /\ release[k] = "none"
         /\ release' = [release EXCEPT ![k] = "waiting"] /\ queue' = Append(queue, k)
      \/ ~(k \in Sub /\ hooked /\ release[k] = "none") /\ UNCHANGED <<release, queue>>
  BY DEF Pool!Exit
<1>3. PoolTypes'
  <2>0. k \in Waiter /\ queue \in Seq(Waiter)
    BY DEF PoolTypes, Waiter
  <2>1. queue' \in Seq(Waiter) /\ release' \in [Pool!Key -> {"none", "waiting", "closing"}]
    <3>1. Append(queue, k) \in Seq(Waiter)
      BY <2>0, AppendFacts
    <3>2. release \in [Pool!Key -> {"none", "waiting", "closing"}]
      BY DEF PoolTypes
    <3> QED BY <1>2, <2>0, <3>1, <3>2
  <2>2. shut' = "no" => \A i \in 1..Len(queue') : queue'[i] # "shutdown"
    <3>1. CASE queue' = Append(queue, k)
      BY <1>1, <3>1, AppendFacts DEF PoolTypes, Distinct, Waiter
    <3>2. CASE queue' = queue
      BY <1>1, <3>2 DEF PoolTypes
    <3> QED BY <1>2, <3>1, <3>2
  <2> QED BY <1>1, <2>1, <2>2 DEF PoolTypes
<1>4. Locked' /\ Pooled'
  BY <1>1 DEF Locked, Pooled
<1>5. Keyed'
  BY <1>1 DEF Keyed, Pool!Running
<1>6. Queued(queue, poolCall, release)'
  <2>1. \A c \in Call : poolCall[c].at = "waiting" => poolCall[c].key \in Pool!Key
    BY DEF Keyed
  <2>2. CASE UNCHANGED <<release, queue>>
    BY <1>1, <2>1, <2>2, QueueKept DEF PoolTypes
  <2>3. CASE release[k] = "none" /\ release' = [release EXCEPT ![k] = "waiting"] /\ queue' = Append(queue, k)
    <3>1. \A i \in 1..Len(queue) : queue[i] # k
      BY <2>3 DEF Queued
    <3>2. k \notin Call /\ k \in Waiter
      BY DEF Distinct, Waiter
    <3>3. release'[k] = "waiting" /\ \A l \in Pool!Key : l # k => release'[l] = release[l]
      BY <2>3 DEF PoolTypes
    <3>4. /\ \A c \in Call : poolCall[c].at = "waiting" =>
                 /\ poolCall'[c].at = "waiting" /\ poolCall'[c].key = poolCall[c].key
                 /\ (~poolCall'[c].orphan => ~poolCall[c].orphan)
          /\ \A c \in Call : poolCall'[c].at = "waiting" /\ poolCall'[c].key = k => poolCall'[c].orphan
      BY <1>1
    <3>5. queue \in Seq(Waiter) /\ Queued(queue, poolCall, release)
      BY DEF PoolTypes
    <3> HIDE DEF PoolInv
    <3>6. Queued(Append(queue, k), poolCall', release')
      BY <2>1, <3>1, <3>2, <3>3, <3>4, <3>5, QueueAppend
    <3> QED BY <2>3, <3>6
  <2> QED BY <1>2, <2>2, <2>3
<1>7. \A l \in Pool!Key : l # k => release'[l] = release[l]
  BY <1>2 DEF PoolTypes
<1>8. Safe'
  BY <1>1, <1>7 DEF Safe, Keyed
<1>9. Released'
  <2>1. \A l \in Sub : l \in Pool!Key
    BY DEF Pool!Key
  <2>2. \A l \in (Sub \cap working)' : release'[l] = "none"
    BY <1>1, <1>7, <2>1 DEF Released
  <2>3. k \in Sub => release[k] = "none"
    BY <1>1 DEF Released
  <2>4. k \in Sub /\ release'[k] # "waiting" => pool[k] = 0
    BY <1>2, <2>3 DEF Released, PoolTypes
  <2>5. \A l \in (Sub \ (working \cup left))' : release'[l] # "waiting" => pool[l] = 0
    BY <1>1, <1>7, <2>1, <2>4 DEF Released
  <2> QED BY <1>1, <2>2, <2>5 DEF Released
<1> QED BY <1>3, <1>4, <1>5, <1>6, <1>8, <1>9

(* A conversation is evicted: its turns are over.                          *)
LEMMA EvictKeeps ==
    ASSUME Distinct, PoolInv, NEW k \in Pool!Key, Pool!Evict(k) PROVE PoolInv'
<1> USE DEF PoolInv
<1>1. /\ UNCHANGED <<chromes, root, pool, ctx, lock, working, poolCall, shut, hooked, left>>
      /\ k \in Conv \ working /\ release[k] = "none"
      /\ release' = [release EXCEPT ![k] = "waiting"] /\ queue' = Append(queue, k)
  BY DEF Pool!Evict, Pool!pools
<1>2. release'[k] = "waiting" /\ \A l \in Pool!Key : l # k => release'[l] = release[l]
  BY <1>1 DEF PoolTypes
<1>3. PoolTypes'
  <2>1. queue' \in Seq(Waiter) /\ release' \in [Pool!Key -> {"none", "waiting", "closing"}]
    BY <1>1, AppendFacts DEF PoolTypes, Waiter
  <2>2. shut' = "no" => \A i \in 1..Len(queue') : queue'[i] # "shutdown"
    BY <1>1, AppendFacts DEF PoolTypes, Distinct, Waiter
  <2> QED BY <1>1, <2>1, <2>2 DEF PoolTypes
<1>4. Locked' /\ Pooled' /\ Keyed'
  BY <1>1 DEF Locked, Pooled, Keyed
<1>5. Queued(queue, poolCall, release)'
  <2>1. \A c \in Call : poolCall[c].at = "waiting" => poolCall[c].key \in Pool!Key
    BY DEF Keyed
  <2>2. \A i \in 1..Len(queue) : queue[i] # k
    BY <1>1 DEF Queued
  <2>3. k \notin Call /\ k \in Waiter
    BY DEF Distinct, Waiter
  <2>4. \A c \in Call : poolCall[c].at = "waiting" /\ poolCall[c].key = k => poolCall[c].orphan
    BY <1>1 DEF Keyed
  <2>5. Queued(Append(queue, k), poolCall, release')
    BY <1>2, <2>1, <2>2, <2>3, <2>4, QueueAppend DEF PoolTypes
  <2> QED BY <1>1, <2>5
<1>6. Safe'
  BY <1>1, <1>2 DEF Safe, Keyed
<1>7. Released'
  BY <1>1, <1>2 DEF Released, Distinct, Pool!Key
<1> QED BY <1>3, <1>4, <1>5, <1>6, <1>7

(* The server stops.                                                       *)
LEMMA ShutdownKeeps ==
    ASSUME Distinct, PoolInv, Pool!Shutdown \/ Pool!CloseRoot PROVE PoolInv'
<1> USE DEF PoolInv
<1>1. /\ UNCHANGED <<pool, ctx, lock, working, release, poolCall, hooked, left>>
      /\ shut' \in {"waiting", "closing", "closed"} /\ chromes' \subseteq 1..MaxChromes
      /\ root' \in {0, root} /\ (shut' = "waiting" => shut = "no")
      /\ \/ shut = "no" /\ queue' = Append(queue, "shutdown")
         \/ queue' = queue
  BY DEF Pool!Shutdown, Pool!CloseRoot, Pool!pools, PoolTypes
<1>2. PoolTypes'
  <2>1. "shutdown" \in Waiter /\ queue \in Seq(Waiter)
    BY DEF PoolTypes, Waiter
  <2>2. queue' \in Seq(Waiter)
    BY <1>1, <2>1, AppendFacts
  <2> QED BY <1>1, <2>2 DEF PoolTypes
<1>3. Locked' /\ Pooled' /\ Keyed'
  BY <1>1 DEF Locked, Pooled, Keyed
<1>4. Queued(queue, poolCall, release)'
  <2>1. CASE queue' = queue
    BY <1>1, <2>1 DEF Queued
  <2>2. CASE shut = "no" /\ queue' = Append(queue, "shutdown")
    <3>1. \A i \in 1..Len(queue) : queue[i] # "shutdown"
      BY <2>2 DEF PoolTypes
    <3>2. "shutdown" \notin Call \cup Pool!Key /\ "shutdown" \in Waiter
      BY DEF Distinct, Waiter
    <3>3. \A c \in Call : poolCall[c].at = "waiting" => poolCall[c].key \in Pool!Key
      BY DEF Keyed
    <3>4. Queued(Append(queue, "shutdown"), poolCall, release)
      BY <3>1, <3>2, <3>3, QueueAppend DEF PoolTypes
    <3> QED BY <1>1, <2>2, <3>4
  <2> QED BY <1>1, <2>1, <2>2
<1>5. Safe'
  BY <1>1 DEF Safe, PoolTypes
<1>6. Released'
  BY <1>1 DEF Released
<1> QED BY <1>2, <1>3, <1>4, <1>5, <1>6

-----------------------------------------------------------------------------
(* The steps of a call.                                                    *)

(* A call that asks: it queues up, or starts the browser.                  *)
LEMMA AskKeeps ==
    ASSUME Distinct, PoolInv, NEW c \in Call, Pool!Ask(c) PROVE PoolInv'
<1> USE DEF PoolInv
<1>1. PICK k \in working :
          \/ /\ root # 0 /\ queue' = Append(queue, c) /\ hooked' = hooked
             /\ poolCall' = [poolCall EXCEPT ![c] = [Pool!Idle EXCEPT !.at = "waiting", !.key = k, !.in = root]]
          \/ /\ queue' = queue /\ hooked' = TRUE
             /\ poolCall' = [poolCall EXCEPT ![c] = [Pool!Idle EXCEPT !.at = "launching", !.key = k]]
  BY DEF Pool!Ask
<1>2. /\ UNCHANGED <<chromes, root, pool, ctx, lock, working, release, shut, left>>
      /\ poolCall[c].at = "idle" /\ k \in Pool!Key /\ queue \in Seq(Waiter)
  BY DEF Pool!Ask, Pool!pools, PoolTypes
<1>3. /\ poolCall' \in [Call -> CallType] /\ poolCall'[c].key = k /\ ~poolCall'[c].orphan
      /\ poolCall'[c].at \in {"waiting", "launching"} /\ hooked'
      /\ \A d \in Call : d # c => poolCall'[d] = poolCall[d]
  <2>0. poolCall \in [Call -> CallType] /\ root \in Nat
    BY DEF PoolTypes
  <2> DEFINE x == [Pool!Idle EXCEPT !.at = "waiting", !.key = k, !.in = root]
             y == [Pool!Idle EXCEPT !.at = "launching", !.key = k]
  <2>1. Pool!Idle \in CallType /\ ~Pool!Idle.orphan
    BY DEF Pool!Idle, CallType
  <2> HIDE DEF x, y
  <2>2. x \in CallType /\ x.key = k /\ ~x.orphan /\ x.at = "waiting"
    BY <1>2, <2>0, <2>1 DEF CallType, x
  <2>3. y \in CallType /\ y.key = k /\ ~y.orphan /\ y.at = "launching"
    BY <1>2, <2>1 DEF CallType, y
  <2>4. hooked'
    BY <1>1 DEF Released
  <2>5. poolCall' = [poolCall EXCEPT ![c] = x] \/ poolCall' = [poolCall EXCEPT ![c] = y]
    BY <1>1 DEF x, y
  <2> QED BY <2>0, <2>2, <2>3, <2>4, <2>5
<1>4. \/ queue' = Append(queue, c) /\ poolCall'[c].at = "waiting"
      \/ queue' = queue
  BY <1>1 DEF PoolTypes, Pool!Idle
<1>5. PoolTypes'
  <2>1. c \in Waiter /\ c # "shutdown"
    BY DEF Waiter, Distinct
  <2>2. queue' \in Seq(Waiter) /\ (shut' = "no" => \A i \in 1..Len(queue') : queue'[i] # "shutdown")
    <3>1. CASE queue' = queue
      BY <1>2, <3>1 DEF PoolTypes
    <3>2. CASE queue' = Append(queue, c)
      BY <1>2, <2>1, <3>2, AppendFacts DEF PoolTypes
    <3> QED BY <1>4, <3>1, <3>2
  <2> QED BY <1>2, <1>3, <2>2 DEF PoolTypes
<1>6. Locked' /\ Pooled'
  BY <1>2, <1>3 DEF Locked, Pooled
<1>7. Keyed'
  BY <1>2, <1>3 DEF Keyed
<1>8. Queued(queue, poolCall, release)'
  <2>1. \A d \in Call : poolCall[d].at = "waiting" => poolCall[d].key \in Pool!Key
    BY DEF Keyed
  <2>2. Queued(queue, poolCall, release) /\ \A i \in 1..Len(queue) : queue[i] # c
    BY <1>2 DEF Queued
  <2>3. c \notin Pool!Key /\ c \in Waiter
    BY DEF Distinct, Waiter
  <2>4. \A d \in Call : d # c /\ poolCall[d].at = "waiting" =>
            /\ poolCall'[d].at = "waiting" /\ poolCall'[d].key = poolCall[d].key
            /\ (~poolCall'[d].orphan => ~poolCall[d].orphan)
    BY <1>3
  <2> HIDE DEF PoolInv
  <2>5. CASE queue' = Append(queue, c) /\ poolCall'[c].at = "waiting"
    <3>1. Queued(Append(queue, c), poolCall', release)
      BY <1>2, <1>3, <2>1, <2>2, <2>3, <2>4, <2>5, QueueAppend
    <3> QED BY <1>2, <2>5, <3>1
  <2>6. CASE queue' = queue
    <3>1. Queued(queue, poolCall', release)
      BY <1>2, <1>3, <2>1, <2>2, <2>4, QueueKept
    <3> QED BY <1>2, <2>6, <3>1
  <2> QED BY <1>4, <2>5, <2>6
<1>9. Safe'
  BY <1>2, <1>3 DEF Safe
<1>10. Released'
  BY <1>2, <1>3 DEF Released
<1> QED BY <1>5, <1>6, <1>7, <1>8, <1>9, <1>10

\* The instance counts as everyone does.
LEMMA SameCount == \A S : Pool!Cardinality(S) = Cardinality(S)
BY DEF Pool!Cardinality, Cardinality

(* The browser runs, and the call queues up.                               *)
LEMMA LaunchedKeeps ==
    ASSUME Distinct, PoolInv, NEW c \in Call, Pool!Launched(c) PROVE PoolInv'
<1> USE DEF PoolInv
<1>1. Pool!NewChrome \in 1..MaxChromes
  <2>1. \E n \in 1..MaxChromes : n \notin chromes
    <3> SUFFICES ASSUME 1..MaxChromes \subseteq chromes PROVE FALSE
      OBVIOUS
    <3>1. chromes = 1..MaxChromes /\ MaxChromes \in Nat
      BY DEF PoolTypes, Distinct
    <3>2. Cardinality(1..MaxChromes) = MaxChromes
      BY <3>1, FS_Interval
    <3>3. Cardinality(chromes) < MaxChromes
      BY SameCount DEF Pool!Launched
    <3> QED BY <3>1, <3>2, <3>3
  <2> QED BY <2>1 DEF Pool!NewChrome
<1> DEFINE n == Pool!NewChrome
<1> HIDE DEF n
<1>2. /\ UNCHANGED <<pool, ctx, lock, working, release, shut, hooked, left>>
      /\ poolCall[c].at = "launching" /\ queue' = Append(queue, c) /\ queue \in Seq(Waiter)
      /\ chromes' = chromes \cup {n} /\ root' = n /\ n \in 1..MaxChromes
      /\ poolCall' = [poolCall EXCEPT ![c].at = "waiting", ![c].in = n]
  BY <1>1 DEF Pool!Launched, Pool!pools, n, PoolTypes
<1>3. /\ poolCall' \in [Call -> CallType] /\ poolCall'[c].key = poolCall[c].key
      /\ poolCall'[c].orphan = poolCall[c].orphan
      /\ poolCall'[c].at = "waiting" /\ \A d \in Call : d # c => poolCall'[d] = poolCall[d]
  <2>1. poolCall \in [Call -> CallType] /\ poolCall[c] \in CallType /\ n \in Nat
    BY <1>2 DEF PoolTypes, Distinct
  <2> DEFINE x == [poolCall[c] EXCEPT !.at = "waiting", !.in = n]
  <2>2. x \in CallType /\ x.key = poolCall[c].key /\ x.orphan = poolCall[c].orphan /\ x.at = "waiting"
    BY <2>1 DEF CallType
  <2>3. poolCall' = [poolCall EXCEPT ![c] = x]
    BY <1>2, <2>1 DEF CallType
  <2> HIDE DEF x
  <2> QED BY <2>1, <2>2, <2>3
<1>4. hooked /\ poolCall[c].key \in Pool!Key
  BY <1>2 DEF Released, Keyed
<1>5. PoolTypes'
  <2>1. c \in Waiter /\ c # "shutdown"
    BY DEF Waiter, Distinct
  <2>2. queue' \in Seq(Waiter) /\ (shut' = "no" => \A i \in 1..Len(queue') : queue'[i] # "shutdown")
    BY <1>2, <2>1, AppendFacts DEF PoolTypes
  <2>3. root' \in Nat /\ chromes' \subseteq 1..MaxChromes
    BY <1>2 DEF PoolTypes, Distinct
  <2> QED BY <1>2, <1>3, <2>2, <2>3 DEF PoolTypes
<1>6. Locked' /\ Pooled'
  BY <1>2, <1>3 DEF Locked, Pooled
<1>7. Keyed'
  BY <1>2, <1>3 DEF Keyed
<1>8. Queued(queue, poolCall, release)'
  <2>1. \A d \in Call : poolCall[d].at = "waiting" => poolCall[d].key \in Pool!Key
    BY DEF Keyed
  <2>2. Queued(queue, poolCall, release) /\ \A i \in 1..Len(queue) : queue[i] # c
    BY <1>2 DEF Queued
  <2>3. c \notin Pool!Key /\ c \in Waiter
    BY DEF Distinct, Waiter
  <2>4. \A d \in Call : d # c /\ poolCall[d].at = "waiting" =>
            /\ poolCall'[d].at = "waiting" /\ poolCall'[d].key = poolCall[d].key
            /\ (~poolCall'[d].orphan => ~poolCall[d].orphan)
    BY <1>3
  <2> HIDE DEF PoolInv
  <2>5. Queued(Append(queue, c), poolCall', release)
    BY ZenonT(30), <1>2, <1>3, <1>4, <2>1, <2>2, <2>3, <2>4, QueueAppend
  <2> QED BY <1>2, <2>5
<1>9. Safe'
  BY <1>2, <1>3 DEF Safe
<1>10. Released'
  BY <1>2, <1>3, <1>4 DEF Released
<1> QED BY <1>5, <1>6, <1>7, <1>8, <1>9, <1>10

(* A call that ends: it starts no browser, gets no context, or returns.    *)
LEMMA EndKeeps ==
    ASSUME Distinct, PoolInv, NEW c \in Call,
           Pool!LaunchFails(c) \/ Pool!CreateFails(c) \/ Pool!Return(c)
    PROVE  PoolInv'
<1> USE DEF PoolInv
<1>1. /\ UNCHANGED <<chromes, root, pool, queue, working, release, shut, hooked, left>>
      /\ poolCall[c].at \in {"launching", "creating", "using"}
      /\ poolCall' = [poolCall EXCEPT ![c] = Pool!Idle]
      /\ lock' = IF poolCall[c].at = "creating" THEN None ELSE lock
      /\ ctx' \in [Pool!Context -> CtxType]
      /\ \A i \in Pool!Context : ctx'[i] = ctx[i] \/ (ctx[i].at = "closed" /\ ctx'[i] = Pool!Free)
  <2>1. ctx \in [Pool!Context -> CtxType] /\ Pool!Free \in CtxType
    BY DEF PoolTypes, Pool!Free, CtxType
  <2>2. CASE Pool!LaunchFails(c)
    BY <2>1, <2>2 DEF Pool!LaunchFails, Pool!pools
  <2>3. CASE Pool!CreateFails(c)
    BY <2>1, <2>3 DEF Pool!CreateFails, Pool!pools
  <2>4. CASE Pool!Return(c)
    <3>1. ctx' = [i \in Pool!Context |-> IF Pool!Gone(c, i) THEN Pool!Free ELSE ctx[i]]
      BY <2>4 DEF Pool!Return
    <3>2. ctx' \in [Pool!Context -> CtxType]
      BY <2>1, <3>1
    <3>3. \A i \in Pool!Context : ctx'[i] = ctx[i] \/ (ctx[i].at = "closed" /\ ctx'[i] = Pool!Free)
      BY <3>1 DEF Pool!Gone
    <3> QED BY <2>4, <3>2, <3>3 DEF Pool!Return
  <2> QED BY <2>2, <2>3, <2>4
<1>2. /\ poolCall' \in [Call -> CallType] /\ poolCall'[c].at = "idle"
      /\ \A d \in Call : d # c => poolCall'[d] = poolCall[d]
  BY <1>1 DEF PoolTypes, CallType, Pool!Idle
<1>3. PoolTypes'
  BY <1>1, <1>2 DEF PoolTypes
<1>4. Locked'
  BY <1>1, <1>2 DEF Locked, Distinct
<1>5. Keyed'
  BY <1>1, <1>2 DEF Keyed
<1>6. Queued(queue, poolCall, release)'
  <2>1. \A d \in Call : poolCall[d].at = "waiting" => poolCall[d].key \in Pool!Key
    BY DEF Keyed
  <2>2. Queued(queue, poolCall, release) /\ queue \in Seq(Waiter)
    BY DEF PoolTypes
  <2>3. \A d \in Call : poolCall[d].at = "waiting" =>
            /\ poolCall'[d].at = "waiting" /\ poolCall'[d].key = poolCall[d].key
            /\ (~poolCall'[d].orphan => ~poolCall[d].orphan)
    BY <1>1, <1>2
  <2> HIDE DEF PoolInv
  <2>4. Queued(queue, poolCall', release)
    BY <2>1, <2>2, <2>3, QueueKept
  <2> QED BY <1>1, <2>4
<1>7. Pooled'
  BY <1>1 DEF Pooled, PoolTypes, Pool!Free
<1>8. Safe'
  BY <1>1, <1>2 DEF Safe
<1>9. Released'
  BY <1>1, <1>2 DEF Released
<1> QED BY <1>3, <1>4, <1>5, <1>6, <1>7, <1>8, <1>9

(* Whoever is first in the queue leaves it; no call waits behind nothing.  *)
LEMMA GrantLeaves ==
    ASSUME Distinct, PoolTypes, NEW x, Pool!Granted(x), queue' = Tail(queue)
    PROVE  /\ lock = None /\ queue \in Seq(Waiter) /\ queue # <<>> /\ Head(queue) = x
           /\ queue' \in Seq(Waiter) /\ queue[1] = x /\ 1 \in 1..Len(queue) /\ x \in Waiter
           /\ shut = "no" => \A i \in 1..Len(queue') : queue'[i] # "shutdown"
<1>1. lock = None /\ queue \in Seq(Waiter) /\ queue # <<>> /\ Head(queue) = x
  BY DEF Pool!Granted, PoolTypes
<1>2. /\ queue' \in Seq(Waiter) /\ queue[1] = x /\ 1 \in 1..Len(queue) /\ x \in Waiter
      /\ \A i \in 1..Len(queue') : queue'[i] = queue[i + 1] /\ i + 1 \in 1..Len(queue)
  BY <1>1, TailFacts
<1> QED BY <1>1, <1>2 DEF PoolTypes

(* A call has the lock: it uses its key's context or goes to create one.   *)
LEMMA GetKeeps ==
    ASSUME Distinct, PoolInv, NEW c \in Call, Pool!Get(c) PROVE PoolInv'
<1> USE DEF PoolInv
<1>1. /\ UNCHANGED <<chromes, root, pool, ctx, working, release, shut, hooked, left>>
      /\ lock = None /\ queue' = Tail(queue) /\ queue \in Seq(Waiter) /\ queue # <<>> /\ Head(queue) = c
      /\ queue' \in Seq(Waiter) /\ queue[1] = c /\ 1 \in 1..Len(queue)
      /\ shut = "no" => \A i \in 1..Len(queue') : queue'[i] # "shutdown"
  BY GrantLeaves DEF Pool!Get, Pool!pools
<1>2. poolCall[c].at = "waiting" /\ poolCall[c].key \in Pool!Key
  BY <1>1 DEF Queued, Keyed
<1> DEFINE k == poolCall[c].key
<1>3. \/ /\ pool[k] # 0 /\ lock' = lock
         /\ poolCall' = [poolCall EXCEPT ![c].at = "using", ![c].holds = pool[k]]
      \/ /\ pool[k] = 0 /\ lock' = c /\ poolCall' = [poolCall EXCEPT ![c].at = "creating"]
  BY DEF Pool!Get, Pool!Uses
<1>4. /\ poolCall' \in [Call -> CallType] /\ poolCall'[c].key = k
      /\ poolCall'[c].orphan = poolCall[c].orphan
      /\ poolCall'[c].at \in {"using", "creating"} /\ \A d \in Call : d # c => poolCall'[d] = poolCall[d]
      /\ poolCall'[c].at = "using" => poolCall'[c].holds = pool[k] /\ pool[k] # 0 /\ lock' = None
      /\ poolCall'[c].at = "creating" => pool[k] = 0 /\ lock' = c
  <2>1. poolCall \in [Call -> CallType] /\ poolCall[c] \in CallType /\ pool[k] \in Pool!Context \cup {0}
    BY <1>2 DEF PoolTypes
  <2> DEFINE x == [poolCall[c] EXCEPT !.at = "using", !.holds = pool[k]]
             y == [poolCall[c] EXCEPT !.at = "creating"]
  <2>2. x \in CallType /\ x.key = k /\ x.orphan = poolCall[c].orphan /\ x.at = "using" /\ x.holds = pool[k]
    BY <2>1 DEF CallType
  <2>3. y \in CallType /\ y.key = k /\ y.orphan = poolCall[c].orphan /\ y.at = "creating"
    BY <2>1 DEF CallType
  <2>4. \/ pool[k] # 0 /\ lock' = None /\ poolCall' = [poolCall EXCEPT ![c] = x]
        \/ pool[k] = 0 /\ lock' = c /\ poolCall' = [poolCall EXCEPT ![c] = y]
    BY <1>1, <1>3, <2>1 DEF CallType
  <2> HIDE DEF x, y, k
  <2> QED BY <2>1, <2>2, <2>3, <2>4
<1> HIDE DEF k
<1>5. PoolTypes'
  BY <1>1, <1>4 DEF PoolTypes
<1>6. Locked'
  BY <1>1, <1>4 DEF Locked, Distinct, k
<1>7. Keyed'
  BY <1>1, <1>2, <1>4 DEF Keyed, k
<1>8. Queued(queue, poolCall, release)'
  <2>1. \A d \in Call : poolCall[d].at = "waiting" => poolCall[d].key \in Pool!Key
    BY DEF Keyed
  <2>2. Queued(queue, poolCall, release) /\ c \notin Pool!Key
    BY DEF Distinct
  <2> HIDE DEF PoolInv
  <2>3. Queued(Tail(queue), poolCall', release)
    BY <1>1, <1>4, <2>1, <2>2, QueueTail
  <2> QED BY <1>1, <2>3
<1>9. ~poolCall[c].orphan => release[k] # "waiting"
  BY <1>1, <1>2 DEF Queued, k
<1>10. Safe'
  BY <1>1, <1>4, <1>9, <1>2 DEF Safe, PoolTypes, k
<1>11. Released' /\ Pooled'
  BY <1>1, <1>2, <1>4 DEF Released, Pooled
<1> QED BY <1>5, <1>6, <1>7, <1>8, <1>10, <1>11

(* A new context is its key's: the key had none, and the lock kept it so.  *)
LEMMA CreatedKeeps ==
    ASSUME Distinct, PoolInv, NEW c \in Call, Pool!Created(c) PROVE PoolInv'
<1> USE DEF PoolInv
<1> DEFINE k == poolCall[c].key
           n == Pool!NewContext
<1>1. n \in Pool!Context /\ ctx[n] = Pool!Free
  BY DEF Pool!Created, Pool!NewContext
<1> HIDE DEF n
<1>2. /\ UNCHANGED <<chromes, root, queue, working, release, shut, hooked, left>>
      /\ poolCall[c].at = "creating" /\ lock' = None /\ lock = c
      /\ ctx' = [ctx EXCEPT ![n] = [at |-> "open", key |-> k, in |-> poolCall[c].in]]
      /\ pool' = [pool EXCEPT ![k] = n]
      /\ poolCall' = [poolCall EXCEPT ![c].at = "using", ![c].holds = n]
      /\ k \in Pool!Key /\ pool[k] = 0
  BY DEF Pool!Created, Pool!Uses, n, Keyed, Locked
<1> HIDE DEF k
<1>3. /\ poolCall' \in [Call -> CallType] /\ poolCall'[c].key = k
      /\ poolCall'[c].orphan = poolCall[c].orphan
      /\ poolCall'[c].at = "using" /\ poolCall'[c].holds = n /\ \A d \in Call : d # c => poolCall'[d] = poolCall[d]
  <2>1. poolCall \in [Call -> CallType] /\ poolCall[c] \in CallType
    BY DEF PoolTypes
  <2> DEFINE x == [poolCall[c] EXCEPT !.at = "using", !.holds = n]
  <2>2. x \in CallType /\ x.key = k /\ x.orphan = poolCall[c].orphan /\ x.at = "using" /\ x.holds = n
    BY <1>1, <2>1 DEF CallType, k
  <2>3. poolCall' = [poolCall EXCEPT ![c] = x]
    BY <1>2, <2>1 DEF CallType
  <2> HIDE DEF x
  <2> QED BY <2>1, <2>2, <2>3
<1>4. /\ ctx' \in [Pool!Context -> CtxType] /\ pool' \in [Pool!Key -> Pool!Context \cup {0}]
      /\ ctx'[n].at = "open" /\ ctx'[n].key = k /\ \A i \in Pool!Context : i # n => ctx'[i] = ctx[i]
      /\ pool'[k] = n /\ \A l \in Pool!Key : l # k => pool'[l] = pool[l]
  <2>1. ctx \in [Pool!Context -> CtxType] /\ pool \in [Pool!Key -> Pool!Context \cup {0}] /\ poolCall[c].in \in Nat
    BY DEF PoolTypes, CallType
  <2>2. [at |-> "open", key |-> k, in |-> poolCall[c].in] \in CtxType
    BY <1>2, <2>1 DEF CtxType
  <2> QED BY <1>1, <1>2, <2>1, <2>2
<1>5. PoolTypes'
  BY <1>2, <1>3, <1>4 DEF PoolTypes
<1>6. Locked'
  BY <1>2, <1>3 DEF Locked, Distinct
<1>7. Keyed'
  BY <1>2, <1>3 DEF Keyed, k
<1>8. Queued(queue, poolCall, release)'
  <2>1. \A d \in Call : poolCall[d].at = "waiting" => poolCall[d].key \in Pool!Key
    BY DEF Keyed
  <2>2. Queued(queue, poolCall, release) /\ queue \in Seq(Waiter)
    BY DEF PoolTypes
  <2>3. \A d \in Call : poolCall[d].at = "waiting" =>
            /\ poolCall'[d].at = "waiting" /\ poolCall'[d].key = poolCall[d].key
            /\ (~poolCall'[d].orphan => ~poolCall[d].orphan)
    BY <1>2, <1>3
  <2> HIDE DEF PoolInv
  <2>4. Queued(queue, poolCall', release)
    BY <2>1, <2>2, <2>3, QueueKept
  <2> QED BY <1>2, <2>4
<1>9. 0 \notin Pool!Context
  BY DEF Pool!Context, Distinct
<1>10. Pooled'
  <2>1. ASSUME NEW l \in Pool!Key, pool'[l] # 0
        PROVE ctx'[pool'[l]].at = "open" /\ ctx'[pool'[l]].key = l
    <3>1. CASE l = k
      BY <1>4, <3>1
    <3>2. CASE l # k
      <4>1. pool'[l] = pool[l] /\ pool[l] \in Pool!Context /\ ctx[pool[l]].at = "open" /\ ctx[pool[l]].key = l
        BY <1>4, <2>1, <3>2 DEF Pooled, PoolTypes
      <4>2. pool[l] # n
        BY <1>1, <4>1 DEF Pool!Free
      <4> QED BY <1>4, <4>1, <4>2
    <3> QED BY <3>1, <3>2
  <2>2. ASSUME NEW i \in Pool!Context, ctx'[i].at = "open"
        PROVE ctx'[i].key \in Pool!Key /\ pool'[ctx'[i].key] = i
    <3>1. CASE i = n
      BY <1>2, <1>4, <3>1
    <3>2. CASE i # n
      <4>1. ctx'[i] = ctx[i] /\ ctx[i].key \in Pool!Key /\ pool[ctx[i].key] = i
        BY <1>4, <2>2, <3>2 DEF Pooled
      <4>2. ctx[i].key # k
        BY <1>2, <1>9, <4>1
      <4> QED BY <1>4, <4>1, <4>2
    <3> QED BY <3>1, <3>2
  <2> QED BY <2>1, <2>2 DEF Pooled
<1>11. Safe'
  <2>1. ASSUME NEW d \in Call, poolCall'[d].at \in {"creating", "using"}, ~poolCall'[d].orphan
        PROVE  /\ release[poolCall'[d].key] # "waiting"
               /\ poolCall'[d].at = "using" /\ shut \in {"no", "waiting"} =>
                     poolCall'[d].holds \in Pool!Context /\ pool'[poolCall'[d].key] = poolCall'[d].holds
    <3>1. CASE d = c
      BY <1>1, <1>2, <1>3, <1>4, <2>1, <3>1 DEF Safe, k
    <3>2. CASE d # c
      <4>1. poolCall'[d] = poolCall[d] /\ poolCall[d].key \in Pool!Key
        BY <1>3, <2>1, <3>2 DEF Keyed
      <4>2. /\ release[poolCall[d].key] # "waiting"
            /\ poolCall[d].at = "using" /\ shut \in {"no", "waiting"} =>
                     poolCall[d].holds \in Pool!Context /\ pool[poolCall[d].key] = poolCall[d].holds
        BY <2>1, <4>1 DEF Safe
      <4>3. poolCall[d].holds \in Pool!Context /\ pool[poolCall[d].key] = poolCall[d].holds => poolCall[d].key # k
        BY <1>2, <1>9
      <4> QED BY <1>4, <4>1, <4>2, <4>3
    <3> QED BY <3>1, <3>2
  <2> QED BY <1>2, <2>1 DEF Safe
<1>12. Released'
  <2>1. hooked /\ (k \in Sub => k \in working \cup left)
    BY <1>2 DEF Released, Keyed, k
  <2>2. \A l \in Sub : l \in Pool!Key
    BY DEF Pool!Key
  <2>3. \A l \in (Sub \ (working \cup left))' : release'[l] # "waiting" => pool'[l] = 0
    BY <1>2, <1>4, <2>1, <2>2 DEF Released
  <2>4. \A l \in (Sub \cap working)' : release'[l] = "none"
    BY <1>2 DEF Released
  <2> QED BY <1>2, <2>1, <2>3, <2>4 DEF Released
<1> QED BY <1>5, <1>6, <1>7, <1>8, <1>10, <1>11, <1>12

-----------------------------------------------------------------------------
(* The steps of a release.                                                 *)

(* A release has the lock: it takes the context out of the pool.           *)
LEMMA PoppedKeeps ==
    ASSUME Distinct, PoolInv, NEW k \in Pool!Key, Pool!Popped(k) PROVE PoolInv'
<1> USE DEF PoolInv
<1>1. /\ UNCHANGED <<chromes, root, lock, working, poolCall, shut, hooked, left>>
      /\ lock = None /\ queue' = Tail(queue) /\ queue \in Seq(Waiter) /\ queue # <<>> /\ Head(queue) = k
      /\ queue' \in Seq(Waiter) /\ queue[1] = k /\ 1 \in 1..Len(queue)
      /\ shut = "no" => \A i \in 1..Len(queue') : queue'[i] # "shutdown"
  BY GrantLeaves DEF Pool!Popped, Pool!pools
<1>2. release[k] = "waiting"
  BY <1>1 DEF Queued
<1>3. /\ pool' \in [Pool!Key -> Pool!Context \cup {0}] /\ pool'[k] = 0 /\ \A l \in Pool!Key : l # k => pool'[l] = pool[l]
      /\ release' \in [Pool!Key -> {"none", "waiting", "closing"}] /\ release'[k] # "waiting"
      /\ \A l \in Pool!Key : l # k => release'[l] = release[l]
  BY DEF Pool!Popped, PoolTypes
<1>4. /\ ctx' \in [Pool!Context -> CtxType]
      /\ pool[k] # 0 => ctx'[pool[k]].at = "closing"
      /\ \A i \in Pool!Context : i # pool[k] => ctx'[i] = ctx[i]
  <2>1. ctx \in [Pool!Context -> CtxType] /\ pool[k] \in Pool!Context \cup {0}
    BY DEF PoolTypes
  <2>2. CASE pool[k] = 0
    BY <2>1, <2>2 DEF Pool!Popped
  <2>3. CASE pool[k] # 0
    <3>1. ctx' = [ctx EXCEPT ![pool[k]].at = "closing"] /\ pool[k] \in Pool!Context /\ ctx[pool[k]] \in CtxType
      BY <2>1, <2>3 DEF Pool!Popped
    <3> DEFINE x == [ctx[pool[k]] EXCEPT !.at = "closing"]
    <3>2. x \in CtxType /\ x.at = "closing"
      BY <3>1 DEF CtxType
    <3>3. ctx' = [ctx EXCEPT ![pool[k]] = x]
      BY <3>1
    <3> HIDE DEF x
    <3> QED BY <2>1, <3>1, <3>2, <3>3
  <2> QED BY <2>2, <2>3
<1>5. PoolTypes'
  BY <1>1, <1>3, <1>4 DEF PoolTypes
<1>6. Locked' /\ Keyed'
  BY <1>1, <1>3 DEF Locked, Keyed, Distinct
<1>7. Queued(queue, poolCall, release)'
  <2>1. \A d \in Call : poolCall[d].at = "waiting" => poolCall[d].key \in Pool!Key
    BY DEF Keyed
  <2>2. Queued(queue, poolCall, release)
    OBVIOUS
  <2> HIDE DEF PoolInv
  <2>3. Queued(Tail(queue), poolCall, release')
    BY <1>1, <1>3, <2>1, <2>2, QueueTail
  <2> QED BY <1>1, <2>3
<1>8. 0 \notin Pool!Context
  BY DEF Pool!Context, Distinct
<1>9. Pooled'
  <2>1. ASSUME NEW l \in Pool!Key, pool'[l] # 0
        PROVE ctx'[pool'[l]].at = "open" /\ ctx'[pool'[l]].key = l
    <3>1. l # k /\ pool'[l] = pool[l] /\ pool[l] \in Pool!Context /\ ctx[pool[l]].at = "open" /\ ctx[pool[l]].key = l
      BY <1>3, <2>1 DEF Pooled, PoolTypes
    <3>2. pool[l] # pool[k]
      <4>1. pool[k] # 0 => ctx[pool[k]].key = k
        BY DEF Pooled
      <4> QED BY <1>8, <3>1, <4>1
    <3> QED BY <1>4, <3>1, <3>2
  <2>2. ASSUME NEW i \in Pool!Context, ctx'[i].at = "open"
        PROVE ctx'[i].key \in Pool!Key /\ pool'[ctx'[i].key] = i
    <3>1. i # pool[k] /\ ctx'[i] = ctx[i]
      BY <1>4, <1>8, <2>2
    <3>2. ctx[i].key \in Pool!Key /\ pool[ctx[i].key] = i /\ ctx[i].key # k
      BY <2>2, <3>1 DEF Pooled
    <3> QED BY <1>3, <3>1, <3>2
  <2> QED BY <2>1, <2>2 DEF Pooled
<1>10. Safe'
  BY <1>1, <1>2, <1>3 DEF Safe, Keyed
<1>11. Released'
  <2>1. \A l \in Sub : l \in Pool!Key
    BY DEF Pool!Key
  <2>2. \A l \in (Sub \cap working)' : release'[l] = "none"
    BY <1>1, <1>2, <1>3, <2>1 DEF Released
  <2>3. \A l \in (Sub \ (working \cup left))' : release'[l] # "waiting" => pool'[l] = 0
    BY <1>1, <1>3, <2>1 DEF Released
  <2>4. \A l \in Pool!Key : pool'[l] # 0 => hooked
    BY <1>3 DEF Released
  <2> QED BY <1>1, <2>2, <2>3, <2>4 DEF Released
<1> QED BY <1>5, <1>6, <1>7, <1>9, <1>10, <1>11

(* What closes is no longer in the pool.                                   *)
LEMMA ClosedType ==
    ASSUME PoolTypes, NEW i \in Pool!Context
    PROVE Pool!Closed(i) \in CtxType /\ Pool!Closed(i).at # "open"
<1>1. ctx[i] \in CtxType
  BY DEF PoolTypes
<1> QED BY <1>1 DEF Pool!Closed, CtxType, Pool!Free

(* A released context has been closed.                                     *)
LEMMA CloseContextKeeps ==
    ASSUME Distinct, PoolInv, NEW k \in Pool!Key, Pool!CloseContext(k) PROVE PoolInv'
<1> USE DEF PoolInv
<1>1. /\ UNCHANGED <<chromes, root, pool, lock, queue, working, poolCall, shut, hooked, left>>
      /\ release[k] = "closing" /\ release' = [release EXCEPT ![k] = "none"]
      /\ ctx' = [i \in Pool!Context |-> IF ctx[i].at = "closing" /\ ctx[i].key = k THEN Pool!Closed(i) ELSE ctx[i]]
  BY DEF Pool!CloseContext
<1>2. /\ release' \in [Pool!Key -> {"none", "waiting", "closing"}] /\ release'[k] = "none"
      /\ \A l \in Pool!Key : l # k => release'[l] = release[l]
  BY <1>1 DEF PoolTypes
<1>3. /\ ctx' \in [Pool!Context -> CtxType]
      /\ \A i \in Pool!Context : ctx'[i] = ctx[i] \/ (ctx[i].at = "closing" /\ ctx'[i].at # "open")
  <2>1. \A i \in Pool!Context : ctx[i] \in CtxType /\ Pool!Closed(i) \in CtxType /\ Pool!Closed(i).at # "open"
    BY ClosedType DEF PoolTypes
  <2> QED BY <1>1, <2>1
<1>4. PoolTypes'
  BY <1>1, <1>2, <1>3 DEF PoolTypes
<1>5. Locked' /\ Keyed'
  BY <1>1 DEF Locked, Keyed
<1>6. Queued(queue, poolCall, release)'
  <2>1. \A d \in Call : poolCall[d].at = "waiting" => poolCall[d].key \in Pool!Key
    BY DEF Keyed
  <2>2. Queued(queue, poolCall, release) /\ queue \in Seq(Waiter)
    BY DEF PoolTypes
  <2>3. \A l \in Pool!Key : release[l] = "waiting" <=> release'[l] = "waiting"
    BY <1>1, <1>2
  <2> HIDE DEF PoolInv
  <2>4. Queued(queue, poolCall, release')
    BY <2>1, <2>2, <2>3, QueueKept
  <2> QED BY <1>1, <2>4
<1>7. Pooled'
  BY <1>1, <1>3 DEF Pooled, PoolTypes
<1>8. Safe'
  BY <1>1, <1>2 DEF Safe, Keyed
<1>9. Released'
  BY <1>1, <1>2 DEF Released, Pool!Key
<1> QED BY <1>4, <1>5, <1>6, <1>7, <1>8, <1>9

(* The shutdown has the lock and empties the pool.                         *)
LEMMA ClearPoolKeeps ==
    ASSUME Distinct, PoolInv, Pool!ClearPool PROVE PoolInv'
<1> USE DEF PoolInv
<1>1. /\ UNCHANGED <<chromes, root, lock, working, release, poolCall, hooked, left>>
      /\ queue' = Tail(queue) /\ queue \in Seq(Waiter) /\ queue # <<>> /\ Head(queue) = "shutdown"
      /\ queue' \in Seq(Waiter) /\ shut' = "closing" /\ lock = None
      /\ pool' = [k \in Pool!Key |-> 0]
      /\ ctx' = [i \in Pool!Context |-> IF \E k \in Pool!Key : pool[k] = i THEN Pool!Closed(i) ELSE ctx[i]]
  BY GrantLeaves DEF Pool!ClearPool
<1>2. ctx' \in [Pool!Context -> CtxType] /\ \A i \in Pool!Context : ctx'[i].at # "open"
  <2>1. \A i \in Pool!Context : ctx[i] \in CtxType /\ Pool!Closed(i) \in CtxType /\ Pool!Closed(i).at # "open"
    BY ClosedType DEF PoolTypes
  <2>2. \A i \in Pool!Context : ctx[i].at = "open" => \E k \in Pool!Key : pool[k] = i
    BY DEF Pooled
  <2> QED BY <1>1, <2>1, <2>2
<1>3. PoolTypes'
  BY <1>1, <1>2 DEF PoolTypes
<1>4. Locked' /\ Keyed'
  BY <1>1 DEF Locked, Keyed, Distinct
<1>5. Queued(queue, poolCall, release)'
  <2>1. \A d \in Call : poolCall[d].at = "waiting" => poolCall[d].key \in Pool!Key
    BY DEF Keyed
  <2>2. Queued(queue, poolCall, release) /\ "shutdown" \notin Pool!Key
    BY DEF Distinct
  <2> HIDE DEF PoolInv
  <2>3. Queued(Tail(queue), poolCall, release)
    BY <1>1, <2>1, <2>2, QueueTail
  <2> QED BY <1>1, <2>3
<1>6. Pooled'
  BY <1>1, <1>2 DEF Pooled
<1>7. Safe'
  BY <1>1 DEF Safe
<1>8. Released'
  BY <1>1 DEF Released, Pool!Key
<1> QED BY <1>3, <1>4, <1>5, <1>6, <1>7, <1>8

(* Every step keeps the pool in order.                                     *)
LEMMA PoolStep == ASSUME Distinct PROVE PoolInv /\ [Pool!Next]_(Pool!vars) => PoolInv'
<1> SUFFICES ASSUME PoolInv, [Pool!Next]_(Pool!vars) PROVE PoolInv'
  OBVIOUS
<1>1. CASE UNCHANGED Pool!vars
  BY <1>1 DEF Pool!vars, Pool!pools, PoolInv, PoolTypes, Locked, Keyed, Queued, Pooled, Safe, Released
<1>2. CASE Pool!Shutdown \/ Pool!CloseRoot
  BY <1>2, ShutdownKeeps
<1>3. CASE Pool!ClearPool
  BY <1>3, ClearPoolKeeps
<1>4. ASSUME NEW k \in Pool!Key, \/ Pool!Enter(k) \/ Pool!Exit(k) \/ Pool!Evict(k)
                                 \/ Pool!Popped(k) \/ Pool!CloseContext(k)
      PROVE PoolInv'
  BY <1>4, EnterKeeps, ExitKeeps, EvictKeeps, PoppedKeeps, CloseContextKeeps
<1>5. ASSUME NEW c \in Call, \/ Pool!Ask(c) \/ Pool!Launched(c) \/ Pool!LaunchFails(c)
                             \/ Pool!Get(c) \/ Pool!Created(c) \/ Pool!CreateFails(c) \/ Pool!Return(c)
      PROVE  PoolInv'
  BY <1>5, AskKeeps, LaunchedKeeps, EndKeeps, GetKeeps, CreatedKeeps
<1> QED BY <1>1, <1>2, <1>3, <1>4, <1>5 DEF Pool!Next

LEMMA PoolSteps == [AllNext]_allVars => [Pool!Next]_(Pool!vars)
BY DEF AllNext, allVars, poolVars, Pool!vars, Pool!pools

LEMMA NamesDistinct == Distinct
BY PartsAreDistinct, BoundsAreNumbers DEF Distinct, Pool!Key

(* The invariant holds throughout.                                         *)
LEMMA PoolHolds == AllSpec => []PoolInv
<1>1. AllInit => PoolInv
  BY PoolInit, NamesDistinct DEF AllInit
<1>2. PoolInv /\ [AllNext]_allVars => PoolInv'
  BY PoolStep, PoolSteps, NamesDistinct
<1> QED BY <1>1, <1>2, PTL DEF AllSpec

(* get_browser and release_agent_browser, under the lock and in its order: *)
(* no context is closed under a call whose turn or span goes on, although  *)
(* the eviction of its conversation may have waited since before the turn, *)
(* for any number of conversations, sub-agents and calls.                  *)
THEOREM ContextsStayOpen == AllSpec => []NotClosedUnderUse
<1>1. PoolInv => NotClosedUnderUse
  <2> SUFFICES ASSUME PoolInv, NEW c \in Call, poolCall[c].at = "using", ~poolCall[c].orphan,
                      shut \in {"no", "waiting"}
               PROVE  ctx[poolCall[c].holds].at = "open"
    BY DEF NotClosedUnderUse, Pool!NotClosedUnderUse
  <2>1. /\ poolCall[c].key \in Pool!Key /\ poolCall[c].holds \in Pool!Context
        /\ pool[poolCall[c].key] = poolCall[c].holds
    BY DEF PoolInv, Keyed, Safe
  <2>2. poolCall[c].holds # 0
    BY <2>1, NamesDistinct DEF Pool!Context, Distinct
  <2> QED BY <2>1, <2>2 DEF PoolInv, Pooled
<1> QED BY <1>1, PoolHolds, PTL

(* Contexts are neither lost nor doubled: an open one is the one its key   *)
(* gets next, and a sub-agent that ended without a call under way has none.*)
THEOREM ContextsAreKept == AllSpec => []NoContextStrays
<1>1. PoolInv => NoContextStrays
  BY DEF PoolInv, Pooled, Released, NoContextStrays, Pool!NoContextStrays
<1> QED BY <1>1, PoolHolds, PTL

-----------------------------------------------------------------------------
(* The live pictures                                                       *)

(* What LastFrameIsTaken needs to be inductive: a page that was asked for  *)
(* last and not captured since has a task that will still capture it.      *)
FrameInv ==
    /\ DOMAIN tool = Agent /\ task \in {"none", "waiting", "capturing"}
    /\ pictured \in due => task = "waiting" \/ (task = "capturing" /\ newer)
    /\ Pictures!LastFrameIsTaken

(* Nothing has been asked for.                                             *)
LEMMA FrameInit == Pictures!Init => FrameInv
BY DEF Pictures!Init, FrameInv, Pictures!LastFrameIsTaken

(* Asking, capturing, ending the task and waiting for it all keep that.    *)
LEMMA FrameStep == FrameInv /\ [Pictures!Next]_(Pictures!vars) => FrameInv'
<1> SUFFICES ASSUME FrameInv, [Pictures!Next]_(Pictures!vars) PROVE FrameInv'
  OBVIOUS
<1> USE DEF FrameInv, Pictures!LastFrameIsTaken
<1>1. CASE UNCHANGED Pictures!vars
  BY <1>1 DEF Pictures!vars
<1>2. CASE Pictures!Capture
  BY <1>2 DEF Pictures!Capture
<1>3. CASE Pictures!Captured
  <2>1. CASE newer
    BY <1>3, <2>1 DEF Pictures!Captured
  <2>2. CASE ~newer
    BY <1>3, <2>2 DEF Pictures!Captured, Pictures!Waiting
  <2> QED BY <2>1, <2>2
<1>4. ASSUME NEW a \in Agent, Pictures!Begin(a) PROVE FrameInv'
  BY <1>4 DEF Pictures!Begin, Pictures!capture
<1>5. ASSUME NEW a \in Agent, Pictures!Request(a) PROVE FrameInv'
  BY <1>5 DEF Pictures!Request
<1>6. ASSUME NEW a \in Agent, Pictures!Flush(a) PROVE FrameInv'
  BY <1>6 DEF Pictures!Flush, Pictures!capture
<1> QED BY <1>1, <1>2, <1>3, <1>4, <1>5, <1>6 DEF Pictures!Next

LEMMA FrameSteps == [AllNext]_allVars => [Pictures!Next]_(Pictures!vars)
BY DEF AllNext, allVars, shotVars, Pictures!vars

(* For any number of agents and requests, a tool that has waited for the   *)
(* pictures does not return while its page is the one asked for last and   *)
(* was not captured since.                                                 *)
THEOREM LastFrame == AllSpec => []LastFrameIsTaken
<1>1. AllInit => FrameInv
  BY FrameInit DEF AllInit
<1>2. FrameInv /\ [AllNext]_allVars => FrameInv'
  BY FrameStep, FrameSteps
<1>3. FrameInv => LastFrameIsTaken
  BY DEF FrameInv, LastFrameIsTaken
<1> QED BY <1>1, <1>2, <1>3, PTL DEF AllSpec

-----------------------------------------------------------------------------
(* The files a call reports                                                *)

Left     == {"frame", "grace", "last"}
FileCall == [at : Files!Out \cup Files!Looking \cup Left, saw : BOOLEAN, tabs : SUBSET File,
             waits : SUBSET File, onTab : BOOLEAN, told : File \cup {None}, late : BOOLEAN,
             alone : BOOLEAN]

FilesTypes == pending \in Seq(File) /\ pageCall \in [Call -> FileCall]

\* What was saved for a call that has the page to itself is in the list until
\* the call has it.
Reported(c) ==
    pageCall[c].alone /\ pageCall[c].late =>
        /\ pageCall[c].at \in Files!Looking => pending # <<>>
        /\ pageCall[c].at \in Left \cup {"ended"} => pageCall[c].told # None
Alone(c) ==
    pageCall[c].at \notin Files!Out /\ pageCall[c].alone =>
        \A d \in Call \ {c} : pageCall[d].at \in Files!Out

FilesInv == FilesTypes /\ \A c \in Call : Reported(c) /\ Alone(c)

LEMMA IdleCall ==
    /\ Files!Idle \in FileCall /\ Files!Idle.at = "idle" /\ ~Files!Idle.late
BY DEF Files!Idle, FileCall, Files!Out

LEMMA FilesStart == Files!Init => FilesInv
<1> SUFFICES ASSUME Files!Init PROVE FilesInv
  OBVIOUS
<1>1. pending = <<>> /\ pageCall = [c \in Call |-> Files!Idle] /\ <<>> \in Seq(File)
  BY DEF Files!Init
<1> QED BY <1>1, IdleCall DEF FilesInv, FilesTypes, Reported, Alone, Files!Out, Files!Looking, Left

(* One call goes on, and takes what it likes from the list: no other call  *)
(* has the page to itself.                                                 *)
LEMMA CallGoes ==
    ASSUME FilesInv, NEW c \in Call, pageCall[c].at \notin Files!Out,
           pageCall' \in [Call -> FileCall], \A d \in Call \ {c} : pageCall'[d] = pageCall[d],
           pageCall'[c].alone = pageCall[c].alone, pending' \in Seq(File), Reported(c)'
    PROVE  FilesInv'
<1>1. ASSUME NEW d \in Call, d # c PROVE Reported(d)' /\ Alone(d)'
  <2>1. pageCall[d].alone => pageCall[d].at \in Files!Out
    BY <1>1 DEF FilesInv, Alone
  <2>2. pageCall'[d] = pageCall[d] /\ Reported(d)
    BY <1>1 DEF FilesInv
  <2> QED BY <2>1, <2>2 DEF Reported, Alone, Files!Out, Files!Looking, Left
<1>2. Alone(c)'
  BY DEF FilesInv, Alone
<1> QED BY <1>1, <1>2 DEF FilesInv, FilesTypes

(* The page starts and saves what it likes; no call moves.                 *)
LEMMA CallsSee ==
    ASSUME FilesInv, pageCall' \in [Call -> FileCall], pending' \in Seq(File),
           pending # <<>> => pending' # <<>>,
           \A c \in Call :
              /\ pageCall'[c].at = pageCall[c].at /\ pageCall'[c].told = pageCall[c].told
              /\ pageCall'[c].alone = pageCall[c].alone
              /\ pageCall'[c].late # pageCall[c].late =>
                    pageCall[c].at \in Files!Looking /\ pending' # <<>>
    PROVE  FilesInv'
<1>1. ASSUME NEW c \in Call PROVE Reported(c)' /\ Alone(c)'
  <2>1. Reported(c) /\ Alone(c) /\ pageCall[c] \in FileCall /\ pageCall'[c] \in FileCall
    BY DEF FilesInv, FilesTypes
  <2>2. Alone(c)'
    BY <2>1 DEF Alone
  <2>3. Reported(c)'
    BY <2>1 DEF Reported, Files!Looking, Left, FileCall
  <2> QED BY <2>2, <2>3
<1> QED BY <1>1 DEF FilesInv, FilesTypes

\* A call that ends keeps what it has to report.
LEMMA EndOfCall ==
    ASSUME FilesInv, NEW c \in Call, NEW to \in {"ended", "raised"}, Files!End(c, to)
    PROVE  /\ pageCall' \in [Call -> FileCall] /\ \A d \in Call \ {c} : pageCall'[d] = pageCall[d]
           /\ pageCall'[c].at = to /\ pageCall'[c].told = pageCall[c].told
           /\ pageCall'[c].late = pageCall[c].late /\ pageCall'[c].alone = pageCall[c].alone
<1> DEFINE x == [Files!Idle EXCEPT !.at = to, !.told = pageCall[c].told,
                                   !.late = pageCall[c].late, !.alone = pageCall[c].alone]
<1>1. pageCall[c] \in FileCall /\ pageCall \in [Call -> FileCall]
  BY DEF FilesInv, FilesTypes
<1>2. /\ x \in FileCall /\ x.at = to /\ x.told = pageCall[c].told /\ x.late = pageCall[c].late
      /\ x.alone = pageCall[c].alone
  BY <1>1, IdleCall DEF FileCall, Files!Out
<1>3. pageCall' = [pageCall EXCEPT ![c] = x]
  BY DEF Files!End
<1> HIDE DEF x
<1> QED BY <1>1, <1>2, <1>3

(* The drain gives the call the first of the list, or leaves it with none. *)
LEMMA Drained ==
    ASSUME FilesInv, NEW c \in Call, NEW to \in Files!Looking \cup Left,
           pageCall[c].at \in {"first", "late", "last"}, Files!Drain(c, to),
           pageCall[c].at = "last" => to = "frame"
    PROVE  FilesInv'
<1>0. /\ pageCall \in [Call -> FileCall] /\ pageCall[c] \in FileCall /\ pending \in Seq(File)
      /\ <<>> \in Seq(File) /\ pending' = <<>> /\ None \notin File
      /\ pageCall[c].at \notin Files!Out /\ Reported(c)
  BY PartsAreDistinct DEF FilesInv, FilesTypes, Files!Drain, Files!Out
<1>1. CASE pending # <<>>
  <2>1. Head(pending) \in File
    BY <1>0, <1>1
  <2> DEFINE f == Head(pending)
  <2>2. pageCall' = [pageCall EXCEPT ![c].told = f, ![c].at = "frame"]
    BY <1>1 DEF Files!Drain
  <2> HIDE DEF f
  <2>3. /\ pageCall' \in [Call -> FileCall] /\ \A d \in Call \ {c} : pageCall'[d] = pageCall[d]
        /\ pageCall'[c].told = f /\ pageCall'[c].at = "frame" /\ f \in File
        /\ pageCall'[c].alone = pageCall[c].alone
    BY <1>0, <2>1, <2>2 DEF FileCall, Left, f
  <2>4. Reported(c)'
    BY <1>0, <2>3 DEF Reported, Files!Looking
  <2> QED BY <1>0, <2>3, <2>4, CallGoes
<1>2. CASE pending = <<>>
  <2>1. pageCall' = [pageCall EXCEPT ![c].at = to]
    BY <1>2 DEF Files!Drain, Files!Goto
  <2>2. /\ pageCall' \in [Call -> FileCall] /\ \A d \in Call \ {c} : pageCall'[d] = pageCall[d]
        /\ pageCall'[c].at = to /\ pageCall'[c].told = pageCall[c].told
        /\ pageCall'[c].late = pageCall[c].late /\ pageCall'[c].alone = pageCall[c].alone
    BY <1>0, <2>1 DEF FileCall
  <2>3. Reported(c)'
    BY <1>0, <1>2, <2>2 DEF Reported, Files!Looking, Left
  <2> QED BY <1>0, <2>2, <2>3, CallGoes
<1> QED BY <1>1, <1>2

(* The page starts a download, or opens a tab.                             *)
LEMMA PageSeen ==
    ASSUME FilesInv, NEW f \in File, Files!Starts(f) \/ Files!PopsUp(f) PROVE FilesInv'
<1>0. pageCall \in [Call -> FileCall] /\ pending \in Seq(File) /\ pending' = pending
  BY DEF FilesInv, FilesTypes, Files!Starts, Files!PopsUp
<1>1. ASSUME NEW c \in Call
      PROVE  /\ pageCall'[c] \in FileCall
             /\ pageCall'[c].at = pageCall[c].at /\ pageCall'[c].told = pageCall[c].told
             /\ pageCall'[c].alone = pageCall[c].alone /\ pageCall'[c].late = pageCall[c].late
  <2>0. pageCall[c] \in FileCall
    BY <1>0
  <2>1. CASE Files!Starts(f)
    <3>1. PICK t \in {"page", "new"}, header \in BOOLEAN :
             pageCall' = [x \in Call |-> IF pageCall[x].at # "acting" THEN pageCall[x]
                ELSE [pageCall[x] EXCEPT !.saw = pageCall[x].saw \/ header,
                        !.tabs = IF t = "new" THEN pageCall[x].tabs \cup {f} ELSE pageCall[x].tabs]]
      BY <2>1 DEF Files!Starts
    <3> DEFINE s == pageCall[c].saw \/ header
               ts == IF t = "new" THEN pageCall[c].tabs \cup {f} ELSE pageCall[c].tabs
    <3>2. pageCall'[c] = IF pageCall[c].at # "acting" THEN pageCall[c]
                         ELSE [pageCall[c] EXCEPT !.saw = s, !.tabs = ts]
      BY <3>1
    <3>3. s \in BOOLEAN /\ ts \in SUBSET File
      BY <2>0 DEF FileCall
    <3> HIDE DEF s, ts
    <3> DEFINE r == [pageCall[c] EXCEPT !.saw = s, !.tabs = ts]
    <3>4. /\ r \in FileCall /\ r.at = pageCall[c].at /\ r.told = pageCall[c].told
          /\ r.alone = pageCall[c].alone /\ r.late = pageCall[c].late
      BY <2>0, <3>3 DEF FileCall
    <3>5. pageCall'[c] = IF pageCall[c].at # "acting" THEN pageCall[c] ELSE r
      BY <3>2
    <3> HIDE DEF r
    <3> QED BY <2>0, <3>4, <3>5
  <2>2. CASE Files!PopsUp(f)
    <3> DEFINE ts == pageCall[c].tabs \cup {f}
    <3>1. pageCall'[c] = IF pageCall[c].at # "acting" THEN pageCall[c]
                         ELSE [pageCall[c] EXCEPT !.tabs = ts]
      BY <2>2 DEF Files!PopsUp
    <3>2. ts \in SUBSET File
      BY <2>0 DEF FileCall
    <3> HIDE DEF ts
    <3> QED BY <2>0, <3>1, <3>2 DEF FileCall
  <2> QED BY <2>1, <2>2
<1>2. pageCall' \in [Call -> FileCall]
  <2>1. pageCall' = [x \in Call |-> pageCall'[x]]
    BY DEF Files!Starts, Files!PopsUp
  <2> QED BY <1>1, <2>1
<1> QED BY <1>0, <1>1, <1>2, CallsSee

(* A capture has saved its file.                                           *)
LEMMA SavedSeen == ASSUME FilesInv, NEW f \in File, Files!Saved(f) PROVE FilesInv'
<1>1. /\ pageCall \in [Call -> FileCall] /\ pending \in Seq(File) /\ pending' = Append(pending, f)
      /\ pageCall' = [c \in Call |-> IF pageCall[c].at \in Files!Looking
                                     THEN [pageCall[c] EXCEPT !.late = TRUE] ELSE pageCall[c]]
  BY DEF FilesInv, FilesTypes, Files!Saved
<1>2. pending' \in Seq(File) /\ pending' # <<>>
  BY <1>1
<1>3. ASSUME NEW c \in Call
      PROVE  /\ pageCall'[c] \in FileCall
             /\ pageCall'[c].at = pageCall[c].at /\ pageCall'[c].told = pageCall[c].told
             /\ pageCall'[c].alone = pageCall[c].alone
             /\ pageCall'[c].late # pageCall[c].late => pageCall[c].at \in Files!Looking
  BY <1>1 DEF FileCall
<1>4. pageCall' \in [Call -> FileCall]
  BY <1>1, <1>3
<1> QED BY <1>2, <1>3, <1>4, CallsSee

(* A call begins: from here no call that ran has the page to itself.       *)
LEMMA BeginAlone ==
    ASSUME FilesInv, NEW c \in Call, NEW kind \in {"act", "open"}, Files!Begin(c, kind)
    PROVE  FilesInv'
<1> DEFINE mine == [Files!Idle EXCEPT !.alone = (Files!Running = {}),
                                      !.at = IF kind = "open" THEN "loading" ELSE "acting"]
           others(x) == [pageCall[x] EXCEPT !.alone = pageCall[x].alone /\ x \notin Files!Running]
<1>0. pageCall \in [Call -> FileCall] /\ <<>> \in Seq(File)
  BY DEF FilesInv, FilesTypes
<1>8. pending' = <<>>
  BY Zenon DEF Files!Begin
<1>1. pageCall' = [x \in Call |-> IF x = c THEN mine ELSE others(x)]
  BY DEF Files!Begin
<1>2. /\ mine \in FileCall /\ ~mine.late /\ mine.alone = (Files!Running = {})
      /\ mine.at \in {"loading", "acting"}
  BY IdleCall DEF FileCall, Files!Looking
<1>3. ASSUME NEW d \in Call
      PROVE  /\ others(d) \in FileCall /\ others(d).at = pageCall[d].at
             /\ others(d).told = pageCall[d].told /\ others(d).late = pageCall[d].late
             /\ others(d).alone => pageCall[d].alone /\ d \notin Files!Running
  <2>1. pageCall[d] \in FileCall
    BY <1>0
  <2> DEFINE b == pageCall[d].alone /\ d \notin Files!Running
  <2>2. b \in BOOLEAN
    OBVIOUS
  <2> HIDE DEF b
  <2>3. [pageCall[d] EXCEPT !.alone = b] \in FileCall /\ [pageCall[d] EXCEPT !.alone = b].alone = b
    BY <2>1, <2>2 DEF FileCall
  <2>4. /\ [pageCall[d] EXCEPT !.alone = b].at = pageCall[d].at
        /\ [pageCall[d] EXCEPT !.alone = b].told = pageCall[d].told
        /\ [pageCall[d] EXCEPT !.alone = b].late = pageCall[d].late
    BY <2>1 DEF FileCall
  <2> QED BY <2>3, <2>4 DEF b
<1> HIDE DEF mine, others
<1>4. /\ pageCall' \in [Call -> FileCall] /\ pageCall'[c] = mine
      /\ \A d \in Call \ {c} : pageCall'[d] = others(d)
  BY <1>1, <1>2, <1>3
<1>5. \A d \in Call : d \notin Files!Running => pageCall[d].at \in Files!Out
  BY DEF Files!Running
<1>6. Reported(c)' /\ Alone(c)'
  <2>1. Reported(c)'
    BY <1>2, <1>4 DEF Reported
  <2>2. pageCall'[c].alone => \A d \in Call \ {c} : pageCall'[d].at \in Files!Out
    BY ZenonT(30), <1>2, <1>3, <1>4, <1>5
  <2> QED BY <2>1, <2>2 DEF Alone
<1>7. ASSUME NEW d \in Call, d # c PROVE Reported(d)' /\ Alone(d)'
  <2>1. pageCall'[d].alone => pageCall[d].alone /\ pageCall[d].at \in Files!Out
    BY <1>3, <1>4, <1>5, <1>7
  <2>2. /\ pageCall'[d].at = pageCall[d].at /\ pageCall'[d].told = pageCall[d].told
        /\ pageCall'[d].late = pageCall[d].late /\ Reported(d)
    BY <1>3, <1>4, <1>7 DEF FilesInv
  <2> QED BY <2>1, <2>2 DEF Reported, Alone, Files!Out, Files!Looking, Left
<1> QED BY <1>0, <1>4, <1>6, <1>7, <1>8 DEF FilesInv, FilesTypes

(* Every step keeps it, one action at a time.                              *)
LEMMA FilesKeep == FilesInv /\ [Files!Next]_(Files!vars) => FilesInv'
<1> SUFFICES ASSUME FilesInv, [Files!Next]_(Files!vars) PROVE FilesInv'
  OBVIOUS
<1>0. /\ pageCall \in [Call -> FileCall] /\ pending \in Seq(File) /\ None \notin File
      /\ \A c \in Call : pageCall[c] \in FileCall /\ Reported(c)
  BY PartsAreDistinct DEF FilesInv, FilesTypes
<1>a. Files!Tasks \in SUBSET File
  BY DEF Files!Tasks
\* A call goes from one look to another with the list as it is.
<1>b. ASSUME NEW c \in Call, UNCHANGED pending, pageCall[c].at \notin Files!Out,
             pageCall' \in [Call -> FileCall], \A d \in Call \ {c} : pageCall'[d] = pageCall[d],
             pageCall'[c].alone = pageCall[c].alone, pageCall'[c].late = pageCall[c].late,
             pageCall'[c].told = pageCall[c].told,
             \/ pageCall[c].at \in Files!Looking /\ pageCall'[c].at \in Files!Looking \cup {"raised"}
             \/ pageCall[c].at \in Left /\ pageCall'[c].at \in Left \cup {"ended"}
      PROVE  FilesInv'
  <2>1. Reported(c)'
    BY <1>0, <1>b DEF Reported, Files!Looking, Left
  <2> QED BY <1>0, <1>b, <2>1, CallGoes
<1>1. CASE UNCHANGED Files!vars
  BY <1>1 DEF Files!vars, FilesInv, FilesTypes, Reported, Alone
<1>2. ASSUME NEW f \in File, Files!Starts(f) \/ Files!PopsUp(f) PROVE FilesInv'
  BY <1>2, PageSeen
<1>3. ASSUME NEW f \in File, Files!Saved(f) PROVE FilesInv'
  BY <1>3, SavedSeen
<1>4. ASSUME NEW f \in File, Files!CaptureFails(f) PROVE FilesInv'
  BY <1>4 DEF Files!CaptureFails, FilesInv, FilesTypes, Reported, Alone
<1>5. ASSUME NEW c \in Call, Files!Begin(c, "act") \/ Files!Begin(c, "open") PROVE FilesInv'
  BY <1>5, BeginAlone
<1>6. ASSUME NEW c \in Call, Files!Raises(c) PROVE FilesInv'
  <2>1. Files!End(c, "raised") /\ UNCHANGED pending /\ pageCall[c].at \in {"acting", "loading"}
    BY <1>6 DEF Files!Raises
  <2> QED BY <1>b, <2>1, EndOfCall DEF Files!Out, Files!Looking
<1>7. ASSUME NEW c \in Call, Files!Acted(c) PROVE FilesInv'
  <2> DEFINE to == IF pageCall[c].tabs # {} THEN "tabs" ELSE "gather"
  <2>1. /\ pageCall' = [pageCall EXCEPT ![c].at = to] /\ UNCHANGED pending
        /\ pageCall[c].at \in {"acting", "loading"} /\ to \in {"tabs", "gather"}
    BY <1>7 DEF Files!Acted, Files!Goto
  <2> HIDE DEF to
  <2>2. /\ pageCall' \in [Call -> FileCall] /\ \A d \in Call \ {c} : pageCall'[d] = pageCall[d]
        /\ pageCall'[c].alone = pageCall[c].alone /\ pageCall'[c].late = pageCall[c].late
        /\ pageCall'[c].told = pageCall[c].told /\ pageCall'[c].at = to
    BY <1>0, <2>1 DEF FileCall, Files!Looking
  <2> QED BY <1>b, <2>1, <2>2 DEF Files!Out, Files!Looking
<1>8. ASSUME NEW c \in Call, Files!Probe(c) PROVE FilesInv'
  <2>0. pageCall[c].at = "tabs"
    BY <1>8 DEF Files!Probe
  <2>1. CASE /\ pageCall' = [pageCall EXCEPT ![c].at = "gather", ![c].onTab = TRUE]
             /\ UNCHANGED pending
    <3> DEFINE r == [pageCall[c] EXCEPT !.at = "gather", !.onTab = TRUE]
    <3>1. /\ r \in FileCall /\ r.alone = pageCall[c].alone /\ r.late = pageCall[c].late
          /\ r.told = pageCall[c].told /\ r.at = "gather"
      <4>1. pageCall[c] \in FileCall /\ "gather" \in Files!Out \cup Files!Looking \cup Left
        BY <1>0 DEF Files!Looking
      <4> QED BY <4>1 DEF FileCall
    <3>2. pageCall' = [pageCall EXCEPT ![c] = r]
      BY <1>0, <2>1
    <3> HIDE DEF r
    <3>3. /\ pageCall' \in [Call -> FileCall] /\ \A d \in Call \ {c} : pageCall'[d] = pageCall[d]
          /\ pageCall'[c].alone = pageCall[c].alone /\ pageCall'[c].late = pageCall[c].late
          /\ pageCall'[c].told = pageCall[c].told /\ pageCall'[c].at = "gather"
      BY <1>0, <3>1, <3>2
    <3> QED BY <1>b, <2>0, <2>1, <3>3 DEF Files!Out, Files!Looking
  <2>2. CASE Files!Goto(c, "gather") /\ UNCHANGED pending
    <3>1. /\ pageCall' \in [Call -> FileCall] /\ \A d \in Call \ {c} : pageCall'[d] = pageCall[d]
          /\ pageCall'[c].alone = pageCall[c].alone /\ pageCall'[c].late = pageCall[c].late
          /\ pageCall'[c].told = pageCall[c].told /\ pageCall'[c].at = "gather"
      BY <1>0, <2>2 DEF FileCall, Files!Looking, Files!Goto
    <3> QED BY <1>b, <2>0, <2>2, <3>1 DEF Files!Out, Files!Looking
  <2>3. CASE \E f \in pageCall[c].tabs :
                /\ pending' = <<f>>
                /\ pageCall' = [pageCall EXCEPT ![c].at = "gather", ![c].onTab = TRUE,
                                                ![c].late = TRUE]
    <3>1. PICK f \in File :
                /\ pending' = <<f>>
                /\ pageCall' = [pageCall EXCEPT ![c].at = "gather", ![c].onTab = TRUE,
                                                ![c].late = TRUE]
      BY <1>0, <2>3 DEF FileCall
    <3>2. /\ pageCall' \in [Call -> FileCall] /\ \A d \in Call \ {c} : pageCall'[d] = pageCall[d]
          /\ pageCall'[c].alone = pageCall[c].alone /\ pageCall'[c].at = "gather"
      <4> DEFINE r == [pageCall[c] EXCEPT !.at = "gather", !.onTab = TRUE, !.late = TRUE]
      <4>1. r \in FileCall /\ r.alone = pageCall[c].alone /\ r.at = "gather"
        BY <1>0 DEF FileCall, Files!Looking
      <4>2. pageCall' = [pageCall EXCEPT ![c] = r]
        BY <3>1
      <4> HIDE DEF r
      <4> QED BY <1>0, <4>1, <4>2
    <3>3. pending' \in Seq(File) /\ pending' # <<>>
      BY <3>1
    <3>4. Reported(c)'
      BY <3>2, <3>3 DEF Reported, Left
    <3> QED BY <2>0, <3>2, <3>3, <3>4, CallGoes DEF Files!Out
  <2> QED BY <1>8, <2>1, <2>2, <2>3 DEF Files!Probe
<1>9. ASSUME NEW c \in Call, Files!Await(c) \/ Files!Settle(c) \/ Files!GraceEnds(c) PROVE FilesInv'
  <2>1. PICK to \in {"first", "last", "late"} :
           /\ pageCall' = [pageCall EXCEPT ![c].at = to, ![c].waits = Files!Tasks]
           /\ \/ pageCall[c].at \in {"gather", "settle"} /\ to \in {"first", "late"}
              \/ pageCall[c].at = "grace" /\ to = "last"
           /\ UNCHANGED pending
    BY <1>9 DEF Files!Await, Files!Settle, Files!GraceEnds
  <2>2. /\ pageCall' \in [Call -> FileCall] /\ \A d \in Call \ {c} : pageCall'[d] = pageCall[d]
        /\ pageCall'[c].alone = pageCall[c].alone /\ pageCall'[c].late = pageCall[c].late
        /\ pageCall'[c].told = pageCall[c].told /\ pageCall'[c].at = to
    <3> DEFINE r == [pageCall[c] EXCEPT !.at = to, !.waits = Files!Tasks]
    <3>1. /\ r \in FileCall /\ r.alone = pageCall[c].alone /\ r.at = to
          /\ r.late = pageCall[c].late /\ r.told = pageCall[c].told
      BY <1>0, <1>a, <2>1, ZenonT(30) DEF FileCall, Files!Looking, Left
    <3>2. pageCall' = [pageCall EXCEPT ![c] = r]
      BY <2>1
    <3> HIDE DEF r
    <3> QED BY <1>0, <3>1, <3>2
  <2> QED BY <1>b, <2>1, <2>2 DEF Files!Out, Files!Looking, Left
<1>10. ASSUME NEW c \in Call, Files!First(c) \/ Files!Late(c) \/ Files!Last(c) PROVE FilesInv'
  <2>1. CASE Files!First(c)
    BY <2>1, Drained DEF Files!First, Files!Look, Files!Looking
  <2>2. CASE Files!Late(c)
    BY <2>2, Drained DEF Files!Late, Files!Look, Files!AfterSettling, Left
  <2>3. CASE Files!Last(c)
    BY <2>3, Drained DEF Files!Last, Files!Look, Left
  <2> QED BY <1>10, <2>1, <2>2, <2>3
<1>11. ASSUME NEW c \in Call, Files!FromResponse(c) PROVE FilesInv'
  <2>1. PICK f \in File : pageCall' = [pageCall EXCEPT ![c].told = f, ![c].at = "frame"]
    BY <1>11 DEF Files!FromResponse
  <2>2. pageCall[c].at = "first" /\ UNCHANGED pending
    BY <1>11 DEF Files!FromResponse
  <2>3. /\ pageCall' \in [Call -> FileCall] /\ \A d \in Call \ {c} : pageCall'[d] = pageCall[d]
        /\ pageCall'[c].alone = pageCall[c].alone /\ pageCall'[c].at = "frame"
        /\ pageCall'[c].told = f
    <3> DEFINE r == [pageCall[c] EXCEPT !.told = f, !.at = "frame"]
    <3>1. r \in FileCall /\ r.alone = pageCall[c].alone /\ r.at = "frame" /\ r.told = f
      BY <1>0, <2>1 DEF FileCall, Left
    <3>2. pageCall' = [pageCall EXCEPT ![c] = r]
      BY <2>1
    <3> HIDE DEF r
    <3> QED BY <1>0, <3>1, <3>2
  <2>4. Reported(c)'
    BY <1>0, <2>3 DEF Reported, Files!Looking
  <2> QED BY <1>0, <2>2, <2>3, <2>4, CallGoes DEF Files!Out
<1>12. ASSUME NEW c \in Call, Files!Answer(c) PROVE FilesInv'
  <2>1. Files!End(c, "ended") /\ UNCHANGED pending /\ pageCall[c].at = "frame"
    BY <1>12 DEF Files!Answer
  <2> QED BY <1>b, <2>1, EndOfCall DEF Files!Out, Left
<1> QED
  BY <1>1, <1>2, <1>3, <1>4, <1>5, <1>6, <1>7, <1>8, <1>9, <1>10, <1>11, <1>12 DEF Files!Next

LEMMA FilesSteps == [AllNext]_allVars => [Files!Next]_(Files!vars)
BY DEF AllNext, allVars, fileVars, Files!vars

(* A call that had the page to itself reports what was saved while it      *)
(* acted and settled: for any number of calls and downloads, whether the   *)
(* capture ended before the first look, between the looks, or in a tab the *)
(* action opened. Calls that share the page take each other's files, so    *)
(* nothing is promised to them.                                            *)
THEOREM FilesAreReported == AllSpec => []SavedIsReported
<1>1. AllInit => FilesInv
  BY FilesStart DEF AllInit
<1>2. FilesInv /\ [AllNext]_allVars => FilesInv'
  BY FilesKeep, FilesSteps
<1>3. FilesInv => SavedIsReported
  BY DEF FilesInv, Reported, Left, SavedIsReported, Files!SavedIsReported
<1> QED BY <1>1, <1>2, <1>3, PTL DEF AllSpec

-----------------------------------------------------------------------------
(* The element a call acts on                                              *)

\* The document an element is in, wherever the frame stands by now.
DocOf(e) == IF e \in Inner THEN "frame" ELSE "main"

\* A call knows a document.
HasDoc(r) == "doc" \in DOMAIN r /\ r.doc \in Docs

(* What ActsOnListed needs to be inductive: an element carries the number  *)
(* that the last view of its document gave it, also where the frame it is  *)
(* in is gone, or where the other document was viewed since.               *)
RefInv ==
    /\ DOMAIN listed = Docs /\ DOMAIN hit = Call /\ DOMAIN call = Call
    /\ DOMAIN stamp = Element
    /\ \A e \in Element : listed[DocOf(e)][e] = stamp[e]
    /\ \A c \in Call : HasDoc(call[c])

LEMMA IdleHasDoc == HasDoc(Idle)
BY DEF HasDoc, Idle, Docs

LEMMA RefsStart == Init => RefInv
<1> SUFFICES ASSUME Init PROVE RefInv
  OBVIOUS
<1>1. /\ stamp = Nothing /\ listed = [d \in Docs |-> Nothing] /\ call = [c \in Call |-> Idle]
      /\ hit = [c \in Call |-> 0]
  BY DEF Init
<1>2. \A e \in Element : DocOf(e) \in Docs
  BY DEF DocOf, Docs
<1> QED BY <1>1, <1>2, IdleHasDoc DEF RefInv, Nothing

\* A locator that matches gives an element of its document with the number.
LEMMA TargetMatches ==
    ASSUME NEW c \in Call, Matches(call[c].doc, call[c].ref) # {}
    PROVE  Target(c) \in Matches(call[c].doc, call[c].ref)
<1> DEFINE S == Matches(call[c].doc, call[c].ref)
<1>1. S \subseteq Nat
  BY ElementsAreNumbers DEF Matches, InDoc
<1> HIDE DEF S
<1>2. \E x \in S : \A y \in S : x <= y
  BY <1>1, LeastOfNaturals DEF S
<1> QED BY <1>2 DEF S, Target

\* The call that makes a step, and keeps a document.
LEMMA GotoHasDoc ==
    ASSUME RefInv, NEW c \in Call, NEW to, Goto(c, to)
    PROVE  DOMAIN call' = Call /\ \A d \in Call : HasDoc(call'[d])
<1>0. /\ HasDoc([call[c] EXCEPT !.at = to]) /\ HasDoc([call[c] EXCEPT !.at = to, !.from = 0])
      /\ HasDoc([Idle EXCEPT !.at = to])
  <2>1. HasDoc(call[c])
    BY DEF RefInv
  <2>2. ASSUME NEW r, HasDoc(r), NEW f \in {"at", "from"}, NEW x
        PROVE  HasDoc([r EXCEPT ![f] = x])
    BY <2>2 DEF HasDoc
  <2>3. HasDoc([[call[c] EXCEPT !["at"] = to] EXCEPT !["from"] = 0])
    BY <2>1, <2>2
  <2> QED BY <2>1, <2>2, <2>3, IdleHasDoc DEF HasDoc
<1> DEFINE r == CASE to \in {"acted", "found"} -> [call[c] EXCEPT !.at = to]
                  [] call[c].tool = "act" -> [call[c] EXCEPT !.at = to, !.from = 0]
                  [] OTHER -> [Idle EXCEPT !.at = to]
<1>1. HasDoc(r)
  BY <1>0
<1>2. call' = [call EXCEPT ![c] = r]
  BY DEF Goto
<1> HIDE DEF r
<1> QED BY <1>1, <1>2 DEF RefInv

\* A call that is given other values, and maybe another document.
LEMMA FieldsHaveDoc ==
    ASSUME NEW r, HasDoc(r), NEW d \in Docs, NEW x, NEW y
    PROVE  /\ HasDoc([r EXCEPT !.from = x, !.at = y])
           /\ HasDoc([r EXCEPT !.doc = d, !.from = x, !.at = y])
BY DEF HasDoc

(* A load leaves no number on either document.                             *)
LEMMA LoadedIsListed ==
    ASSUME RefInv, Loads PROVE /\ DOMAIN listed' = Docs /\ DOMAIN stamp' = Element
                               /\ \A e \in Element : listed'[DocOf(e)][e] = stamp'[e]
BY DEF Loads, Nothing, DocOf, Docs

(* A change takes the frame and its numbers away together, or leaves them. *)
LEMMA ChangedIsListed ==
    ASSUME RefInv, Changes PROVE /\ DOMAIN listed' = Docs /\ DOMAIN stamp' = Element
                                 /\ \A e \in Element : listed'[DocOf(e)][e] = stamp'[e]
BY DEF RefInv, Changes, Nothing, DocOf, Docs

(* A view numbers one document, and clears what it does not list there;    *)
(* none of its elements is beyond the reach of the clean-up.               *)
LEMMA ViewedIsListed ==
    ASSUME RefInv, Shadow = {}, NEW c \in Call, View(c) PROVE RefInv'
<1>1. DOMAIN call' = Call /\ (\A d \in Call : HasDoc(call'[d])) /\ DOMAIN hit' = Call
  BY GotoHasDoc DEF View, RefInv
<1>2. CASE UNCHANGED <<stamp, listed>>
  BY <1>1, <1>2 DEF RefInv
<1>3. CASE Stamp(ActiveView) /\ listed' = [listed EXCEPT ![ActiveView] = Numbered(ActiveView)]
  <2> DEFINE v == ActiveView
             n == Numbered(ActiveView)
  <2>1. v \in Docs /\ (v = "frame" => iframe # "none")
    BY DEF ActiveView, Dominant, Docs
  <2>2. \A e \in Element : e \in InDoc(v) <=> DocOf(e) = v
    BY <2>1, ElementsAreNumbers DEF InDoc, DocOf, Docs
  <2>3. \A e \in Element : e \notin InDoc(v) => n[e] = 0
    BY DEF Numbered, Listed
  <2>4. stamp' = [e \in Element |-> IF n[e] # 0 THEN n[e]
                                    ELSE IF e \in InDoc(v) \ Shadow THEN 0 ELSE stamp[e]]
    BY <1>3 DEF Stamp
  <2>5. listed' = [listed EXCEPT ![v] = n]
    BY <1>3
  <2> HIDE DEF v, n
  <2>6. \A e \in Element : listed'[DocOf(e)][e] = stamp'[e]
    <3> SUFFICES ASSUME NEW e \in Element PROVE listed'[DocOf(e)][e] = stamp'[e]
      OBVIOUS
    <3>1. DocOf(e) \in Docs
      BY DEF DocOf, Docs
    <3>2. CASE e \in InDoc(v)
      BY <2>1, <2>2, <2>4, <2>5, <3>2 DEF RefInv
    <3>3. CASE e \notin InDoc(v)
      BY <2>2, <2>3, <2>4, <2>5, <3>1, <3>3 DEF RefInv
    <3> QED BY <3>2, <3>3
  <2> QED BY <1>1, <2>4, <2>5, <2>6 DEF RefInv
<1> QED BY <1>2, <1>3 DEF View

(* Every step keeps it, one action at a time.                              *)
LEMMA RefsKeep == RefInv /\ Shadow = {} /\ [Next]_vars => RefInv'
<1> SUFFICES ASSUME RefInv, Shadow = {}, [Next]_vars PROVE RefInv'
  OBVIOUS
<1> USE DEF page
<1>0. /\ DOMAIN listed = Docs /\ DOMAIN hit = Call /\ DOMAIN call = Call /\ DOMAIN stamp = Element
      /\ \A e \in Element : listed[DocOf(e)][e] = stamp[e]
      /\ \A c \in Call : HasDoc(call[c])
  BY DEF RefInv
<1>a. ActiveView \in Docs
  BY DEF ActiveView, Dominant, Docs
<1>1. CASE UNCHANGED vars
  BY <1>1 DEF vars, RefInv
<1>2. CASE PageChanges
  BY <1>0, <1>2, ChangedIsListed DEF PageChanges, Changes, RefInv
<1>3. CASE PageNavigates
  BY <1>0, <1>3, LoadedIsListed DEF PageNavigates, RefInv
<1>4. ASSUME NEW c \in Call, Issue(c) PROVE RefInv'
  <2>0. PICK kind \in {"act", "browse", "scroll", "open", "back", "script"} : \E n : Issued(c, kind, n)
    BY <1>4 DEF Issue
  <2>1. PICK n : Issued(c, kind, n)
    BY <2>0
  <2> DEFINE s == IF kind = "act" THEN shown ELSE NoView
             r == [Idle EXCEPT !.at = "issued", !.tool = kind, !.ref = n, !.saw = s]
  <2>2. HasDoc(r)
    BY DEF HasDoc, Idle, Docs
  <2>3. call' = [call EXCEPT ![c] = r] /\ UNCHANGED <<stamp, listed, hit>>
    BY <2>1 DEF Issued
  <2> HIDE DEF r
  <2> QED BY <1>0, <2>2, <2>3 DEF RefInv
<1>5. ASSUME NEW c \in Call, Browse(c) \/ Answer(c) PROVE RefInv'
  BY <1>5, ViewedIsListed DEF Browse, Answer
<1>6. ASSUME NEW c \in Call, Open(c) \/ Back(c) PROVE RefInv'
  <2>1. call' = [call EXCEPT ![c].from = url, ![c].at = "acted"] /\ UNCHANGED hit
    BY <1>6 DEF Open, Back
  <2>2. DOMAIN call' = Call /\ \A d \in Call : HasDoc(call'[d])
    <3>1. HasDoc([call[c] EXCEPT !.from = url, !.at = "acted"])
      BY <1>0, FieldsHaveDoc DEF Docs
    <3> DEFINE r == [call[c] EXCEPT !.from = url, !.at = "acted"]
    <3>2. call' = [call EXCEPT ![c] = r]
      BY <2>1
    <3> HIDE DEF r
    <3> QED BY <1>0, <3>1, <3>2 DEF r
  <2>3. Loads \/ UNCHANGED <<stamp, listed>>
    BY <1>6 DEF Open, Back
  <2> QED BY <1>0, <2>1, <2>2, <2>3, LoadedIsListed DEF RefInv
<1>7. ASSUME NEW c \in Call, RunScript(c) PROVE RefInv'
  <2>1. DOMAIN call' = Call /\ \A d \in Call : HasDoc(call'[d])
    BY <1>7, GotoHasDoc DEF RunScript
  <2>2. Changes \/ UNCHANGED <<stamp, listed, hit>>
    BY <1>7 DEF RunScript
  <2> QED BY <1>0, <2>1, <2>2, ChangedIsListed DEF RefInv, Changes
<1>8. ASSUME NEW c \in Call, Resolve(c) PROVE RefInv'
  <2> DEFINE to == IF Matches(ActiveView, call[c].ref) = {} THEN "error" ELSE "found"
             r  == [call[c] EXCEPT !.doc = ActiveView, !.from = url, !.at = to]
  <2>1. HasDoc(r)
    BY <1>0, <1>a, FieldsHaveDoc
  <2>2. call' = [call EXCEPT ![c] = r] /\ UNCHANGED <<stamp, listed, hit>>
    BY <1>8 DEF Resolve
  <2> HIDE DEF r
  <2> QED BY <1>0, <2>1, <2>2 DEF RefInv
<1>9. ASSUME NEW c \in Call, Act(c) \/ Finalize(c) PROVE RefInv'
  <2>1. DOMAIN call' = Call /\ \A d \in Call : HasDoc(call'[d])
    BY <1>9, GotoHasDoc DEF Act, Finalize
  <2>2. DOMAIN hit' = Call /\ UNCHANGED <<stamp, listed>>
    BY <1>0, <1>9 DEF Act, Finalize
  <2> QED BY <1>0, <2>1, <2>2 DEF RefInv
<1>10. ASSUME NEW c \in Call, Scroll(c) PROVE RefInv'
  <2>1. CASE ScrollCount >= Budget
    <3>1. DOMAIN call' = Call /\ \A d \in Call : HasDoc(call'[d])
      BY <1>10, <2>1, GotoHasDoc DEF Scroll
    <3> QED BY <1>0, <1>10, <3>1 DEF RefInv, Scroll
  <2>2. CASE ~(ScrollCount >= Budget)
    <3> DEFINE r == [call[c] EXCEPT !.from = url, !.at = "acted"]
    <3>1. HasDoc(r)
      BY <1>0, FieldsHaveDoc DEF Docs
    <3>2. call' = [call EXCEPT ![c] = r] /\ UNCHANGED <<stamp, listed, hit>>
      BY <1>10, <2>2 DEF Scroll
    <3> HIDE DEF r
    <3> QED BY <1>0, <3>1, <3>2 DEF RefInv
  <2> QED BY <2>1, <2>2
<1>11. ASSUME NEW c \in Call, Again(c) PROVE RefInv'
  BY <1>0, <1>11, IdleHasDoc DEF Again, RefInv
<1> QED
  BY <1>1, <1>2, <1>3, <1>4, <1>5, <1>6, <1>7, <1>8, <1>9, <1>10, <1>11 DEF Next

\* Only the action itself hits an element, and it is the one that matches.
LEMMA HitsAreListed ==
    RefInv /\ [Next]_vars =>
        [\A c \in Call : hit'[c] # hit[c] /\ hit'[c] # 0 =>
            listed[call[c].doc][hit'[c]] = call[c].ref]_vars
<1> SUFFICES ASSUME RefInv, [Next]_vars, NEW c \in Call, hit'[c] # hit[c], hit'[c] # 0
             PROVE  listed[call[c].doc][hit'[c]] = call[c].ref
  BY DEF vars
<1> USE DEF page
<1>0. DOMAIN hit = Call /\ HasDoc(call[c])
  BY DEF RefInv
<1>1. Act(c) /\ Matches(call[c].doc, call[c].ref) # {}
  <2>1. hit' # hit
    OBVIOUS
  <2>2. \E d \in Call : Act(d) \/ Again(d)
    BY <2>1 DEF Next, vars, PageChanges, PageNavigates, Changes, Issue, Issued, Browse, Open,
                Back, RunScript, Resolve, Scroll, Finalize, Answer, View
  <2>3. PICK d \in Call : Act(d) \/ Again(d)
    BY <2>2
  <2>4. CASE Again(d)
    BY <1>0, <2>4 DEF Again
  <2>5. CASE Act(d)
    BY <1>0, <2>5 DEF Act
  <2> QED BY <2>3, <2>4, <2>5
<1>2. hit'[c] = Target(c)
  BY <1>0, <1>1 DEF Act
<1>3. Target(c) \in Matches(call[c].doc, call[c].ref)
  BY <1>1, TargetMatches
<1>4. Target(c) \in Element /\ stamp[Target(c)] = call[c].ref /\ Target(c) \in InDoc(call[c].doc)
  BY <1>3, ElementsAreNumbers DEF Matches, InDoc
<1>5. DocOf(Target(c)) = call[c].doc
  BY <1>0, <1>4 DEF InDoc, DocOf, HasDoc, Docs
<1> QED BY <1>2, <1>4, <1>5 DEF RefInv

LEMMA RefSteps == [AllNext]_allVars => [Next]_vars
BY DEF AllNext, allVars, vars

(* A number means one element. As long as nothing that is listed is in a   *)
(* shadow root, where the clean-up of the snapshot script does not come:   *)
(* whatever was viewed, loaded, scrolled, shown and hidden, and whatever   *)
(* other calls did, between the lookup of the number and the action on it, *)
(* the element that a call acts on carries the call's number in the latest *)
(* view of its document.                                                   *)
THEOREM NumbersMeanOneElement == Shadow = {} => (AllSpec => ActsOnListed)
<1> SUFFICES ASSUME Shadow = {} PROVE AllSpec => ActsOnListed
  OBVIOUS
<1>1. AllInit => RefInv
  BY RefsStart DEF AllInit
<1>2. RefInv /\ [AllNext]_allVars => RefInv'
  BY RefsKeep, RefSteps
<1>3. RefInv /\ [AllNext]_allVars =>
        [\A c \in Call : hit'[c] # hit[c] /\ hit'[c] # 0 =>
            listed[call[c].doc][hit'[c]] = call[c].ref]_vars
  BY HitsAreListed, RefSteps
<1> QED BY <1>1, <1>2, <1>3, PTL DEF AllSpec, ActsOnListed

-----------------------------------------------------------------------------
(* The text a fill leaves                                                  *)

\* The events of a fill: its n-th, counted through both of its parts.
Do(n) == CASE n = 1 -> "aim" [] n = 2 -> "glide" [] n = 3 -> "down" [] n = 4 -> "up"
           [] n = 5 -> "selectAll" [] n = 6 -> "erase" [] OTHER -> "type"
Steps     == Length + 6
Events(f) == {Input!Ev(d, f) : d \in {"aim", "glide", "down", "up", "selectAll", "erase", "type"}}
Rest(s, f, k) ==
    /\ s \in Seq(Events(f)) /\ Len(s) = Steps - k
    /\ \A i \in 1..Len(s) : s[i] = Input!Ev(Do(k + i), f)
\* What n characters of a call look like.
Typed(c, n) == [i \in 1..n |-> c]

Fields == {"at", "todo", "field", "aim", "to", "alone"}
InputTypes ==
    /\ DOMAIN inputCall = Call /\ DOMAIN text = Field
    /\ \A c \in Call : DOMAIN inputCall[c] = Fields

LoneFill(c) == inputCall[c].at = "running" /\ inputCall[c].alone /\ inputCall[c].field # None

(* After k of its events a fill that has the page to itself points at its  *)
(* field, then has the focus there, and then has typed k - 6 characters.   *)
FillAt(c, k) ==
    LET f == inputCall[c].field IN
    /\ f \in Field /\ ~modifier
    /\ Rest(inputCall[c].todo, f, k)
    /\ k = 1 => inputCall[c].aim = f
    /\ k >= 2 => pointer = f
    /\ k >= 3 => focus = f
    /\ k >= 6 => text[f] = Typed(c, k - 6)

InputInv ==
    /\ InputTypes
    /\ \A c \in Call :
          /\ inputCall[c].at = "running" /\ inputCall[c].alone =>
                \A d \in Call \ {c} : inputCall[d].at # "running"
          /\ LoneFill(c) => \E k \in 0..Steps : FillAt(c, k)

LEMMA InputStarts == Input!Init => InputInv
BY DEF Input!Init, InputInv, InputTypes, Input!Free, Fields, LoneFill

\* Both parts of a fill, and the second alone, are its events in order.
LEMMA FillsInOrder ==
    ASSUME NEW f \in Field
    PROVE  Rest(Input!fill_field(f), f, 0) /\ Rest(Input!human_type(f), f, 4)
<1> DEFINE ev(d) == Input!Ev(d, f)
           S  == Events(f)
           a  == <<ev("selectAll"), ev("erase")>>
           b  == [i \in 1..Length |-> ev("type")]
           cl == <<ev("aim"), ev("glide"), ev("down"), ev("up")>>
<1>0. Length \in Nat
  BY BoundsAreNumbers
<1>1. \A d \in {"aim", "glide", "down", "up", "selectAll", "erase", "type"} : ev(d) \in S
  BY DEF Events
<1> HIDE DEF ev, S
<1>2. a \in Seq(S) /\ Len(a) = 2 /\ a[1] = ev("selectAll") /\ a[2] = ev("erase")
  BY <1>1
<1>3. b \in Seq(S) /\ Len(b) = Length /\ \A i \in 1..Length : b[i] = ev("type")
  BY <1>0, <1>1
<1>4. /\ cl \in Seq(S) /\ Len(cl) = 4 /\ cl[1] = ev("aim") /\ cl[2] = ev("glide")
      /\ cl[3] = ev("down") /\ cl[4] = ev("up")
  BY <1>1
<1> HIDE DEF a, b, cl
<1> DEFINE t == a \o b
<1>5. t \in Seq(S) /\ Len(t) = Length + 2 /\ \A i \in 1..Len(t) : t[i] = ev(Do(4 + i))
  <2>1. /\ t \in Seq(S) /\ Len(t) = 2 + Length
        /\ \A i \in 1..2 + Length : t[i] = IF i <= 2 THEN a[i] ELSE b[i - 2]
    <3>1. /\ t \in Seq(S) /\ Len(t) = Len(a) + Len(b)
          /\ \A i \in 1..Len(a) + Len(b) : t[i] = IF i <= Len(a) THEN a[i] ELSE b[i - Len(a)]
      BY <1>2, <1>3, ConcatProperties, Zenon
    <3> QED BY <1>2, <1>3, <3>1
  <2>2. ASSUME NEW i \in 1..Len(t) PROVE t[i] = ev(Do(4 + i))
    <3>1. CASE i = 1
      BY <1>0, <1>2, <2>1, <3>1 DEF Do
    <3>2. CASE i = 2
      BY <1>0, <1>2, <2>1, <3>2 DEF Do
    <3>3. CASE i > 2
      <4>1. i - 2 \in 1..Length /\ t[i] = b[i - 2]
        BY <1>0, <2>1, <3>3
      <4>2. Do(4 + i) = "type"
        BY <1>0, <2>1, <3>3 DEF Do
      <4> QED BY <1>3, <4>1, <4>2
    <3> QED BY <1>0, <2>1, <3>1, <3>2, <3>3
  <2> QED BY <1>0, <2>1, <2>2
<1> HIDE DEF t
<1> DEFINE u == cl \o t
<1>6. u \in Seq(S) /\ Len(u) = Length + 6 /\ \A i \in 1..Len(u) : u[i] = ev(Do(0 + i))
  <2>1. /\ u \in Seq(S) /\ Len(u) = 4 + (Length + 2)
        /\ \A i \in 1..4 + (Length + 2) : u[i] = IF i <= 4 THEN cl[i] ELSE t[i - 4]
    <3>1. /\ u \in Seq(S) /\ Len(u) = Len(cl) + Len(t)
          /\ \A i \in 1..Len(cl) + Len(t) : u[i] = IF i <= Len(cl) THEN cl[i] ELSE t[i - Len(cl)]
      BY <1>4, <1>5, ConcatProperties, Zenon
    <3> QED BY <1>4, <1>5, <3>1
  <2>2. ASSUME NEW i \in 1..Len(u) PROVE u[i] = ev(Do(0 + i))
    <3>1. CASE i <= 4
      <4>1. u[i] = cl[i] /\ i \in {1, 2, 3, 4}
        BY <1>0, <2>1, <3>1
      <4>2. cl[i] = ev(Do(i)) /\ 0 + i = i
        BY <1>4, <4>1 DEF Do
      <4> QED BY <4>1, <4>2
    <3>2. CASE i > 4
      <4>1. i - 4 \in 1..Len(t) /\ u[i] = t[i - 4] /\ 4 + (i - 4) = 0 + i
        BY <1>0, <1>5, <2>1, <3>2
      <4> QED BY <1>5, <4>1
    <3> QED BY <1>0, <2>1, <3>1, <3>2
  <2> QED BY <1>0, <2>1, <2>2
<1>7. Input!human_type(f) = t /\ Input!fill_field(f) = u
  BY DEF Input!human_type, Input!fill_field, Input!human_click, t, u, a, b, cl, ev
<1> QED BY <1>0, <1>5, <1>6, <1>7 DEF Rest, Steps, S, ev

\* The event that comes next, and what is left after it.
LEMMA NextOfRest ==
    ASSUME NEW f, NEW k \in 0..Steps, NEW s, Rest(s, f, k), s # <<>>
    PROVE  /\ k < Steps /\ k + 1 \in 0..Steps
           /\ Head(s).do = Do(k + 1) /\ Head(s).on = f
           /\ Rest(Tail(s), f, k + 1)
<1>0. Steps \in Nat /\ k \in Nat /\ s \in Seq(Events(f)) /\ Len(s) = Steps - k
  BY BoundsAreNumbers DEF Steps, Rest
<1>1. /\ Tail(s) \in Seq(Events(f)) /\ Len(Tail(s)) \in Nat /\ Len(s) = Len(Tail(s)) + 1
      /\ Head(s) = s[1] /\ 1 \in 1..Len(s)
      /\ \A i \in 1..Len(Tail(s)) : Tail(s)[i] = s[i + 1] /\ i + 1 \in 1..Len(s)
  BY <1>0, TailFacts
<1>2. Head(s) = Input!Ev(Do(k + 1), f)
  BY <1>1 DEF Rest
<1>3. \A i \in 1..Len(Tail(s)) : Tail(s)[i] = Input!Ev(Do((k + 1) + i), f)
  <2> SUFFICES ASSUME NEW i \in 1..Len(Tail(s)) PROVE Tail(s)[i] = Input!Ev(Do((k + 1) + i), f)
    OBVIOUS
  <2>1. Tail(s)[i] = Input!Ev(Do(k + (i + 1)), f)
    BY <1>1 DEF Rest
  <2>2. k + (i + 1) = (k + 1) + i
    BY <1>0, <1>1
  <2> QED BY <2>1, <2>2
<1>4. Len(Tail(s)) = Steps - (k + 1) /\ k < Steps /\ k + 1 \in 0..Steps
  BY <1>0, <1>1
<1> QED BY <1>1, <1>2, <1>3, <1>4 DEF Rest, Input!Ev

\* One more character.
LEMMA OneMoreTyped ==
    ASSUME NEW c \in Call, NEW n \in Nat, n < Length
    PROVE  Input!Held(Append(Typed(c, n), c)) = Typed(c, n + 1)
<1> DEFINE s == Typed(c, n)
           t == Append(s, c)
<1>0. Length \in Nat
  BY BoundsAreNumbers
<1>1. s \in Seq(Call) /\ Len(s) = n /\ \A i \in 1..n : s[i] = c
  BY DEF Typed
<1> HIDE DEF s
<1>2. t \in Seq(Call) /\ Len(t) = n + 1 /\ \A i \in 1..n + 1 : t[i] = c
  <2>1. t \in Seq(Call) /\ Len(t) = n + 1 /\ t[n + 1] = c /\ \A i \in 1..n : t[i] = s[i]
    BY <1>1, AppendFacts
  <2> QED BY <1>1, <2>1
<1> HIDE DEF t
<1>3. Input!Held(t) = SubSeq(t, 1, Len(t))
  BY <1>0, <1>2 DEF Input!Held
<1>4. SubSeq(t, 1, Len(t)) = t
  BY <1>2, SubSeqFull
<1>5. Typed(c, n + 1) \in Seq(Call) /\ Len(Typed(c, n + 1)) = n + 1
      /\ \A i \in 1..n + 1 : Typed(c, n + 1)[i] = c
  BY DEF Typed
<1>6. t = Typed(c, n + 1)
  BY <1>2, <1>5, SeqEqual
<1> QED BY <1>3, <1>4, <1>6 DEF s, t

(* A call that runs makes an event, fails or ends: what the others are     *)
(* doing stays, and none of them is a fill with the page to itself.        *)
LEMMA RunningMoves ==
    ASSUME InputInv, InputTypes', NEW c \in Call, inputCall[c].at = "running",
           \A d \in Call \ {c} : /\ inputCall'[d].at = inputCall[d].at
                                 /\ inputCall'[d].alone = inputCall[d].alone,
           inputCall'[c].at = "running" => inputCall'[c].alone = inputCall[c].alone,
           LoneFill(c)' => \E k \in 0..Steps : FillAt(c, k)'
    PROVE  InputInv'
<1>1. ASSUME NEW d \in Call, d # c PROVE ~(inputCall'[d].at = "running" /\ inputCall'[d].alone)
  BY <1>1 DEF InputInv
<1>2. inputCall'[c].at = "running" /\ inputCall'[c].alone =>
         \A d \in Call \ {c} : inputCall'[d].at # "running"
  BY DEF InputInv
<1> QED BY <1>1, <1>2 DEF InputInv, LoneFill

(* A call that is issued takes the page from every call that runs; it has  *)
(* it to itself when none did.                                             *)
LEMMA StartsAlone ==
    ASSUME InputInv, NEW c \in Call, NEW events, NEW f \in Field \cup {None}, NEW to,
           Input!Start(c, events, f, to), f # None => events = Input!fill_field(f)
    PROVE  InputInv'
<1> DEFINE mine == [at |-> "running", todo |-> events, field |-> f, aim |-> to[1], to |-> to[2],
                    alone |-> Input!Running = {} /\ ~modifier]
           others(x) == [inputCall[x] EXCEPT !.alone = inputCall[x].alone
                                                       /\ inputCall[x].at # "running"]
<1>0. /\ inputCall[c].at = "idle" /\ UNCHANGED <<pointer, pressed, modifier, focus, text>>
      /\ inputCall' = [x \in Call |-> IF x = c THEN mine ELSE others(x)]
  BY DEF Input!Start
<1>1. /\ DOMAIN mine = Fields /\ mine.at = "running" /\ mine.todo = events /\ mine.field = f
      /\ mine.alone = (Input!Running = {} /\ ~modifier)
  BY DEF Fields
<1>2. ASSUME NEW d \in Call
      PROVE  /\ DOMAIN others(d) = Fields /\ others(d).at = inputCall[d].at
             /\ others(d).alone => inputCall[d].at # "running"
  <2>1. DOMAIN inputCall[d] = Fields
    BY DEF InputInv, InputTypes
  <2> QED BY <2>1 DEF Fields
<1> HIDE DEF mine, others
<1>3. inputCall'[c] = mine /\ \A d \in Call \ {c} : inputCall'[d] = others(d)
  BY <1>0
<1>4. InputTypes'
  BY <1>0, <1>1, <1>2, <1>3 DEF InputInv, InputTypes
<1>5. ASSUME NEW d \in Call, d # c PROVE ~(inputCall'[d].at = "running" /\ inputCall'[d].alone)
  BY <1>2, <1>3, <1>5
<1>6. inputCall'[c].at = "running" /\ inputCall'[c].alone =>
         \A d \in Call \ {c} : inputCall'[d].at # "running"
  BY <1>1, <1>2, <1>3 DEF Input!Running
<1>7. LoneFill(c)' => FillAt(c, 0)'
  <2> SUFFICES ASSUME LoneFill(c)' PROVE FillAt(c, 0)'
    OBVIOUS
  <2>1. f \in Field /\ events = Input!fill_field(f) /\ ~modifier'
    BY <1>0, <1>1, <1>3 DEF LoneFill
  <2>2. Rest(events, f, 0)
    BY <2>1, FillsInOrder
  <2>3. inputCall'[c].todo = events /\ inputCall'[c].field = f
    BY <1>1, <1>3
  <2> QED BY <2>1, <2>2, <2>3 DEF FillAt
<1>8. 0 \in 0..Steps
  BY BoundsAreNumbers DEF Steps
<1> QED BY <1>4, <1>5, <1>6, <1>7, <1>8 DEF InputInv, LoneFill

\* The next event of a fill that has the page to itself.
LEMMA NextOfFill ==
    ASSUME InputInv, NEW c \in Call, LoneFill(c), inputCall[c].todo # <<>>
    PROVE  \E k \in 0..Steps :
              /\ FillAt(c, k) /\ k < Steps /\ k + 1 \in 0..Steps
              /\ Head(inputCall[c].todo).do = Do(k + 1)
              /\ Input!On(c) = inputCall[c].field
              /\ Rest(Tail(inputCall[c].todo), inputCall[c].field, k + 1)
<1>1. PICK k \in 0..Steps : FillAt(c, k)
  BY DEF InputInv
<1>2. Rest(inputCall[c].todo, inputCall[c].field, k)
  BY <1>1 DEF FillAt
<1> DEFINE s == inputCall[c].todo
           f == inputCall[c].field
<1>3. Rest(s, f, k) /\ s # <<>>
  BY <1>2
<1> HIDE DEF s, f
<1>4. /\ k < Steps /\ k + 1 \in 0..Steps
      /\ Head(s).do = Do(k + 1) /\ Head(s).on = f
      /\ Rest(Tail(s), f, k + 1)
  BY <1>3, NextOfRest
<1> QED BY <1>1, <1>4 DEF Input!On, s, f

\* Which event of a fill it is, from what it does.
LEMMA EventsOfFill ==
    ASSUME NEW k \in 0..Steps
    PROVE  /\ (Do(k + 1) = "aim") <=> (k = 0)
           /\ (Do(k + 1) = "glide") <=> (k = 1)
           /\ (Do(k + 1) = "down") <=> (k = 2)
           /\ (Do(k + 1) = "up") <=> (k = 3)
           /\ (Do(k + 1) = "selectAll") <=> (k = 4)
           /\ (Do(k + 1) = "erase") <=> (k = 5)
           /\ (Do(k + 1) = "type") <=> (k >= 6)
           /\ Do(k + 1) \in {"aim", "glide", "down", "up", "selectAll", "erase", "type"}
<1>1. k \in Nat
  BY BoundsAreNumbers DEF Steps
<1> QED BY <1>1 DEF Do

\* An event that changes nothing of the call but what is left to do.
LEMMA DoneMoves ==
    ASSUME InputInv, NEW c \in Call, inputCall[c].at = "running", Input!Done(c),
           DOMAIN text' = Field, inputCall[c].todo # <<>>,
           \A k \in 0..Steps :
              LoneFill(c) /\ FillAt(c, k) /\ Head(inputCall[c].todo).do = Do(k + 1)
                /\ k < Steps /\ Rest(Tail(inputCall[c].todo), inputCall[c].field, k + 1) =>
                 /\ k # 0 /\ ~modifier'
                 /\ k >= 1 => pointer' = inputCall[c].field
                 /\ k >= 2 => focus' = inputCall[c].field
                 /\ k >= 5 => text'[inputCall[c].field] = Typed(c, k - 5)
    PROVE  InputInv'
<1> DEFINE r == [inputCall[c] EXCEPT !.todo = Tail(inputCall[c].todo)]
<1>1. DOMAIN inputCall = Call /\ DOMAIN inputCall[c] = Fields
  BY DEF InputInv, InputTypes
<1>2. /\ DOMAIN r = Fields /\ r.at = inputCall[c].at /\ r.alone = inputCall[c].alone
      /\ r.field = inputCall[c].field /\ r.todo = Tail(inputCall[c].todo) /\ r.aim = inputCall[c].aim
  BY <1>1 DEF Fields
<1>3. inputCall' = [inputCall EXCEPT ![c] = r]
  BY DEF Input!Done
<1> HIDE DEF r
<1>4. DOMAIN inputCall' = Call /\ inputCall'[c] = r /\ \A d \in Call \ {c} : inputCall'[d] = inputCall[d]
  BY <1>1, <1>3
<1>5. InputTypes'
  BY <1>2, <1>4 DEF InputInv, InputTypes
<1>6. ASSUME LoneFill(c)' PROVE \E k \in 0..Steps : FillAt(c, k)'
  <2>1. LoneFill(c)
    BY <1>2, <1>4, <1>6 DEF LoneFill
  <2>2. PICK k \in 0..Steps :
              /\ FillAt(c, k) /\ k < Steps /\ k + 1 \in 0..Steps
              /\ Head(inputCall[c].todo).do = Do(k + 1)
              /\ Rest(Tail(inputCall[c].todo), inputCall[c].field, k + 1)
    BY <2>1, NextOfFill
  <2>3. k \in Nat /\ k + 1 # 1 /\ (k + 1) - 6 = k - 5
    BY <2>1, <2>2, BoundsAreNumbers DEF Steps
  <2>4. FillAt(c, k + 1)'
    BY <1>2, <1>4, <2>1, <2>2, <2>3 DEF FillAt
  <2> QED BY <2>2, <2>4
<1> QED BY <1>2, <1>4, <1>5, <1>6, RunningMoves

\* What becomes of one call, the others being left alone.
LEMMA OneMoves ==
    ASSUME InputInv, NEW c \in Call, inputCall[c].at = "running", NEW r,
           DOMAIN r = Fields, inputCall' = [inputCall EXCEPT ![c] = r], DOMAIN text' = Field,
           r.at = "running" => r.alone = inputCall[c].alone,
           LoneFill(c)' => \E k \in 0..Steps : FillAt(c, k)'
    PROVE  InputInv'
<1>1. DOMAIN inputCall' = Call /\ inputCall'[c] = r /\ \A d \in Call \ {c} : inputCall'[d] = inputCall[d]
  BY DEF InputInv, InputTypes
<1>2. InputTypes'
  BY <1>1 DEF InputInv, InputTypes
<1> QED BY <1>1, <1>2, RunningMoves

\* A call that fails or ends has no fill to go on with.
LEMMA OverMoves ==
    ASSUME InputInv, NEW c \in Call, inputCall[c].at = "running", NEW at, at # "running",
           inputCall' = [inputCall EXCEPT ![c] = [Input!Free EXCEPT !.at = at]], UNCHANGED text
    PROVE  InputInv'
<1> DEFINE r == [Input!Free EXCEPT !.at = at]
<1>1. DOMAIN r = Fields /\ r.at = at
  BY DEF Input!Free, Fields
<1>2. inputCall' = [inputCall EXCEPT ![c] = r] /\ DOMAIN text' = Field
  BY DEF InputInv, InputTypes
<1> HIDE DEF r
<1>3. inputCall'[c] = r
  BY <1>2 DEF InputInv, InputTypes
<1> QED BY <1>1, <1>2, <1>3, OneMoves DEF LoneFill

LEMMA AimMoves == ASSUME InputInv, NEW c \in Call, Input!Aim(c) PROVE InputInv'
<1>0. inputCall[c].at = "running" /\ inputCall[c].todo # <<>> /\ DOMAIN inputCall[c] = Fields
      /\ DOMAIN text = Field /\ DOMAIN inputCall = Call
  BY DEF Input!Aim, Input!Begins, InputInv, InputTypes
<1>1. UNCHANGED <<pointer, pressed, modifier, focus, text>>
  BY DEF Input!Aim
<1>2. CASE Input!Fails(c)
  BY <1>0, <1>1, <1>2, OverMoves DEF Input!Fails
<1>3. CASE Input!Begins(c, "aim") /\ inputCall' = [inputCall EXCEPT ![c].aim = Input!On(c),
                                                   ![c].todo = Tail(@)]
  <2> DEFINE r == [inputCall[c] EXCEPT !.aim = Input!On(c), !.todo = Tail(inputCall[c].todo)]
  <2>1. /\ DOMAIN r = Fields /\ r.at = inputCall[c].at /\ r.alone = inputCall[c].alone
        /\ r.field = inputCall[c].field /\ r.todo = Tail(inputCall[c].todo) /\ r.aim = Input!On(c)
    BY <1>0 DEF Fields
  <2>2. inputCall' = [inputCall EXCEPT ![c] = r]
    BY <1>0, <1>3
  <2> HIDE DEF r
  <2>3. inputCall'[c] = r
    BY <1>0, <2>2
  <2>4. ASSUME LoneFill(c)' PROVE \E k \in 0..Steps : FillAt(c, k)'
    <3>1. LoneFill(c)
      BY <1>0, <2>1, <2>3, <2>4 DEF LoneFill
    <3>2. PICK k \in 0..Steps :
              /\ FillAt(c, k) /\ k < Steps /\ k + 1 \in 0..Steps
              /\ Head(inputCall[c].todo).do = Do(k + 1)
              /\ Input!On(c) = inputCall[c].field
              /\ Rest(Tail(inputCall[c].todo), inputCall[c].field, k + 1)
      BY <1>0, <3>1, NextOfFill
    <3>3. k = 0
      BY <1>3, <3>2, EventsOfFill DEF Input!Begins
    <3>4. FillAt(c, 1)'
      BY <1>1, <2>1, <2>3, <3>2, <3>3 DEF FillAt
    <3> QED BY <3>2, <3>3, <3>4
  <2> QED BY <1>0, <1>1, <2>1, <2>2, <2>4, OneMoves
<1>4. CASE Input!Begins(c, "aimTo") /\ inputCall' = [inputCall EXCEPT ![c].to = Input!On(c),
                                                     ![c].todo = Tail(@)]
  <2> DEFINE r == [inputCall[c] EXCEPT !.to = Input!On(c), !.todo = Tail(inputCall[c].todo)]
  <2>1. /\ DOMAIN r = Fields /\ r.at = inputCall[c].at /\ r.alone = inputCall[c].alone
        /\ r.field = inputCall[c].field
    BY <1>0 DEF Fields
  <2>2. inputCall' = [inputCall EXCEPT ![c] = r]
    BY <1>0, <1>4
  <2> HIDE DEF r
  <2>3. inputCall'[c] = r
    BY <1>0, <2>2
  <2>4. ~LoneFill(c)'
    <3> SUFFICES ASSUME LoneFill(c)' PROVE FALSE
      OBVIOUS
    <3>1. LoneFill(c)
      BY <1>0, <2>1, <2>3 DEF LoneFill
    <3>2. PICK k \in 0..Steps : Head(inputCall[c].todo).do = Do(k + 1)
      BY <1>0, <3>1, NextOfFill
    <3> QED BY <1>4, <3>2, EventsOfFill DEF Input!Begins
  <2> QED BY <1>0, <1>1, <2>1, <2>2, <2>4, OneMoves
<1> QED BY <1>2, <1>3, <1>4 DEF Input!Aim

LEMMA ForceClickMoves == ASSUME InputInv, NEW c \in Call, Input!ForceClick(c) PROVE InputInv'
<1>0. inputCall[c].at = "running" /\ inputCall[c].todo # <<>> /\ DOMAIN inputCall[c] = Fields
      /\ DOMAIN text = Field /\ DOMAIN inputCall = Call
  BY DEF Input!ForceClick, Input!Begins, InputInv, InputTypes
<1>1. pointer' = Input!On(c) /\ focus' = Input!On(c) /\ UNCHANGED <<modifier, text>>
  BY DEF Input!ForceClick
<1> DEFINE h == Input!human_type(inputCall[c].field)
           r == [inputCall[c] EXCEPT !.todo = h]
<1>2. /\ DOMAIN r = Fields /\ r.at = inputCall[c].at /\ r.alone = inputCall[c].alone
      /\ r.field = inputCall[c].field /\ r.todo = h
  BY <1>0 DEF Fields
<1>3. inputCall' = [inputCall EXCEPT ![c] = r]
  BY DEF Input!ForceClick
<1> HIDE DEF r, h
<1>4. inputCall'[c] = r
  BY <1>0, <1>3
<1>5. ASSUME LoneFill(c)' PROVE \E k \in 0..Steps : FillAt(c, k)'
  <2>1. LoneFill(c)
    BY <1>0, <1>2, <1>4, <1>5 DEF LoneFill
  <2>2. PICK k \in 0..Steps : FillAt(c, k) /\ Input!On(c) = inputCall[c].field
    BY <1>0, <2>1, NextOfFill
  <2>3. inputCall[c].field \in Field /\ ~modifier
    BY <2>2 DEF FillAt
  <2>4. Rest(h, inputCall[c].field, 4)
    BY <2>3, FillsInOrder DEF h
  <2>5. FillAt(c, 4)'
    BY <1>1, <1>2, <1>4, <2>2, <2>3, <2>4 DEF FillAt
  <2> QED BY <2>5, BoundsAreNumbers DEF Steps
<1> QED BY <1>0, <1>1, <1>2, <1>3, <1>5, OneMoves

LEMMA GlideMoves == ASSUME InputInv, NEW c \in Call, Input!Glide(c) PROVE InputInv'
<1>0. inputCall[c].at = "running" /\ inputCall[c].todo # <<>> /\ DOMAIN inputCall[c] = Fields
      /\ DOMAIN text = Field /\ DOMAIN inputCall = Call
  BY DEF Input!Glide, Input!Begins, InputInv, InputTypes
<1>1. UNCHANGED <<modifier, focus, text>>
  BY DEF Input!Glide
<1>2. CASE Input!Begins(c, "glide") /\ pointer' = inputCall[c].aim
           /\ inputCall' = [inputCall EXCEPT ![c].aim = None, ![c].todo = Tail(@)]
  <2> DEFINE r == [inputCall[c] EXCEPT !.aim = None, !.todo = Tail(inputCall[c].todo)]
  <2>1. /\ DOMAIN r = Fields /\ r.at = inputCall[c].at /\ r.alone = inputCall[c].alone
        /\ r.field = inputCall[c].field /\ r.todo = Tail(inputCall[c].todo)
    BY <1>0 DEF Fields
  <2>2. inputCall' = [inputCall EXCEPT ![c] = r]
    BY <1>0, <1>2
  <2> HIDE DEF r
  <2>3. inputCall'[c] = r
    BY <1>0, <2>2
  <2>4. ASSUME LoneFill(c)' PROVE \E k \in 0..Steps : FillAt(c, k)'
    <3>1. LoneFill(c)
      BY <1>0, <2>1, <2>3, <2>4 DEF LoneFill
    <3>2. PICK k \in 0..Steps :
              /\ FillAt(c, k) /\ k < Steps /\ k + 1 \in 0..Steps
              /\ Head(inputCall[c].todo).do = Do(k + 1)
              /\ Rest(Tail(inputCall[c].todo), inputCall[c].field, k + 1)
      BY <1>0, <3>1, NextOfFill
    <3>3. k = 1
      BY <1>2, <3>2, EventsOfFill DEF Input!Begins
    <3>4. FillAt(c, 2)'
      BY <1>1, <1>2, <2>1, <2>3, <3>2, <3>3 DEF FillAt
    <3> QED BY <3>2, <3>3, <3>4
  <2> QED BY <1>0, <1>1, <2>1, <2>2, <2>4, OneMoves
<1>3. CASE Input!Begins(c, "glideTo")
           /\ inputCall' = [inputCall EXCEPT ![c].to = None, ![c].todo = Tail(@)]
  <2> DEFINE r == [inputCall[c] EXCEPT !.to = None, !.todo = Tail(inputCall[c].todo)]
  <2>1. /\ DOMAIN r = Fields /\ r.at = inputCall[c].at /\ r.alone = inputCall[c].alone
        /\ r.field = inputCall[c].field
    BY <1>0 DEF Fields
  <2>2. inputCall' = [inputCall EXCEPT ![c] = r]
    BY <1>0, <1>3
  <2> HIDE DEF r
  <2>3. inputCall'[c] = r
    BY <1>0, <2>2
  <2>4. ~LoneFill(c)'
    <3> SUFFICES ASSUME LoneFill(c)' PROVE FALSE
      OBVIOUS
    <3>1. LoneFill(c)
      BY <1>0, <2>1, <2>3 DEF LoneFill
    <3>2. PICK k \in 0..Steps : Head(inputCall[c].todo).do = Do(k + 1)
      BY <1>0, <3>1, NextOfFill
    <3> QED BY <1>3, <3>2, EventsOfFill DEF Input!Begins
  <2> QED BY <1>0, <1>1, <2>1, <2>2, <2>4, OneMoves
<1> QED BY <1>2, <1>3 DEF Input!Glide

LEMMA ButtonMoves ==
    ASSUME InputInv, NEW c \in Call, Input!Down(c) \/ Input!Up(c) \/ Input!KeepDown(c) PROVE InputInv'
<1>0. inputCall[c].at = "running" /\ inputCall[c].todo # <<>> /\ Input!Done(c)
      /\ DOMAIN text' = Field /\ UNCHANGED <<pointer, modifier, text>>
  BY DEF Input!Down, Input!Up, Input!KeepDown, Input!Begins, InputInv, InputTypes
<1>1. ASSUME NEW k \in 0..Steps, LoneFill(c), FillAt(c, k), Head(inputCall[c].todo).do = Do(k + 1)
      PROVE  /\ k # 0 /\ ~modifier'
             /\ k >= 1 => pointer' = inputCall[c].field
             /\ k >= 2 => focus' = inputCall[c].field
             /\ k >= 5 => text'[inputCall[c].field] = Typed(c, k - 5)
  <2>0. k \in Nat /\ inputCall[c].field \in Field
    BY <1>1, BoundsAreNumbers DEF FillAt, Steps
  <2>1. CASE Input!Down(c)
    <3>1. k = 2 /\ focus' = IF pointer \in Field THEN pointer ELSE None
      BY <1>1, <2>1, EventsOfFill DEF Input!Down, Input!Begins
    <3> QED BY <1>0, <1>1, <2>0, <3>1 DEF FillAt
  <2>2. CASE Input!Up(c)
    <3>1. k = 3 /\ focus' = focus
      BY <1>1, <2>2, EventsOfFill DEF Input!Up, Input!Begins
    <3> QED BY <1>0, <1>1, <2>0, <3>1 DEF FillAt
  <2>3. CASE Input!KeepDown(c)
    BY <1>1, <2>3, EventsOfFill DEF Input!KeepDown, Input!Begins
  <2> QED BY <2>1, <2>2, <2>3
<1> QED BY <1>0, <1>1, DoneMoves

LEMMA TypeMoves == ASSUME InputInv, NEW c \in Call, Input!Type(c) PROVE InputInv'
<1>0. inputCall[c].at = "running" /\ inputCall[c].todo # <<>> /\ Input!Done(c)
      /\ DOMAIN text = Field /\ UNCHANGED <<pointer, modifier, focus>>
  BY DEF Input!Type, Input!Begins, InputInv, InputTypes
<1>1. DOMAIN text' = Field
  BY <1>0 DEF Input!Type
<1>2. ASSUME NEW k \in 0..Steps, LoneFill(c), FillAt(c, k), Head(inputCall[c].todo).do = Do(k + 1),
             k < Steps
      PROVE  /\ k # 0 /\ ~modifier'
             /\ k >= 1 => pointer' = inputCall[c].field
             /\ k >= 2 => focus' = inputCall[c].field
             /\ k >= 5 => text'[inputCall[c].field] = Typed(c, k - 5)
  <2> DEFINE f == inputCall[c].field
  <2>0. k \in Nat /\ f \in Field /\ ~modifier /\ Length \in Nat
    BY <1>2, BoundsAreNumbers DEF FillAt, Steps
  <2>1. k >= 2 => pointer = f
    BY <1>2 DEF FillAt
  <2>2. k >= 3 => focus = f /\ Input!Writes
    BY <1>2, <2>0, PartsAreDistinct DEF FillAt, Input!Writes
  <2> HIDE DEF f
  <2>3. CASE Input!Begins(c, "selectAll")
    <3>1. k = 4
      BY <1>2, <2>3, EventsOfFill DEF Input!Begins
    <3> QED BY <1>0, <2>0, <2>1, <2>2, <3>1 DEF f
  <2>4. CASE Input!Begins(c, "erase") /\ text' = IF Input!Writes THEN [text EXCEPT ![focus] = <<>>] ELSE text
    <3>1. k = 5
      BY <1>2, <2>4, EventsOfFill DEF Input!Begins
    <3>2. text'[f] = <<>> /\ Typed(c, 0) = <<>>
      BY <1>0, <2>0, <2>2, <2>4, <3>1 DEF Typed
    <3> QED BY <1>0, <2>0, <2>1, <2>2, <3>1, <3>2 DEF f
  <2>5. CASE Input!Begins(c, "type")
             /\ text' = IF Input!Writes THEN [text EXCEPT ![focus] = Input!Held(Append(@, c))] ELSE text
    <3>1. k >= 6
      BY <1>2, <2>5, EventsOfFill DEF Input!Begins
    <3>2. text[f] = Typed(c, k - 6) /\ k - 6 \in Nat /\ k - 6 < Length /\ (k - 6) + 1 = k - 5
      BY <1>2, <2>0, <3>1 DEF FillAt, Steps, f
    <3>3. text'[f] = Input!Held(Append(text[f], c))
      BY <1>0, <2>0, <2>2, <2>5, <3>1
    <3>4. text'[f] = Typed(c, k - 5)
      BY <3>2, <3>3, OneMoreTyped
    <3> QED BY <1>0, <2>0, <2>1, <2>2, <3>1, <3>4 DEF f
  <2> QED BY <1>0, <2>3, <2>4, <2>5 DEF Input!Type
<1> QED BY <1>0, <1>1, <1>2, DoneMoves

LEMMA PressMoves == ASSUME InputInv, NEW c \in Call, Input!Press(c) PROVE InputInv'
<1>0. inputCall[c].at = "running" /\ inputCall[c].todo # <<>>
      /\ DOMAIN text' = Field /\ UNCHANGED text
  BY DEF Input!Press, Input!Begins, InputInv, InputTypes
<1>1. CASE Input!Fails(c)
  BY <1>0, <1>1, OverMoves DEF Input!Fails
<1>2. CASE Input!Done(c)
           /\ (Input!Begins(c, "modDown") \/ Input!Begins(c, "key") \/ Input!Begins(c, "modUp"))
  <2>1. ASSUME NEW k \in 0..Steps, LoneFill(c), Head(inputCall[c].todo).do = Do(k + 1) PROVE FALSE
    BY <1>2, <2>1, EventsOfFill DEF Input!Begins
  <2> QED BY <1>0, <1>2, <2>1, DoneMoves
<1> QED BY <1>1, <1>2 DEF Input!Press

(* The wheel moves the page for every call that runs; none of them is a    *)
(* fill with the page to itself.                                           *)
LEMMA WheelMoves == ASSUME InputInv, NEW c \in Call, Input!Wheel(c) PROVE InputInv'
<1>0. inputCall[c].at = "running" /\ inputCall[c].todo # <<>> /\ Head(inputCall[c].todo).do = "wheel"
      /\ DOMAIN text = Field /\ UNCHANGED text
  BY DEF Input!Wheel, Input!Begins, InputInv, InputTypes
<1> DEFINE todo(x) == IF x = c THEN Tail(inputCall[x].todo) ELSE inputCall[x].todo
           r(x) == [inputCall[x] EXCEPT !.aim = None, !.to = None, !.todo = todo(x)]
<1>1. inputCall' = [x \in Call |-> r(x)]
  BY DEF Input!Wheel
<1>2. ASSUME NEW d \in Call
      PROVE  /\ DOMAIN r(d) = Fields /\ r(d).at = inputCall[d].at /\ r(d).alone = inputCall[d].alone
             /\ r(d).field = inputCall[d].field
  <2>1. DOMAIN inputCall[d] = Fields
    BY DEF InputInv, InputTypes
  <2> HIDE DEF todo
  <2> QED BY <2>1 DEF Fields
<1> HIDE DEF r
<1>3. InputTypes'
  BY <1>0, <1>1, <1>2 DEF InputTypes
<1>4. ~LoneFill(c)'
  <2> SUFFICES ASSUME LoneFill(c)' PROVE FALSE
    OBVIOUS
  <2>1. LoneFill(c)
    BY <1>0, <1>1, <1>2 DEF LoneFill
  <2>2. PICK k \in 0..Steps : Head(inputCall[c].todo).do = Do(k + 1)
    BY <1>0, <2>1, NextOfFill
  <2> QED BY <1>0, <2>2, EventsOfFill
<1> QED BY <1>0, <1>1, <1>2, <1>3, <1>4, RunningMoves

LEMMA EndMoves == ASSUME InputInv, NEW c \in Call, Input!End(c) PROVE InputInv'
BY OverMoves DEF Input!End

LEMMA AgainMoves == ASSUME InputInv, NEW c \in Call, Input!Again(c) PROVE InputInv'
<1>1. /\ Input!Running = {} /\ inputCall' = [inputCall EXCEPT ![c] = Input!Free] /\ UNCHANGED text
  BY DEF Input!Again
<1>2. DOMAIN Input!Free = Fields /\ Input!Free.at # "running"
  BY DEF Input!Free, Fields
<1>3. inputCall'[c] = Input!Free /\ \A d \in Call \ {c} : inputCall'[d] = inputCall[d]
  BY <1>1 DEF InputInv, InputTypes
<1>4. InputTypes'
  BY <1>1, <1>2, <1>3 DEF InputInv, InputTypes
<1>5. \A d \in Call : inputCall'[d].at # "running"
  BY <1>1, <1>2, <1>3 DEF Input!Running
<1> QED BY <1>4, <1>5 DEF InputInv, LoneFill

LEMMA StartMoves ==
    ASSUME InputInv, NEW c \in Call,
           \/ Input!Fill(c) \/ Input!Click(c) \/ Input!Hold(c) \/ Input!Drag(c) \/ Input!Select(c)
           \/ Input!Scroll(c) \/ Input!Keys(c) \/ Input!ClickAt(c) \/ Input!DragAt(c) \/ Input!TypeAt(c)
    PROVE  InputInv'
<1>1. CASE Input!Fill(c)
  <2>1. PICK f \in Field : Input!Start(c, Input!fill_field(f), f, <<None, None>>)
    BY <1>1 DEF Input!Fill
  <2> QED BY <2>1, StartsAlone
<1>2. ASSUME NEW events, NEW to, Input!Start(c, events, None, to) PROVE InputInv'
  BY <1>2, StartsAlone
<1>3. CASE \/ Input!Click(c) \/ Input!Hold(c) \/ Input!Drag(c) \/ Input!Select(c)
           \/ Input!Scroll(c) \/ Input!Keys(c) \/ Input!TypeAt(c)
  BY <1>2, <1>3 DEF Input!Click, Input!Hold, Input!Drag, Input!Select, Input!Scroll, Input!Keys,
                    Input!TypeAt, Input!Issue
<1>4. CASE Input!ClickAt(c) \/ Input!DragAt(c)
  BY <1>2, <1>4 DEF Input!ClickAt, Input!DragAt
<1> QED BY <1>1, <1>3, <1>4

LEMMA InputKeeps == InputInv /\ [Input!Next]_(Input!vars) => InputInv'
<1> SUFFICES ASSUME InputInv, [Input!Next]_(Input!vars) PROVE InputInv'
  OBVIOUS
<1>1. CASE UNCHANGED Input!vars
  BY <1>1 DEF Input!vars, InputInv, InputTypes, LoneFill, FillAt, Rest
<1>2. ASSUME NEW c \in Call,
    \/ Input!Fill(c) \/ Input!Click(c) \/ Input!Hold(c) \/ Input!Drag(c) \/ Input!Select(c)
    \/ Input!Scroll(c) \/ Input!Keys(c) \/ Input!ClickAt(c) \/ Input!DragAt(c) \/ Input!TypeAt(c)
    \/ Input!ForceClick(c) \/ Input!Aim(c) \/ Input!Glide(c) \/ Input!Down(c) \/ Input!Up(c)
    \/ Input!KeepDown(c) \/ Input!Type(c) \/ Input!Press(c) \/ Input!Wheel(c) \/ Input!End(c)
    \/ Input!Again(c)
      PROVE InputInv'
  BY <1>2, StartMoves, ForceClickMoves, AimMoves, GlideMoves, ButtonMoves, TypeMoves, PressMoves,
     WheelMoves, EndMoves, AgainMoves
<1> QED BY <1>1, <1>2 DEF Input!Next

\* When a fill ends, all of its events have happened.
LEMMA EndsFilled ==
    ASSUME InputInv, [Input!Next]_(Input!vars), NEW c \in Call, inputCall[c].at = "running",
           inputCall'[c].at = "ended", inputCall[c].field # None, inputCall[c].alone
    PROVE  Input!Filled(c)
<1>1. inputCall[c].todo = <<>>
  <2> SUFFICES ASSUME inputCall[c].todo # <<>> PROVE FALSE
    OBVIOUS
  <2>0. DOMAIN inputCall = Call /\ \A x \in Call : DOMAIN inputCall[x] = Fields
    BY DEF InputInv, InputTypes
  <2>a. inputCall' # inputCall
    OBVIOUS
  <2>1. PICK d \in Call :
    \/ Input!Fill(d) \/ Input!Click(d) \/ Input!Hold(d) \/ Input!Drag(d) \/ Input!Select(d)
    \/ Input!Scroll(d) \/ Input!Keys(d) \/ Input!ClickAt(d) \/ Input!DragAt(d) \/ Input!TypeAt(d)
    \/ Input!ForceClick(d) \/ Input!Aim(d) \/ Input!Glide(d) \/ Input!Down(d) \/ Input!Up(d)
    \/ Input!KeepDown(d) \/ Input!Type(d) \/ Input!Press(d) \/ Input!Wheel(d) \/ Input!End(d)
    \/ Input!Again(d)
    BY <2>a DEF Input!Next, Input!vars
  <2>2. CASE \/ Input!Fill(d) \/ Input!Click(d) \/ Input!Hold(d) \/ Input!Drag(d) \/ Input!Select(d)
             \/ Input!Scroll(d) \/ Input!Keys(d) \/ Input!ClickAt(d) \/ Input!DragAt(d)
             \/ Input!TypeAt(d)
    <3>1. PICK events, f, to : Input!Start(d, events, f, to)
      BY <2>2 DEF Input!Fill, Input!Click, Input!Hold, Input!Drag, Input!Select, Input!Scroll,
                  Input!Keys, Input!ClickAt, Input!DragAt, Input!TypeAt, Input!Issue
    <3>2. d # c /\ inputCall'[c] = [inputCall[c] EXCEPT !.alone = @ /\ inputCall[c].at # "running"]
      BY <3>1 DEF Input!Start
    <3>3. inputCall'[c].at = inputCall[c].at
      BY <2>0, <3>2 DEF Fields
    <3> QED BY <3>3
  <2>3. CASE Input!Done(d)
    <3>1. inputCall'[c].at = inputCall[c].at
      BY <2>0, <2>3 DEF Input!Done, Fields
    <3> QED BY <3>1
  <2>4. CASE Input!Fails(d)
    BY <2>0, <2>4 DEF Input!Fails, Input!Free
  <2>5. ASSUME NEW r, inputCall' = [inputCall EXCEPT ![d] = r], r.at = inputCall[d].at PROVE FALSE
    BY <2>0, <2>5
  <2>6. CASE Input!ForceClick(d)
    <3>1. DOMAIN inputCall[d] = Fields
      BY <2>0
    <3> QED BY <2>5, <2>6, <3>1 DEF Input!ForceClick, Fields
  <2>7. CASE Input!Aim(d)
    <3>1. DOMAIN inputCall[d] = Fields
      BY <2>0
    <3> QED BY <2>4, <2>5, <2>7, <3>1 DEF Input!Aim, Fields
  <2>8. CASE Input!Glide(d)
    <3>1. DOMAIN inputCall[d] = Fields
      BY <2>0
    <3> QED BY <2>5, <2>8, <3>1 DEF Input!Glide, Fields
  <2>9. CASE Input!Wheel(d)
    <3> DEFINE todo == IF c = d THEN Tail(inputCall[c].todo) ELSE inputCall[c].todo
    <3>1. inputCall'[c] = [inputCall[c] EXCEPT !.aim = None, !.to = None, !.todo = todo]
      BY <2>9 DEF Input!Wheel
    <3> HIDE DEF todo
    <3>2. inputCall'[c].at = inputCall[c].at
      BY <2>0, <3>1 DEF Fields
    <3> QED BY <3>2
  <2>10. CASE Input!End(d) \/ Input!Again(d)
    BY <2>0, <2>10 DEF Input!End, Input!Again, Input!Free
  <2> QED BY <2>1, <2>2, <2>3, <2>4, <2>6, <2>7, <2>8, <2>9, <2>10 DEF Input!Down, Input!Up, Input!KeepDown,
             Input!Type, Input!Press
<1>2. PICK k \in 0..Steps : FillAt(c, k)
  BY DEF InputInv, LoneFill
<1>3. k = Steps /\ Length \in Nat
  BY <1>1, <1>2, BoundsAreNumbers DEF FillAt, Rest, Steps
<1>4. text[inputCall[c].field] = Typed(c, Length)
  BY <1>2, <1>3 DEF FillAt, Steps
<1> QED BY <1>4 DEF Input!Filled, Typed

LEMMA InputSteps == [AllNext]_allVars => [Input!Next]_(Input!vars)
BY DEF AllNext, allVars, inputVars, Input!vars

(* A fill that shared the page with no other call and found no modifier    *)
(* down leaves its field holding its text and nothing else, whatever calls *)
(* came before it (fill_field: a click, select all, delete, and the        *)
(* characters).                                                            *)
THEOREM FillsAreAsAsked == AllSpec => FilledAsAsked
<1>1. AllInit => InputInv
  BY InputStarts DEF AllInit
<1>2. InputInv /\ [AllNext]_allVars => InputInv'
  BY InputKeeps, InputSteps
<1>3. InputInv /\ [AllNext]_allVars =>
         [\A c \in Call : inputCall[c].at = "running" /\ inputCall'[c].at = "ended"
             /\ inputCall[c].field # None /\ inputCall[c].alone => Input!Filled(c)]_(Input!vars)
  BY EndsFilled, InputSteps
<1> QED BY <1>1, <1>2, <1>3, PTL DEF AllSpec, FilledAsAsked, Input!FilledAsAsked

-----------------------------------------------------------------------------
(* The section a scope names                                               *)

Node == [type : {"start", "end", "heading", "text"}, depth : Nat, name : {"exact", "part", "other"}]

\* The containers that are open after the first i nodes.
Level(i) ==
    IF i = 0 THEN 0 ELSE IF nodes[i].type = "start" THEN nodes[i].depth + 1 ELSE nodes[i].depth

(* The depths that the walker writes are those of a walk: a container's    *)
(* markers have the depth around it, and nothing is open at the end.       *)
TextInv ==
    /\ nodes \in Seq(Node) /\ depth = Level(Len(nodes))
    /\ walked => depth = 0
    /\ \A i \in 1..Len(nodes) :
          Level(i - 1) = IF nodes[i].type = "end" THEN nodes[i].depth + 1 ELSE nodes[i].depth

LEMMA LevelIsNat ==
    ASSUME TextInv
    PROVE  /\ Len(nodes) \in Nat /\ \A i \in 0..Len(nodes) : Level(i) \in Nat
           /\ \A i \in 1..Len(nodes) : nodes[i].depth \in Nat
<1>1. \A m \in Node : m.depth \in Nat
  BY DEF Node
<1>2. \A i \in 1..Len(nodes) : nodes[i] \in Node
  BY DEF TextInv
<1>3. Len(nodes) \in Nat
  BY DEF TextInv
<1> QED BY <1>1, <1>2, <1>3 DEF Level

LEMMA TextStarts == AllInit => TextInv
<1> SUFFICES ASSUME AllInit PROVE TextInv
  OBVIOUS
<1>1. nodes = <<>> /\ depth = 0
  BY DEF AllInit, Text!Init
<1>2. nodes \in Seq(Node) /\ Len(nodes) = 0
  BY <1>1
<1> QED BY <1>1, <1>2 DEF TextInv, Level

\* A node that is emitted at a depth that fits.
LEMMA EmittedFits ==
    ASSUME TextInv, NEW type \in {"start", "end", "heading", "text"},
           NEW name \in {"exact", "part", "other"}, NEW d \in Nat, Text!Emit(type, name, d),
           depth = IF type = "end" THEN d + 1 ELSE d,
           depth' = IF type = "start" THEN d + 1 ELSE d
    PROVE  TextInv'
<1> DEFINE x == [type |-> type, depth |-> d, name |-> name]
           n == Len(nodes)
<1>1. x \in Node /\ x.type = type /\ x.depth = d
  BY DEF Node
<1>2. nodes' = Append(nodes, x) /\ ~walked' /\ nodes \in Seq(Node)
  BY DEF Text!Emit, TextInv
<1> HIDE DEF x
<1>3. /\ n \in Nat /\ nodes' \in Seq(Node) /\ Len(nodes') = n + 1 /\ nodes'[n + 1] = x
      /\ \A i \in 1..n : nodes'[i] = nodes[i]
  BY <1>1, <1>2
<1> HIDE DEF n
<1>4. \A i \in 0..n : Level(i)' = Level(i)
  BY <1>3 DEF Level
<1>5. \A i \in 1..(n + 1) : i = n + 1 => Level(i)' = depth'
  BY <1>1, <1>3 DEF Level
<1>6. ASSUME NEW i \in 1..(n + 1)
      PROVE  Level(i - 1)' = IF nodes'[i].type = "end" THEN nodes'[i].depth + 1 ELSE nodes'[i].depth
  <2>1. i - 1 \in 0..n /\ Level(i - 1)' = Level(i - 1)
    BY <1>3, <1>4
  <2>2. CASE i \in 1..n
    BY <1>3, <2>1, <2>2 DEF TextInv, n
  <2>3. CASE i = n + 1
    <3>1. i - 1 = n
      BY <1>3, <2>3
    <3> QED BY <1>1, <1>3, <2>1, <2>3, <3>1 DEF TextInv, n
  <2> QED BY <1>3, <2>2, <2>3
<1>7. depth' = Level(Len(nodes))'
  <2>1. n + 1 \in 1..(n + 1)
    BY <1>3
  <2>2. \A i \in 1..(n + 1) : i = Len(nodes') => Level(i)' = depth'
    BY <1>3, <1>5
  <2> QED BY <1>3, <2>1, <2>2
<1> QED BY <1>2, <1>3, <1>6, <1>7 DEF TextInv

LEMMA TextKeeps == TextInv /\ [Text!Next]_(Text!vars) => TextInv'
<1> SUFFICES ASSUME TextInv, [Text!Next]_(Text!vars) PROVE TextInv'
  OBVIOUS
<1>0. depth \in Nat
  BY LevelIsNat DEF TextInv
<1>1. ASSUME UNCHANGED <<nodes, depth>>, walked' => walked \/ depth = 0 PROVE TextInv'
  BY <1>1 DEF TextInv, Level
<1>2. CASE Text!Opens
  BY <1>0, <1>2, EmittedFits DEF Text!Opens
<1>3. CASE Text!Closes
  <2>1. depth - 1 \in Nat /\ depth = (depth - 1) + 1
    BY <1>0, <1>3 DEF Text!Closes
  <2> QED BY <1>3, <2>1, EmittedFits DEF Text!Closes
<1>4. CASE Text!Leaf
  BY <1>0, <1>4, EmittedFits DEF Text!Leaf
<1>5. CASE Text!Complete
  BY <1>1, <1>5 DEF Text!Complete
<1>6. CASE Text!ReadPage \/ UNCHANGED Text!vars
  BY <1>1, <1>6 DEF Text!ReadPage, Text!vars
<1> QED BY <1>2, <1>3, <1>4, <1>5, <1>6 DEF Text!Next

LEMMA TextSteps == [AllNext]_allVars => [Text!Next]_(Text!vars)
BY DEF AllNext, allVars, textVars, Text!vars

Of(type, i, k)    == {m \in i..k : nodes[m].type = type}
Count(type, i, k) == Cardinality(Of(type, i, k))

LEMMA CountOfOneMore ==
    ASSUME NEW type, NEW i \in Nat, NEW k \in Nat, i <= k + 1
    PROVE  /\ Count(type, i, k) \in Nat
           /\ Count(type, i, k + 1) =
                 Count(type, i, k) + (IF nodes[k + 1].type = type THEN 1 ELSE 0)
<1>1. IsFiniteSet(Of(type, i, k))
  <2>1. IsFiniteSet(i..k)
    BY FS_Interval
  <2> QED BY <2>1, FS_Subset DEF Of
<1>2. Of(type, i, k + 1) = IF nodes[k + 1].type = type THEN Of(type, i, k) \cup {k + 1} ELSE Of(type, i, k)
  BY DEF Of
<1>3. k + 1 \notin Of(type, i, k)
  BY DEF Of
<1>4. Count(type, i, k) \in Nat
  BY <1>1, FS_CardinalityType DEF Count
<1>5. Cardinality(Of(type, i, k) \cup {k + 1}) = Count(type, i, k) + 1
  BY <1>1, <1>3, FS_AddElement DEF Count
<1> QED BY <1>2, <1>4, <1>5 DEF Count

\* The markers between two nodes tell how the level has changed.
LEMMA MarkersTellLevels ==
    ASSUME TextInv, NEW i \in 1..Len(nodes)
    PROVE  \A k \in (i - 1)..Len(nodes) :
              /\ Count("start", i, k) \in Nat /\ Count("end", i, k) \in Nat
              /\ Count("start", i, k) + Level(i - 1) = Count("end", i, k) + Level(k)
<1> DEFINE Fits(k) == /\ Count("start", i, k) \in Nat /\ Count("end", i, k) \in Nat
                      /\ Count("start", i, k) + Level(i - 1)
                            = Count("end", i, k) + Level(k)
           P == {d \in Nat : i - 1 + d <= Len(nodes) => Fits(i - 1 + d)}
<1>0. i \in Nat /\ Len(nodes) \in Nat /\ i - 1 \in Nat
  BY LevelIsNat
<1>1. 0 \in P
  <2>1. Of("start", i, i - 1) = {} /\ Of("end", i, i - 1) = {} /\ i - 1 + 0 = i - 1
    BY <1>0 DEF Of
  <2>2. Count("start", i, i - 1) = 0 /\ Count("end", i, i - 1) = 0
    BY <2>1, FS_EmptySet DEF Count
  <2>3. Level(i - 1) \in Nat
    BY <1>0, LevelIsNat
  <2>4. Fits(i - 1)
    BY <2>2, <2>3
  <2> HIDE DEF Fits
  <2> QED BY <2>1, <2>4
<1>2. ASSUME NEW d \in P \cap Nat PROVE d + 1 \in P
  <2> SUFFICES ASSUME i - 1 + (d + 1) <= Len(nodes) PROVE Fits(i - 1 + (d + 1))
    OBVIOUS
  <2> DEFINE k == i - 1 + d
  <2>1. /\ k \in Nat /\ i <= k + 1 /\ k + 1 \in 1..Len(nodes) /\ k \in 0..Len(nodes)
        /\ i - 1 + (d + 1) = k + 1 /\ (k + 1) - 1 = k /\ i - 1 \in 0..Len(nodes)
    BY <1>0
  <2>2. Fits(k)
    BY <1>0, <1>2
  <2> HIDE DEF k
  <2>3. Level(k) = IF nodes[k + 1].type = "end" THEN nodes[k + 1].depth + 1 ELSE nodes[k + 1].depth
    BY <2>1 DEF TextInv
  <2>4. Level(k + 1) = IF nodes[k + 1].type = "start" THEN nodes[k + 1].depth + 1 ELSE nodes[k + 1].depth
    BY <2>1 DEF Level
  <2>5. nodes[k + 1].depth \in Nat /\ Level(k) \in Nat /\ Level(i - 1) \in Nat
    BY <2>1, LevelIsNat
  <2>6. /\ Count("start", i, k + 1) =
              Count("start", i, k) + (IF nodes[k + 1].type = "start" THEN 1 ELSE 0)
        /\ Count("end", i, k + 1) =
              Count("end", i, k) + (IF nodes[k + 1].type = "end" THEN 1 ELSE 0)
    BY <1>0, <2>1, CountOfOneMore
  <2> SUFFICES Fits(k + 1)
    BY <2>1
  <2>7. /\ Count("start", i, k) \in Nat /\ Count("end", i, k) \in Nat
        /\ Count("start", i, k) + Level(i - 1) = Count("end", i, k) + Level(k)
    BY <2>2
  <2>8. CASE nodes[k + 1].type = "start"
    <3>1. Count("start", i, k + 1) = Count("start", i, k) + 1 /\ Count("end", i, k + 1) = Count("end", i, k)
      BY <2>6, <2>7, <2>8
    <3>2. Level(k + 1) = Level(k) + 1
      BY <2>3, <2>4, <2>5, <2>8
    <3>3. Count("start", i, k + 1) \in Nat /\ Count("end", i, k + 1) \in Nat
      BY <2>7, <3>1
    <3>4. Count("start", i, k + 1) + Level(i - 1) = Count("end", i, k + 1) + Level(k + 1)
      <4> DEFINE a == Count("start", i, k)
                 b == Count("end", i, k)
                 x == Level(i - 1)
                 y == Level(k)
      <4>1. a \in Nat /\ b \in Nat /\ x \in Nat /\ y \in Nat /\ a + x = b + y
        BY <2>5, <2>7
      <4> HIDE DEF a, b, x, y
      <4>2. (a + 1) + x = b + (y + 1) /\ a + x = (b + 1) + (y - 1)
        BY <4>1
      <4> QED BY <3>1, <3>2, <4>2 DEF a, b, x, y
    <3> QED BY <3>3, <3>4
  <2>9. CASE nodes[k + 1].type = "end"
    <3>1. Count("start", i, k + 1) = Count("start", i, k) /\ Count("end", i, k + 1) = Count("end", i, k) + 1
      BY <2>6, <2>7, <2>9
    <3>2. Level(k + 1) = Level(k) - 1 /\ Level(k + 1) \in Nat
      BY <2>3, <2>4, <2>5, <2>9
    <3>3. Count("start", i, k + 1) \in Nat /\ Count("end", i, k + 1) \in Nat
      BY <2>7, <3>1
    <3>4. Count("start", i, k + 1) + Level(i - 1) = Count("end", i, k + 1) + Level(k + 1)
      <4> DEFINE a == Count("start", i, k)
                 b == Count("end", i, k)
                 x == Level(i - 1)
                 y == Level(k)
      <4>1. a \in Nat /\ b \in Nat /\ x \in Nat /\ y \in Nat /\ a + x = b + y
        BY <2>5, <2>7
      <4> HIDE DEF a, b, x, y
      <4>2. (a + 1) + x = b + (y + 1) /\ a + x = (b + 1) + (y - 1)
        BY <4>1
      <4> QED BY <3>1, <3>2, <4>2 DEF a, b, x, y
    <3> QED BY <3>3, <3>4
  <2>10. CASE nodes[k + 1].type # "start" /\ nodes[k + 1].type # "end"
    <3>1. Count("start", i, k + 1) = Count("start", i, k) /\ Count("end", i, k + 1) = Count("end", i, k)
      BY <2>6, <2>7, <2>10
    <3>2. Level(k + 1) = Level(k)
      BY <2>3, <2>4, <2>5, <2>10
    <3> QED BY <2>7, <3>1, <3>2
  <2> QED BY <2>8, <2>9, <2>10
<1>3. Nat \subseteq P
  <2> HIDE DEF P
  <2> QED BY <1>1, <1>2, Induct
<1>4. ASSUME NEW k \in (i - 1)..Len(nodes) PROVE Fits(k)
  <2>1. k - (i - 1) \in Nat /\ i - 1 + (k - (i - 1)) = k /\ k <= Len(nodes)
    BY <1>0
  <2> QED BY <1>3, <2>1
<1> QED BY <1>4

\* The text's counting is the library's.
LEMMA CountedAlike == \A S : Text!Cardinality(S) = Cardinality(S)
BY DEF Text!Cardinality, Cardinality

LEMMA InsideByLevel ==
    ASSUME TextInv, NEW i \in 1..Len(nodes), NEW j \in 1..Len(nodes)
    PROVE  Text!Inside(i, j) <=> \A k \in i..j : Level(k) > Level(i - 1)
<1>1. ASSUME NEW k \in i..j
      PROVE  Text!Cardinality({m \in i..k : nodes[m].type = "start"})
                > Text!Cardinality({m \in i..k : nodes[m].type = "end"}) <=> Level(k) > Level(i - 1)
  <2>1. k \in (i - 1)..Len(nodes) /\ k \in 0..Len(nodes) /\ i - 1 \in 0..Len(nodes)
    BY LevelIsNat
  <2>2. Level(k) \in Nat /\ Level(i - 1) \in Nat
    BY <2>1, LevelIsNat
  <2>3. /\ Count("start", i, k) \in Nat /\ Count("end", i, k) \in Nat
        /\ Count("start", i, k) + Level(i - 1) = Count("end", i, k) + Level(k)
    BY <2>1, MarkersTellLevels
  <2>4. Count("start", i, k) > Count("end", i, k) <=> Level(k) > Level(i - 1)
    BY <2>2, <2>3
  <2> QED BY <2>4, CountedAlike, Zenon DEF Of, Count
<1> QED BY <1>1 DEF Text!Inside

\* A rise above a level opens a container at or below it.
LEMMA RiseOpens ==
    ASSUME TextInv, NEW h \in 1..Len(nodes), nodes[h].type = "heading", NEW a \in 0..(h - 1),
           NEW d \in Nat, Level(a) <= d, d < nodes[h].depth
    PROVE  \E s \in (a + 1)..(h - 1) : nodes[s].type = "start" /\ nodes[s].depth <= d
<1> DEFINE low == {k \in a..h : Level(k) <= d}
<1>0. a \in Nat /\ h \in Nat /\ Len(nodes) \in Nat /\ h <= Len(nodes) /\ a <= h - 1
  BY LevelIsNat
<1>1. low \subseteq 0..h /\ low # {}
  <2>1. a \in low
    BY <1>0
  <2> QED BY <1>0, <2>1
<1>2. PICK k \in low : \A y \in low : y <= k
  <2> HIDE DEF low
  <2> QED BY <1>0, <1>1, GreatestUpTo
<1>3. Level(h) = nodes[h].depth
  BY <1>0 DEF Level
<1>4. k # h /\ k \in a..(h - 1) /\ k + 1 \in a..h /\ k + 1 \notin low
  <2>1. k # h
    <3>1. nodes[h].depth \in Nat
      BY LevelIsNat
    <3> QED BY <1>3, <3>1
  <2>2. k \in a..(h - 1) /\ k + 1 \in a..h
    BY <1>0, <2>1
  <2>3. ~(k + 1 <= k)
    BY <1>0, <2>2
  <2> QED BY <1>2, <2>1, <2>2, <2>3
<1>5. k + 1 \in 1..Len(nodes) /\ (k + 1) - 1 = k /\ k \in 0..Len(nodes) /\ k + 1 # 0
      /\ k + 1 \in 0..Len(nodes)
  BY <1>0, <1>4
<1>6. Level(k) <= d /\ Level(k + 1) > d
  <2>1. Level(k + 1) \in Nat
    BY <1>5, LevelIsNat
  <2>2. ~(Level(k + 1) <= d)
    BY <1>4
  <2> QED BY <2>1, <2>2
<1>7. Level(k) = IF nodes[k + 1].type = "end" THEN nodes[k + 1].depth + 1 ELSE nodes[k + 1].depth
  BY <1>5 DEF TextInv
<1>8. Level(k + 1) = IF nodes[k + 1].type = "start" THEN nodes[k + 1].depth + 1 ELSE nodes[k + 1].depth
  BY <1>5 DEF Level
<1>9. nodes[k + 1].depth \in Nat
  BY <1>5, LevelIsNat
<1>10. nodes[k + 1].type = "start" /\ nodes[k + 1].depth <= d
  BY <1>6, <1>7, <1>8, <1>9
<1>11. k + 1 \in (a + 1)..(h - 1)
  <2>1. k + 1 # h
    BY <1>10
  <2> QED BY <1>0, <1>4, <2>1
<1> QED BY <1>10, <1>11

\* The greatest and the least of a set of numbers, as the text picks them.
LEMMA GreatestIs ==
    ASSUME NEW S, S \subseteq Int, NEW m \in S, \A y \in S : y <= m
    PROVE  Text!Max(S) = m
<1> DEFINE x == Text!Max(S)
<1>1. \A y \in S : m >= y
  OBVIOUS
<1>2. x \in S /\ \A y \in S : x >= y
  BY <1>1 DEF Text!Max
<1> HIDE DEF x
<1>3. x >= m /\ x <= m /\ x \in Int /\ m \in Int
  BY <1>2
<1> QED BY <1>3 DEF x

LEMMA LeastIs ==
    ASSUME NEW S, S \subseteq Int, NEW m \in S, \A y \in S : m <= y
    PROVE  Text!Min(S) = m
<1> DEFINE x == Text!Min(S)
<1>1. x \in S /\ \A y \in S : x <= y
  BY DEF Text!Min
<1> HIDE DEF x
<1>3. x >= m /\ x <= m /\ x \in Int /\ m \in Int
  BY <1>1
<1> QED BY <1>3 DEF x

\* The containers that the depths put around a heading are those around it,
\* and a heading is outside containers exactly at depth 0.
LEMMA DepthsTellContainers ==
    ASSUME TextInv, NEW h \in 1..Len(nodes), nodes[h].type = "heading"
    PROVE  /\ Text!Around(h) \subseteq Text!Enclosing(h)
           /\ Text!Enclosing(h) = {} <=> nodes[h].depth = 0
           /\ Text!Enclosing(h) # {} =>
                 /\ Text!Max(Text!Enclosing(h)) \in Text!Around(h)
                 /\ Text!Max(Text!Around(h)) = Text!Max(Text!Enclosing(h))
<1> DEFINE E == Text!Enclosing(h)
           A == Text!Around(h)
<1>0. /\ h \in Nat /\ Len(nodes) \in Nat /\ h <= Len(nodes) /\ 1 <= h /\ nodes[h].depth \in Nat
      /\ Level(h) = nodes[h].depth
  BY LevelIsNat DEF Level
<1>1. E = {i \in 1..(h - 1) : nodes[i].type = "start" /\ nodes[i].depth < nodes[h].depth}
  BY DEF Text!Enclosing
<1>2. A = {i \in 1..Len(nodes) : nodes[i].type = "start" /\ i < h /\ Text!Inside(i, h)}
  BY DEF Text!Around, Text!Nodes
<1> HIDE DEF E, A
<1>3. \A i \in 1..Len(nodes) : nodes[i].type = "start" =>
         Level(i - 1) = nodes[i].depth /\ Level(i) = nodes[i].depth + 1 /\ nodes[i].depth \in Nat
  BY LevelIsNat DEF TextInv, Level
<1>4. A \subseteq E
  <2> SUFFICES ASSUME NEW i \in A PROVE i \in E
    OBVIOUS
  <2>1. i \in 1..Len(nodes) /\ nodes[i].type = "start" /\ i \in 1..(h - 1) /\ Text!Inside(i, h) /\ h \in i..h
    BY <1>0, <1>2
  <2>2. Level(h) > Level(i - 1)
    BY <2>1, InsideByLevel
  <2> QED BY <1>0, <1>1, <1>3, <2>1, <2>2
<1>5. E = {} <=> nodes[h].depth = 0
  <2>1. ASSUME nodes[h].depth # 0 PROVE E # {}
    <3>1. 0 \in 0..(h - 1) /\ Level(0) <= 0 /\ 0 \in Nat /\ 0 < nodes[h].depth
      BY <1>0, <2>1 DEF Level
    <3>2. PICK s \in (0 + 1)..(h - 1) : nodes[s].type = "start" /\ nodes[s].depth <= 0
      BY <3>1, RiseOpens
    <3>3. s \in 1..(h - 1) /\ s \in 1..Len(nodes)
      BY <1>0
    <3>4. nodes[s].depth < nodes[h].depth
      BY <1>0, <1>3, <3>1, <3>2, <3>3
    <3> QED BY <1>1, <3>2, <3>3, <3>4
  <2>2. ASSUME nodes[h].depth = 0 PROVE E = {}
    BY <1>0, <1>1, <1>3, <2>2
  <2> QED BY <2>1, <2>2
<1>6. ASSUME E # {} PROVE Text!Max(E) \in A /\ Text!Max(A) = Text!Max(E)
  <2>1. E \subseteq 0..h /\ E \subseteq Int
    BY <1>0, <1>1
  <2>2. PICK c \in E : \A y \in E : y <= c
    BY <1>0, <1>6, <2>1, GreatestUpTo
  <2>3. Text!Max(E) = c
    BY <2>1, <2>2, GreatestIs
  <2>4. /\ c \in 1..(h - 1) /\ c \in 1..Len(nodes) /\ nodes[c].type = "start"
        /\ nodes[c].depth < nodes[h].depth /\ nodes[c].depth \in Nat
        /\ Level(c - 1) = nodes[c].depth /\ Level(c) = nodes[c].depth + 1
    BY <1>0, <1>1, <1>3
  <2>5. ASSUME NEW k \in c..h PROVE Level(k) > Level(c - 1)
    <3> SUFFICES ASSUME ~(Level(k) > Level(c - 1)) PROVE FALSE
      OBVIOUS
    <3>1. k \in 0..Len(nodes) /\ Level(k) \in Nat
      BY <1>0, <2>4, LevelIsNat
    <3>2. Level(k) <= nodes[c].depth
      BY <2>4, <3>1
    <3>3. k # c /\ k # h
      BY <1>0, <2>4, <3>2
    <3>4. k \in 0..(h - 1) /\ k > c
      BY <1>0, <2>4, <3>3
    <3>5. PICK s \in (k + 1)..(h - 1) : nodes[s].type = "start" /\ nodes[s].depth <= nodes[c].depth
      BY <2>4, <3>2, <3>4, RiseOpens
    <3>6. s \in 1..(h - 1) /\ s \in 1..Len(nodes) /\ s > c
      BY <1>0, <2>4, <3>4
    <3>7. nodes[s].depth < nodes[h].depth
      BY <1>0, <1>3, <2>4, <3>5, <3>6
    <3>8. s \in E
      BY <1>1, <3>5, <3>6, <3>7
    <3> QED BY <2>2, <2>4, <3>6, <3>8
  <2>6. Text!Inside(c, h)
    BY <2>4, <2>5, InsideByLevel
  <2>7. c \in A
    BY <1>0, <1>2, <2>4, <2>6
  <2>8. Text!Max(A) = c
    BY <1>4, <2>1, <2>2, <2>7, GreatestIs
  <2> QED BY <2>3, <2>7, <2>8
<1> QED BY <1>4, <1>5, <1>6 DEF E, A

LEMMA FirstIsOne ==
    ASSUME NEW S, S \subseteq Nat, NEW else
    PROVE  S # {} => Text!FirstOf(S, else) \in S
<1> SUFFICES ASSUME S # {} PROVE Text!Min(S) \in S
  BY DEF Text!FirstOf
<1>1. PICK m \in S : \A y \in S : m <= y
  BY LeastOfNaturals
<1>2. S \subseteq Int
  OBVIOUS
<1>3. Text!Min(S) = m
  BY <1>1, <1>2, LeastIs
<1> QED BY <1>3

LEMMA HeadingIsOne ==
    ASSUME TextInv, Text!Found
    PROVE  Text!Heading \in 1..Len(nodes) /\ nodes[Text!Heading].type = "heading"
<1> DEFINE X == Text!Headings("exact")
           Y == Text!Headings("part")
           none == Text!FirstOf(Y, 1)
<1>1. /\ \A i \in X \cup Y : i \in 1..Len(nodes) /\ nodes[i].type = "heading"
      /\ X \subseteq Nat /\ Y \subseteq Nat
  BY LevelIsNat DEF Text!Headings, Text!Nodes
<1>2. X # {} \/ Y # {}
  BY DEF Text!Found
<1>3. Text!Heading = Text!FirstOf(X, none)
  BY DEF Text!Heading
<1> HIDE DEF X, Y, none
<1>4. CASE X # {}
  BY <1>1, <1>3, <1>4, FirstIsOne
<1>5. CASE X = {}
  <2>1. Text!Heading = none /\ none \in Y
    BY <1>1, <1>2, <1>3, <1>5, FirstIsOne DEF Text!FirstOf, none
  <2> QED BY <1>1, <2>1
<1> QED BY <1>4, <1>5

\* A container ends with the first marker of its depth, where the level is back.
LEMMA ContainerEnds ==
    ASSUME TextInv, walked, NEW c \in 1..Len(nodes), nodes[c].type = "start", c < Len(nodes)
    PROVE  LET Z == {j \in 1..Len(nodes) : j > c /\ ~Text!Inside(c, j)}
               D == {j \in (c + 1)..Len(nodes) : nodes[j].type = "end" /\ nodes[j].depth = nodes[c].depth}
           IN  \E m \in D \cap Z : \A j \in D \cup Z : m <= j
<1> DEFINE Z == {j \in 1..Len(nodes) : j > c /\ ~Text!Inside(c, j)}
           D == {j \in (c + 1)..Len(nodes) : nodes[j].type = "end" /\ nodes[j].depth = nodes[c].depth}
           d == nodes[c].depth
<1>0. /\ c \in Nat /\ Len(nodes) \in Nat /\ c <= Len(nodes) /\ d \in Nat
      /\ Level(c - 1) = d /\ Level(c) = d + 1
  BY LevelIsNat DEF TextInv, Level
<1>1. \A j \in 1..Len(nodes) : Level(j) \in Nat /\ (j > c => (Level(j) <= d => j \in Z))
  <2> TAKE j \in 1..Len(nodes)
  <2>1. Level(j) \in Nat
    BY <1>0, LevelIsNat
  <2>2. ASSUME j > c, Level(j) <= d PROVE ~Text!Inside(c, j)
    <3>1. j \in c..j /\ ~(Level(j) > Level(c - 1))
      BY <1>0, <2>1, <2>2
    <3> QED BY <3>1, InsideByLevel
  <2> QED BY <2>1, <2>2
<1>2. Len(nodes) \in Z
  <2>1. Level(Len(nodes)) = 0 /\ Len(nodes) \in 1..Len(nodes)
    BY <1>0 DEF TextInv
  <2> QED BY <1>0, <1>1, <2>1
<1>3. PICK m \in Z : \A j \in Z : m <= j
  <2>1. Z \subseteq Nat
    BY <1>0
  <2> HIDE DEF Z
  <2> QED BY <1>2, <2>1, LeastOfNaturals
<1>4. /\ m \in 1..Len(nodes) /\ m > c /\ ~Text!Inside(c, m) /\ m - 1 \in 1..Len(nodes) /\ m - 1 >= c
      /\ m \in (c + 1)..Len(nodes)
  BY <1>0
<1> HIDE DEF d
<1>5. Level(m) <= d
  <2>1. PICK k \in c..m : ~(Level(k) > Level(c - 1))
    BY <1>4, InsideByLevel
  <2>2. k \in 1..Len(nodes) /\ Level(k) \in Nat
    BY <1>0, <1>1, <1>4
  <2>3. Level(k) <= d /\ k # c
    BY <1>0, <2>1, <2>2
  <2>4. k \in Z
    BY <1>0, <1>1, <2>2, <2>3
  <2>5. k = m
    BY <1>0, <1>3, <1>4, <2>4
  <2> QED BY <2>3, <2>5
<1>6. Level(m - 1) > d
  <2>1. CASE m - 1 = c
    BY <1>0, <2>1
  <2>2. CASE m - 1 # c
    <3>1. m - 1 > c /\ ~(m <= m - 1)
      BY <1>0, <1>4, <2>2
    <3>2. ~(Level(m - 1) <= d) /\ Level(m - 1) \in Nat
      BY <1>1, <1>3, <1>4, <3>1
    <3> QED BY <1>0, <3>2
  <2> QED BY <2>1, <2>2
<1>7. /\ Level(m - 1) = IF nodes[m].type = "end" THEN nodes[m].depth + 1 ELSE nodes[m].depth
      /\ Level(m) = IF nodes[m].type = "start" THEN nodes[m].depth + 1 ELSE nodes[m].depth
      /\ nodes[m].depth \in Nat
  BY <1>0, <1>4, LevelIsNat DEF TextInv, Level
<1>8. nodes[m].type = "end"
  <2> SUFFICES ASSUME nodes[m].type # "end" PROVE FALSE
    OBVIOUS
  <2>1. Level(m - 1) = nodes[m].depth /\ Level(m) >= nodes[m].depth
    BY <1>7
  <2> QED BY <1>0, <1>5, <1>6, <1>7, <2>1
<1>9. nodes[m].depth = d
  <2>1. Level(m - 1) = nodes[m].depth + 1 /\ Level(m) = nodes[m].depth
    BY <1>7, <1>8
  <2> QED BY <1>0, <1>5, <1>6, <1>7, <2>1
<1>10. m \in D
  BY <1>4, <1>8, <1>9 DEF d
<1>11. ASSUME NEW j \in D PROVE j \in Z
  <2>1. j \in 1..Len(nodes) /\ j > c /\ nodes[j].type = "end" /\ nodes[j].depth = d
    BY <1>0 DEF d
  <2>2. Level(j) = d
    BY <1>0, <2>1 DEF Level
  <2> QED BY <1>0, <1>1, <2>1, <2>2
<1> HIDE DEF D, Z
<1>12. m \in D \cap Z /\ \A j \in D \cup Z : m <= j
  BY <1>3, <1>10, <1>11
<1> QED BY <1>12 DEF D, Z

LEMMA SectionFound == TextInv => ScopeIsTheSection
<1> SUFFICES ASSUME TextInv, walked, Text!Found PROVE Text!ScopeIsTheSection
  BY DEF ScopeIsTheSection, Text!ScopeIsTheSection
<1> DEFINE h == Text!Heading
           E == Text!Enclosing(h)
           A == Text!Around(h)
           n == Len(nodes)
<1>1. h \in 1..n /\ nodes[h].type = "heading" /\ n \in Nat
  BY HeadingIsOne, LevelIsNat
<1>2. /\ A \subseteq E /\ (E = {} <=> nodes[h].depth = 0)
      /\ E # {} => Text!Max(E) \in A /\ Text!Max(A) = Text!Max(E)
  BY <1>1, DepthsTellContainers
<1>3. CASE E = {}
  <2> DEFINE S == {j \in (h + 1)..n : nodes[j].type = "heading" /\ nodes[j].depth <= nodes[h].depth}
             T == {j \in (h + 1)..n : nodes[j].type = "heading" /\ Text!Around(j) = {}}
  <2>1. Text!Scoped = h..(Text!FirstOf(S, n + 1) - 1)
    BY <1>3 DEF Text!Scoped
  <2>2. S = T
    <3>1. ASSUME NEW j \in (h + 1)..n, nodes[j].type = "heading"
          PROVE  nodes[j].depth <= nodes[h].depth <=> Text!Around(j) = {}
      <4>1. j \in 1..n /\ nodes[j].depth \in Nat /\ nodes[h].depth = 0
        BY <1>1, <1>2, <1>3, LevelIsNat
      <4>2. Text!Around(j) = {} <=> nodes[j].depth = 0
        BY <3>1, <4>1, DepthsTellContainers
      <4> QED BY <4>1, <4>2
    <3> QED BY <3>1
  <2>3. Text!ScopeIsTheSection <=> Text!Scoped = h..(Text!FirstOf(T, n + 1) - 1)
    <3>1. A = {}
      BY <1>2, <1>3
    <3> QED BY <3>1 DEF Text!ScopeIsTheSection
  <2> QED BY <2>1, <2>2, <2>3
<1>4. CASE E # {}
  <2> DEFINE c == Text!Max(E)
             D == {j \in (c + 1)..n : nodes[j].type = "end" /\ nodes[j].depth = nodes[c].depth}
             Z == {j \in 1..n : j > c /\ ~Text!Inside(c, j)}
             S == {i + 1 : i \in D}
  <2>1. /\ A # {} /\ Text!Max(A) = c /\ c \in 1..n /\ nodes[c].type = "start" /\ c < h
        /\ c # h
    <3>1. c \in A
      BY <1>2, <1>4
    <3>2. Text!Max(A) = c
      BY <1>2, <1>4
    <3>3. \A i \in A : i \in 1..n /\ nodes[i].type = "start" /\ i < h
      BY DEF Text!Around, Text!Nodes
    <3> HIDE DEF c, A
    <3> QED BY <1>1, <3>1, <3>2, <3>3
  <2>2. Text!Scoped = c..(Text!FirstOf(S, n + 1) - 1)
    BY <1>4, <2>1 DEF Text!Scoped
  <2>3. Text!ScopeIsTheSection <=> Text!Scoped = c..Text!Min(Z)
    BY <2>1 DEF Text!ScopeIsTheSection, Text!Nodes
  <2> HIDE DEF c
  <2>4. PICK m \in D \cap Z : \A j \in D \cup Z : m <= j
    <3>1. c < n
      BY <1>1, <2>1
    <3> QED BY <2>1, <3>1, ContainerEnds
  <2>5. Z \subseteq Int /\ S \subseteq Int /\ m \in Int /\ m + 1 \in S
    BY <1>1, <2>1
  <2>6. Text!Min(Z) = m
    <3> HIDE DEF Z, D
    <3> QED BY <2>4, <2>5, LeastIs
  <2>7. Text!Min(S) = m + 1
    <3>1. \A y \in S : m + 1 <= y
      <4>1. \A i \in D : i \in Int /\ m <= i
        BY <1>1, <2>1, <2>4
      <4> HIDE DEF D
      <4> QED BY <2>5, <4>1
    <3> HIDE DEF S
    <3> QED BY <2>5, <3>1, LeastIs
  <2>8. Text!FirstOf(S, n + 1) - 1 = m
    <3>1. S # {}
      BY <2>5
    <3>2. Text!FirstOf(S, n + 1) = m + 1
      <4> HIDE DEF S
      <4> QED BY <2>7, <3>1 DEF Text!FirstOf
    <3> QED BY <2>5, <3>2
  <2> QED BY <2>2, <2>3, <2>6, <2>8
<1> QED BY <1>3, <1>4

(* A scope gives the section of the heading it names: for any page the     *)
(* walker may emit, of any size and nesting, the depths that _filter_scope *)
(* compares give the least container around the heading, to its own end,   *)
(* and outside containers all up to the next heading outside them.         *)
THEOREM ScopesAreSections == AllSpec => []ScopeIsTheSection
<1>1. AllInit => TextInv
  BY TextStarts
<1>2. TextInv /\ [AllNext]_allVars => TextInv'
  BY TextKeeps, TextSteps
<1> QED BY <1>1, <1>2, SectionFound, PTL DEF AllSpec
=============================================================================
