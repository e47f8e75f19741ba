--------------------------- MODULE ChatStreamProofs ---------------------------
(***************************************************************************)
(* What the file of a turn's events holds, and what the page shows of      *)
(* them: proofs about ChatStream.                                          *)
(***************************************************************************)
EXTENDS ChatStream, SequenceFacts, FiniteSetTheorems

-----------------------------------------------------------------------------
(* The file of a turn's events.                                            *)

Unfinished(s) == phase[s] \notin {"draining", "over"}

(* What SavedIsWhole needs to be inductive: the file has got nothing until *)
(* the buffer is read, the end of the root's span was marked before that,  *)
(* and a message that was not sent has no turn.                            *)
SavedInv ==
    /\ DOMAIN phase = Turn /\ DOMAIN stream = Turn /\ DOMAIN saved = Turn /\ DOMAIN mark = Turn
    /\ \A s \in Turn : stream[s] = "unused" => phase[s] = "unused"
    /\ \A s \in Turn : Unfinished(s) => saved[s] = Unsaved
    /\ SavedIsWhole

USE DEF Unfinished

(* No turn has anything saved or marked when nothing has been sent.        *)
LEMMA SavedInit == Init => SavedInv
BY DEF Init, SavedInv, SavedIsWhole, Turn, Unsaved

(* A step that leaves the phases, the file and the client's side alone.    *)
LEMMA SavedKept ==
    ASSUME SavedInv, UNCHANGED <<plan, phase, stream, saved, mark>> PROVE SavedInv'
BY DEF SavedInv, SavedIsWhole, Turn

(* A turn whose request is given up keeps nothing and is over.             *)
LEMMA SavedCancelled ==
    ASSUME SavedInv, UNCHANGED plan, NEW s, Cancelled(s),
           NEW how \in {"aborted", "failed"}, stream' = [stream EXCEPT ![s] = how]
    PROVE  SavedInv'
BY DEF SavedInv, SavedIsWhole, Turn, Cancelled, Unsaved

(* The steps of a turn on the server.                                      *)
LEMMA SavedServer ==
    ASSUME SavedInv, UNCHANGED plan, NEW s \in Turn, Server(s) PROVE SavedInv'
<1>1. CASE Begin(s)
  BY <1>1 DEF Begin, SavedInv, SavedIsWhole, Turn, clientVars
<1>2. CASE Refused(s)
  BY <1>2 DEF Refused, SavedInv, SavedIsWhole, Turn, clientVars
<1>3. CASE Spawns(s)
  BY <1>3 DEF Spawns, SavedInv, SavedIsWhole, Turn, clientVars
<1>4. CASE Gathered(s)
  BY <1>4 DEF Gathered, SavedInv, SavedIsWhole, Turn, clientVars
<1>5. CASE RootEnds(s)
  BY <1>5 DEF RootEnds, SavedInv, SavedIsWhole, Turn, clientVars
<1>6. CASE SpanEnds(s)
  BY <1>6 DEF SpanEnds, SavedInv, SavedIsWhole, Turn, clientVars, Unsaved
<1>7. CASE GetEvents(s)
  BY <1>7 DEF GetEvents, SavedInv, SavedIsWhole, Turn, clientVars, Unsaved
<1>8. CASE Drained(s)
  BY <1>8 DEF Drained, SavedInv, SavedIsWhole, Turn, clientVars
<1>9. CASE \E k \in plan[s] : SubEnds(s, k)
  BY <1>9, SavedKept DEF SubEnds, clientVars
<1>10. CASE \E a \in Member(s) : Says(s, a)
  BY <1>10, SavedKept DEF Says, clientVars
<1> QED BY <1>1, <1>2, <1>3, <1>4, <1>5, <1>6, <1>7, <1>8, <1>9, <1>10 DEF Server

(* What the client reads changes nothing on the server.                    *)
LEMMA SavedReads ==
    ASSUME SavedInv, UNCHANGED plan, NEW s \in Turn, Reads(s) PROVE SavedInv'
<1>1. CASE AgentStarted(s) \/ AgentCompleted(s) \/ Entry(s) \/ TurnEnd(s)
  BY <1>1, SavedKept DEF AgentStarted, AgentCompleted, Entry, TurnEnd, Takes, serverVars
<1>2. CASE Ends(s)
  BY <1>2 DEF Ends, Closes, SavedInv, SavedIsWhole, Turn, serverVars
<1> QED BY <1>1, <1>2 DEF Reads

(* Sending starts a turn of a message that had none.                       *)
LEMMA SavedSend ==
    ASSUME SavedInv, UNCHANGED plan, NEW s \in Turn, Send(s) PROVE SavedInv'
BY DEF Send, SavedInv, SavedIsWhole, Turn

(* newConversation and loadConversation give up the request they find.     *)
LEMMA SavedAborts ==
    ASSUME SavedInv, UNCHANGED plan, Aborts PROVE SavedInv'
<1>1. CASE ctrl # 0
  BY <1>1, SavedCancelled DEF Aborts, Closes
<1>2. CASE ctrl = 0
  BY <1>2, SavedKept DEF Aborts
<1> QED BY <1>1, <1>2

(* Every step keeps the file whole.                                        *)
LEMMA SavedStep == SavedInv /\ [Next]_vars => SavedInv'
<1> SUFFICES ASSUME SavedInv, [Next]_vars PROVE SavedInv'
  OBVIOUS
<1>1. CASE UNCHANGED vars
  BY <1>1, SavedKept DEF vars, serverVars, clientVars
<1>2. CASE Next
  <2>0. UNCHANGED plan
    BY <1>2 DEF Next
  <2>1. ASSUME NEW s \in Turn, Send(s) PROVE SavedInv'
    BY <2>0, <2>1, SavedSend
  <2>2. ASSUME NEW s \in Turn, Server(s) PROVE SavedInv'
    BY <2>0, <2>2, SavedServer
  <2>3. ASSUME NEW s \in Turn, Deliver(s) PROVE SavedInv'
    BY <2>0, <2>3, SavedKept DEF Deliver, clientVars
  <2>4. ASSUME NEW s \in Turn, Reads(s) PROVE SavedInv'
    BY <2>0, <2>4, SavedReads
  <2>5. ASSUME NEW s \in Turn, Frame(s) PROVE SavedInv'
    BY <2>0, <2>5, SavedKept DEF Frame, serverVars
  <2>6. ASSUME NEW s \in Turn, Breaks(s) PROVE SavedInv'
    BY <2>0, <2>6, SavedCancelled DEF Breaks, Closes
  <2>7. CASE Stop
    BY <2>0, <2>7, SavedKept DEF Stop
  <2>8. CASE New \/ Load
    BY <2>0, <2>8, SavedAborts DEF New, Load
  <2>9. CASE Loaded
    BY <2>0, <2>9, SavedKept DEF Loaded, serverVars
  <2> QED BY <1>2, <2>1, <2>2, <2>3, <2>4, <2>5, <2>6, <2>7, <2>8, <2>9 DEF Next
<1> QED BY <1>1, <1>2

(* Whatever is sent, spawned, stopped, broken off or switched, the file    *)
(* of a turn's events is not written before the subscribers have handled   *)
(* all that was published up to the end of the root's span.                *)
THEOREM FileIsWhole == Spec => []SavedIsWhole
<1>1. SavedInv => SavedIsWhole
  BY DEF SavedInv
<1> QED BY <1>1, SavedInit, SavedStep, PTL DEF Spec

-----------------------------------------------------------------------------
(* The folds of the page: the nodes an update gives, and an agent's log.   *)

Laid(nodes, q)    == FoldLeft(AppendEntry, nodes, q)
LogOf(a, log, q)  == FoldLeft(LAMBDA l, e : WithEntry(a, l, e), log, q)

\* One step of either fold, and f the fold of every set of positions of q.
Step(kind, a, x, e) == IF kind = "nodes" THEN AppendEntry(x, e) ELSE WithEntry(a, x, e)
Folds(kind, a, x, q, n, f) ==
    f = [S \in SUBSET (1..n) |-> IF S = {} THEN x ELSE Step(kind, a, f[S \ {Max(S)}], q[Max(S)])]

LEMMA LastPosition ==
    ASSUME NEW n \in Nat
    PROVE  /\ \A S \in SUBSET (1..n) : S # {} => Max(S) \in S
           /\ \A S \in SUBSET (1..(n + 1)) : n + 1 \in S => Max(S) = n + 1 /\ S \ {n + 1} \in SUBSET (1..n)
           /\ \A S \in SUBSET (1..(n + 1)) : n + 1 \notin S => S \in SUBSET (1..n)
<1>1. ASSUME NEW m \in Nat, NEW S \in SUBSET (1..m), S # {}
      PROVE  Max(S) \in S /\ \A y \in S : y <= Max(S)
  <2>1. S \subseteq 0..m
    OBVIOUS
  <2> QED BY <1>1, <2>1, GreatestUpTo
<1>2. ASSUME NEW S \in SUBSET (1..(n + 1)), n + 1 \in S
      PROVE  Max(S) = n + 1 /\ S \ {n + 1} \in SUBSET (1..n)
  <2>0. n + 1 \in Nat /\ S # {}
    BY <1>2
  <2>1. Max(S) \in S /\ n + 1 <= Max(S)
    BY <1>1, <1>2, <2>0
  <2>2. \A y \in S : y \in Int /\ y <= n + 1
    OBVIOUS
  <2>3. Max(S) = n + 1
    <3>1. Max(S) \in Int /\ Max(S) <= n + 1
      BY <2>1, <2>2
    <3> QED BY <2>1, <3>1
  <2> QED BY <2>3
<1>3. ASSUME NEW S \in SUBSET (1..(n + 1)), n + 1 \notin S PROVE S \in SUBSET (1..n)
  BY <1>3
<1> QED BY <1>1, <1>2, <1>3

LEMMA FoldsExist ==
    ASSUME NEW kind, NEW a, NEW x, NEW q
    PROVE  \A n \in Nat : \E f : Folds(kind, a, x, q, n, f)
<1> DEFINE P == {n \in Nat : \E f : Folds(kind, a, x, q, n, f)}
<1>1. 0 \in P
  <2> DEFINE f == [S \in SUBSET (1..0) |-> x]
  <2>1. \A S \in SUBSET (1..0) : S = {}
    OBVIOUS
  <2>2. Folds(kind, a, x, q, 0, f)
    BY <2>1 DEF Folds
  <2> QED BY <2>2
<1>2. ASSUME NEW n \in P \cap Nat PROVE n + 1 \in P
  <2>1. PICK g : Folds(kind, a, x, q, n, g)
    OBVIOUS
  <2>2. \A S \in SUBSET (1..n) :
           g[S] = IF S = {} THEN x ELSE Step(kind, a, g[S \ {Max(S)}], q[Max(S)])
    BY <2>1 DEF Folds
  <2> DEFINE f == [S \in SUBSET (1..(n + 1)) |->
                      IF n + 1 \in S THEN Step(kind, a, g[S \ {n + 1}], q[n + 1]) ELSE g[S]]
  <2>3. \A S \in SUBSET (1..n) : S \in SUBSET (1..(n + 1)) /\ n + 1 \notin S
    <3>1. \A i \in 1..n : i \in 1..(n + 1) /\ i # n + 1
      OBVIOUS
    <3> QED BY <3>1
  <2>4. /\ \A S \in SUBSET (1..n) : f[S] = g[S]
        /\ \A S \in SUBSET (1..(n + 1)) : n + 1 \in S => f[S] = Step(kind, a, g[S \ {n + 1}], q[n + 1])
    BY <2>3
  <2> DEFINE h == [S \in SUBSET (1..(n + 1)) |->
                      IF S = {} THEN x ELSE Step(kind, a, f[S \ {Max(S)}], q[Max(S)])]
  <2>5. f = [S \in SUBSET (1..(n + 1)) |-> f[S]]
    OBVIOUS
  <2> HIDE DEF f
  <2>6. ASSUME NEW S \in SUBSET (1..(n + 1))
        PROVE  f[S] = IF S = {} THEN x ELSE Step(kind, a, f[S \ {Max(S)}], q[Max(S)])
    <3>1. CASE n + 1 \in S
      <4>1. Max(S) = n + 1 /\ S \ {n + 1} \in SUBSET (1..n) /\ S # {}
        BY <3>1, LastPosition
      <4> QED BY <2>4, <3>1, <4>1
    <3>2. CASE n + 1 \notin S
      <4>1. S \in SUBSET (1..n) /\ S \ {Max(S)} \in SUBSET (1..n)
        BY <3>2, LastPosition
      <4> QED BY <2>2, <2>4, <4>1
    <3> QED BY <3>1, <3>2
  <2>7. f = h
    BY <2>5, <2>6
  <2>8. Folds(kind, a, x, q, n + 1, f)
    BY <2>7 DEF Folds
  <2> QED BY <2>8
<1>3. Nat \subseteq P
  <2> HIDE DEF P
  <2> QED BY <1>1, <1>2, Induct
<1> QED BY <1>3

\* A fold takes one element after the other, and only looks at those it folds.
Stepwise(kind, a, x, q, n, f) ==
    /\ f[1..0] = x
    /\ \A m \in 1..n : f[1..m] = Step(kind, a, f[1..(m - 1)], q[m])

LEMMA FoldsStepwise ==
    ASSUME NEW kind, NEW a, NEW x, NEW q, NEW n \in Nat, NEW f, Folds(kind, a, x, q, n, f)
    PROVE  Stepwise(kind, a, x, q, n, f)
<1>1. \A S \in SUBSET (1..n) : f[S] = IF S = {} THEN x ELSE Step(kind, a, f[S \ {Max(S)}], q[Max(S)])
  BY DEF Folds
<1>2. 1..0 \in SUBSET (1..n) /\ 1..0 = {}
  OBVIOUS
<1>3. ASSUME NEW m \in 1..n PROVE f[1..m] = Step(kind, a, f[1..(m - 1)], q[m])
  <2> DEFINE S == 1..m
  <2>1. S \in SUBSET (1..n) /\ S # {} /\ S \ {m} = 1..(m - 1)
    OBVIOUS
  <2>2. Max(S) = m
    <3>1. m - 1 \in Nat /\ (m - 1) + 1 = m /\ S \in SUBSET (1..m) /\ m \in S
      OBVIOUS
    <3> HIDE DEF S
    <3> QED BY <3>1, LastPosition
  <2> QED BY <1>1, <2>1, <2>2
<1> QED BY <1>1, <1>2, <1>3 DEF Stepwise

LEMMA FoldsAgree ==
    ASSUME NEW kind, NEW a, NEW x, NEW q, NEW r, NEW n \in Nat, NEW k \in 0..n,
           \A i \in 1..k : q[i] = r[i],
           NEW f, Folds(kind, a, x, q, n, f), NEW g, Folds(kind, a, x, r, k, g)
    PROVE  f[1..k] = g[1..k]
<1> DEFINE P == {m \in Nat : m <= k => f[1..m] = g[1..m]}
<1>0. k \in Nat /\ Stepwise(kind, a, x, q, n, f) /\ Stepwise(kind, a, x, r, k, g)
  <2>1. k \in Nat
    OBVIOUS
  <2> QED BY <2>1, FoldsStepwise
<1>1. 0 \in P
  BY <1>0 DEF Stepwise
<1>2. ASSUME NEW m \in P \cap Nat PROVE m + 1 \in P
  <2> SUFFICES ASSUME m + 1 <= k PROVE f[1..(m + 1)] = g[1..(m + 1)]
    OBVIOUS
  <2>1. m + 1 \in 1..n /\ m + 1 \in 1..k /\ (m + 1) - 1 = m /\ f[1..m] = g[1..m]
    BY <1>0
  <2>2. f[1..(m + 1)] = Step(kind, a, f[1..((m + 1) - 1)], q[m + 1])
    BY <1>0, <2>1 DEF Stepwise
  <2>3. g[1..(m + 1)] = Step(kind, a, g[1..((m + 1) - 1)], r[m + 1])
    BY <1>0, <2>1 DEF Stepwise
  <2> QED BY <2>1, <2>2, <2>3
<1>3. Nat \subseteq P
  <2> HIDE DEF P
  <2> QED BY <1>1, <1>2, Induct
<1> QED BY <1>0, <1>3

FoldOf(kind, a, x, q) == IF kind = "nodes" THEN Laid(x, q) ELSE LogOf(a, x, q)

LEMMA FoldIsLast ==
    ASSUME NEW kind, NEW a, NEW x, NEW S, NEW q \in Seq(S)
    PROVE  \E f : Folds(kind, a, x, q, Len(q), f) /\ FoldOf(kind, a, x, q) = f[1..Len(q)]
<1>0. DOMAIN q = 1..Len(q) /\ Len(q) \in Nat
  OBVIOUS
<1>1. CASE kind = "nodes"
  <2> DEFINE f == CHOOSE f : f = [T \in SUBSET (DOMAIN q) |->
                      IF T = {} THEN x ELSE AppendEntry(f[T \ {Max(T)}], q[Max(T)])]
  <2>1. PICK g : g = [T \in SUBSET (DOMAIN q) |->
                      IF T = {} THEN x ELSE AppendEntry(g[T \ {Max(T)}], q[Max(T)])]
    <3>1. PICK g : Folds(kind, a, x, q, Len(q), g)
      BY <1>0, FoldsExist
    <3> QED BY <1>0, <1>1, <3>1 DEF Folds, Step
  <2>2. f = [T \in SUBSET (DOMAIN q) |->
                      IF T = {} THEN x ELSE AppendEntry(f[T \ {Max(T)}], q[Max(T)])]
    BY <2>1, Zenon
  <2>3. Laid(x, q) = f[DOMAIN q]
    BY Zenon DEF Laid, FoldLeft, MapThenFoldSet
  <2> HIDE DEF f
  <2> QED BY <1>0, <1>1, <2>2, <2>3 DEF Folds, Step, FoldOf
<1>2. CASE kind # "nodes"
  <2> DEFINE f == CHOOSE f : f = [T \in SUBSET (DOMAIN q) |->
                      IF T = {} THEN x ELSE WithEntry(a, f[T \ {Max(T)}], q[Max(T)])]
  <2>1. PICK g : g = [T \in SUBSET (DOMAIN q) |->
                      IF T = {} THEN x ELSE WithEntry(a, g[T \ {Max(T)}], q[Max(T)])]
    <3>1. PICK g : Folds(kind, a, x, q, Len(q), g)
      BY <1>0, FoldsExist
    <3> QED BY <1>0, <1>2, <3>1 DEF Folds, Step
  <2>2. f = [T \in SUBSET (DOMAIN q) |->
                      IF T = {} THEN x ELSE WithEntry(a, f[T \ {Max(T)}], q[Max(T)])]
    BY <2>1, Zenon
  <2>3. LogOf(a, x, q) = f[DOMAIN q]
    BY Zenon DEF LogOf, FoldLeft, MapThenFoldSet
  <2> HIDE DEF f
  <2> QED BY <1>0, <1>2, <2>2, <2>3 DEF Folds, Step, FoldOf
<1> QED BY <1>1, <1>2

LEMMA FoldGrows ==
    ASSUME NEW kind, NEW a, NEW x, NEW S, NEW q \in Seq(S), NEW e \in S
    PROVE  /\ FoldOf(kind, a, x, <<>>) = x
           /\ FoldOf(kind, a, x, Append(q, e)) = Step(kind, a, FoldOf(kind, a, x, q), e)
<1>1. FoldOf(kind, a, x, <<>>) = x
  <2>1. <<>> \in Seq(S) /\ Len(<<>>) = 0
    OBVIOUS
  <2>2. PICK f : Folds(kind, a, x, <<>>, Len(<<>>), f) /\ FoldOf(kind, a, x, <<>>) = f[1..Len(<<>>)]
    BY <2>1, FoldIsLast
  <2>3. Stepwise(kind, a, x, <<>>, 0, f)
    BY <2>1, <2>2, FoldsStepwise
  <2> QED BY <2>1, <2>2, <2>3 DEF Stepwise
<1>2. FoldOf(kind, a, x, Append(q, e)) = Step(kind, a, FoldOf(kind, a, x, q), e)
  <2> DEFINE r == Append(q, e)
             n == Len(q)
  <2>1. /\ r \in Seq(S) /\ n \in Nat /\ Len(r) = n + 1 /\ r[n + 1] = e
        /\ \A i \in 1..n : r[i] = q[i]
    OBVIOUS
  <2> HIDE DEF r
  <2>2. PICK f : Folds(kind, a, x, r, n + 1, f) /\ FoldOf(kind, a, x, r) = f[1..(n + 1)]
    BY <2>1, FoldIsLast
  <2>3. PICK g : Folds(kind, a, x, q, n, g) /\ FoldOf(kind, a, x, q) = g[1..n]
    BY FoldIsLast
  <2> HIDE DEF n
  <2>4. n + 1 \in Nat /\ n \in 0..(n + 1) /\ n + 1 \in 1..(n + 1) /\ (n + 1) - 1 = n
    BY <2>1
  <2>5. f[1..n] = g[1..n]
    BY <2>1, <2>2, <2>3, <2>4, FoldsAgree
  <2>6. f[1..(n + 1)] = Step(kind, a, f[1..((n + 1) - 1)], r[n + 1])
    <3>1. Stepwise(kind, a, x, r, n + 1, f)
      BY <2>2, <2>4, FoldsStepwise
    <3> QED BY <2>4, <3>1 DEF Stepwise
  <2> QED BY <2>1, <2>2, <2>3, <2>4, <2>5, <2>6 DEF r
<1> QED BY <1>1, <1>2

-----------------------------------------------------------------------------
(* What the page shows of the events it has read.                          *)

EntryKind == {"content", "tool_call"}
Kind      == EntryKind \cup {"started", "turn_end", "completed"}
Agents(subs)  == {Root} \cup subs
EventOf(subs) == {e \in [type : Kind, agent : Agents(subs) \cup {Nobody}] :
                     e.agent = Nobody => e.type \in {"content", "turn_end"}}
EntryOf(subs) == [type : EntryKind, agent : Agents(subs)]
LogEntry      == [type : EntryKind, pieces : Nat]
NodeType      == [status : {"none", "running", "completed"}, log : Seq(LogEntry)]
NodesOf(subs) == [Agents(subs) -> NodeType]

Occurs(q, type, a) == \E i \in 1..Len(q) : q[i].type = type /\ q[i].agent = a

\* An agent starts once, and before it says anything or completes.
Ordered(q) ==
    /\ \A i, j \in 1..Len(q) :
          q[i].type = "started" /\ q[j].type = "started" /\ q[i].agent = q[j].agent => i = j
    /\ \A j \in 1..Len(q) : q[j].type \in EntryKind \cup {"completed"} /\ q[j].agent # Nobody =>
          \E i \in 1..(j - 1) : q[i].type = "started" /\ q[i].agent = q[j].agent

(* Of the events q that were read, a node has in its log what is not in    *)
(* pd, the entries that wait for a frame.                                  *)
View(subs, q, pd, nd) ==
    /\ \A a \in Agents(subs) : nd[a].status # "none" =>
          /\ LogOf(a, nd[a].log, pd) = LogOf(a, <<>>, q) /\ Occurs(q, "started", a)
          /\ Occurs(q, "completed", a) => nd[a].status = "completed"
    /\ \A i \in 1..Len(pd) : Occurs(q, "started", pd[i].agent)

LEMMA LogGrows ==
    ASSUME NEW a, NEW log, NEW S, NEW q \in Seq(S), NEW e \in S
    PROVE  /\ LogOf(a, log, <<>>) = log
           /\ LogOf(a, log, Append(q, e)) = WithEntry(a, LogOf(a, log, q), e)
<1>1. \A r : FoldOf("log", a, log, r) = LogOf(a, log, r)
  BY DEF FoldOf
<1>2. \A x : Step("log", a, x, e) = WithEntry(a, x, e)
  BY DEF Step
<1> QED BY <1>1, <1>2, FoldGrows

LEMMA NodesGrow ==
    ASSUME NEW nodes, NEW S, NEW q \in Seq(S), NEW e \in S
    PROVE  Laid(nodes, <<>>) = nodes /\ Laid(nodes, Append(q, e)) = AppendEntry(Laid(nodes, q), e)
<1>1. \A r : FoldOf("nodes", Root, nodes, r) = Laid(nodes, r)
  BY DEF FoldOf
<1>2. \A x : Step("nodes", Root, x, e) = AppendEntry(x, e)
  BY DEF Step
<1> QED BY <1>1, <1>2, FoldGrows

\* What others said does not enter an agent's log.
LEMMA LogIsOwn ==
    ASSUME NEW a, NEW log, NEW S
    PROVE  \A q \in Seq(S) : (\A i \in 1..Len(q) : q[i].agent # a \/ q[i].type \notin EntryKind)
              => LogOf(a, log, q) = log
<1> DEFINE Silent(q) == \A i \in 1..Len(q) : q[i].agent # a \/ q[i].type \notin EntryKind
           P == {q \in Seq(S) : Silent(q) => LogOf(a, log, q) = log}
<1>1. <<>> \in P
  <2>1. <<>> \in Seq(S)
    OBVIOUS
  <2>2. LogOf(a, log, <<>>) = log
    <3>1. <<>> \in Seq({0}) /\ 0 \in {0}
      OBVIOUS
    <3> QED BY <3>1, LogGrows
  <2> QED BY <2>1, <2>2
<1>2. ASSUME NEW q \in Seq(S), NEW e \in S, q \in P PROVE Append(q, e) \in P
  <2> DEFINE r == Append(q, e)
  <2>1. r \in Seq(S) /\ Len(q) \in Nat /\ Len(r) = Len(q) + 1 /\ r[Len(q) + 1] = e
        /\ \A i \in 1..Len(q) : r[i] = q[i]
    OBVIOUS
  <2>2. LogOf(a, log, r) = WithEntry(a, LogOf(a, log, q), e)
    BY LogGrows
  <2> HIDE DEF r
  <2>3. ASSUME Silent(r) PROVE LogOf(a, log, r) = log
    <3>1. Len(q) + 1 \in 1..Len(r) /\ \A i \in 1..Len(q) : i \in 1..Len(r)
      BY <2>1
    <3>2. Silent(q)
      BY <2>1, <2>3, <3>1
    <3>3. e.agent # a \/ e.type \notin EntryKind
      BY <2>1, <2>3, <3>1
    <3>4. LogOf(a, log, q) = log
      BY <1>2, <3>2
    <3> QED BY <2>2, <3>3, <3>4 DEF WithEntry, EntryKind
  <2> HIDE DEF Silent
  <2> QED BY <2>1, <2>3 DEF r
<1>3. Seq(S) \subseteq P
  <2> HIDE DEF P
  <2> QED BY <1>1, <1>2, InductOverSeq
<1> QED BY <1>3

LEMMA LoggedIsLog ==
    ASSUME NEW log \in Seq(LogEntry), NEW t \in EntryKind
    PROVE  Logged(log, t) \in Seq(LogEntry)
<1>1. [type |-> t, pieces |-> 1] \in LogEntry
  BY DEF LogEntry
<1>2. CASE t = "content" /\ log # <<>> /\ Last(log).type = t
  <2> DEFINE n == Len(log)
             x == [log[n] EXCEPT !.pieces = @ + 1]
  <2>1. n \in Nat /\ n \in 1..n /\ log[n] \in LogEntry
    BY <1>2
  <2>2. x \in LogEntry
    BY <2>1 DEF LogEntry
  <2>3. Logged(log, t) = [log EXCEPT ![n] = x]
    BY <1>2 DEF Logged
  <2> HIDE DEF x
  <2> QED BY <2>1, <2>2, <2>3
<1>3. CASE ~(t = "content" /\ log # <<>> /\ Last(log).type = t)
  BY <1>1, <1>3 DEF Logged
<1> QED BY <1>2, <1>3

\* An update gives each agent that has a node what is meant for it.
LaidAs(subs, nd, q, r) ==
    /\ r \in NodesOf(subs)
    /\ \A a \in Agents(subs) : r[a].status = nd[a].status
          /\ (nd[a].status # "none" => r[a].log = LogOf(a, nd[a].log, q))

LEMMA LaidInNodes ==
    ASSUME NEW subs, NEW nd \in NodesOf(subs)
    PROVE  \A q \in Seq(EntryOf(subs)) : LaidAs(subs, nd, q, Laid(nd, q))
<1> DEFINE E == EntryOf(subs)
           P == {q \in Seq(E) : LaidAs(subs, nd, q, Laid(nd, q))}
<1>1. <<>> \in P
  <2>1. <<>> \in Seq(E) /\ <<>> \in Seq({0}) /\ 0 \in {0}
    OBVIOUS
  <2>2. Laid(nd, <<>>) = nd /\ \A a, log : LogOf(a, log, <<>>) = log
    BY <2>1, LogGrows, NodesGrow
  <2> QED BY <2>1, <2>2 DEF LaidAs
<1>2. ASSUME NEW q \in Seq(E), NEW e \in E, q \in P PROVE Append(q, e) \in P
  <2> DEFINE r == Laid(nd, q)
             t == Append(q, e)
             b == e.agent
  <2>1. t \in Seq(E) /\ b \in Agents(subs) /\ e.type \in EntryKind
    BY DEF EntryOf
  <2>2. Laid(nd, t) = AppendEntry(r, e) /\ \A a, log : LogOf(a, log, t) = WithEntry(a, LogOf(a, log, q), e)
    BY LogGrows, NodesGrow
  <2>3. LaidAs(subs, nd, q, r)
    BY <1>2
  <2> HIDE DEF r, t, b, E
  <2>4. r \in NodesOf(subs) /\ r[b] \in NodeType /\ r[b].log \in Seq(LogEntry)
    <3>1. \A m \in NodeType : m.log \in Seq(LogEntry)
      BY DEF NodeType
    <3> QED BY <2>1, <2>3, <3>1 DEF LaidAs, NodesOf
  <2>5. CASE r[b].status = "none"
    <3>1. AppendEntry(r, e) = r
      BY <2>5 DEF AppendEntry, b
    <3>2. ASSUME NEW a \in Agents(subs), nd[a].status # "none" PROVE r[a].log = LogOf(a, nd[a].log, t)
      <4>1. a # b
        BY <2>3, <2>5, <3>2 DEF LaidAs
      <4>2. LogOf(a, nd[a].log, t) = LogOf(a, nd[a].log, q)
        BY <2>2, <4>1 DEF WithEntry, b
      <4> QED BY <2>3, <3>2, <4>2 DEF LaidAs
    <3>3. LaidAs(subs, nd, t, r)
      BY <2>3, <3>2 DEF LaidAs
    <3> QED BY <2>1, <2>2, <3>1, <3>3 DEF t
  <2>6. CASE r[b].status # "none"
    <3> DEFINE m == [r[b] EXCEPT !.log = Logged(r[b].log, e.type)]
               u == [r EXCEPT ![b] = m]
    <3>1. AppendEntry(r, e) = u
      BY <2>6 DEF AppendEntry, b
    <3>2. m \in NodeType /\ m.status = r[b].status /\ m.log = Logged(r[b].log, e.type)
      <4>1. Logged(r[b].log, e.type) \in Seq(LogEntry)
        BY <2>1, <2>4, LoggedIsLog
      <4> QED BY <2>4, <4>1 DEF NodeType
    <3> HIDE DEF m
    <3>3. u \in NodesOf(subs) /\ u[b] = m /\ \A a \in Agents(subs) : a # b => u[a] = r[a]
      BY <2>1, <2>4, <3>2 DEF NodesOf
    <3> HIDE DEF u
    <3>4. ASSUME NEW a \in Agents(subs)
          PROVE  /\ u[a].status = nd[a].status
                 /\ nd[a].status # "none" => u[a].log = LogOf(a, nd[a].log, t)
      <4>1. CASE a = b
        <5>1. u[a].status = r[a].status /\ u[a].log = Logged(r[a].log, e.type)
          BY <3>2, <3>3, <4>1
        <5>2. LogOf(a, nd[a].log, t) = Logged(LogOf(a, nd[a].log, q), e.type)
          BY <2>1, <2>2, <4>1 DEF WithEntry, b, EntryKind
        <5> QED BY <2>3, <5>1, <5>2 DEF LaidAs
      <4>2. CASE a # b
        <5>1. u[a] = r[a]
          BY <3>3, <4>2
        <5>2. LogOf(a, nd[a].log, t) = LogOf(a, nd[a].log, q)
          BY <2>2, <4>2 DEF WithEntry, b
        <5> QED BY <2>3, <5>1, <5>2 DEF LaidAs
      <4> QED BY <4>1, <4>2
    <3>5. LaidAs(subs, nd, t, u)
      BY <3>3, <3>4 DEF LaidAs
    <3> QED BY <2>1, <2>2, <3>1, <3>5 DEF t
  <2> QED BY <2>5, <2>6
<1>3. Seq(E) \subseteq P
  <2> HIDE DEF P, E
  <2> QED BY <1>1, <1>2, InductOverSeq
<1> QED BY <1>3

-----------------------------------------------------------------------------
(* The client reads on.                                                    *)

\* What an event adds to those before it.
LEMMA OccursAlso ==
    ASSUME NEW S, NEW q \in Seq(S), NEW e \in S
    PROVE  \A type, a : Occurs(Append(q, e), type, a) <=> Occurs(q, type, a) \/ (e.type = type /\ e.agent = a)
<1> DEFINE r == Append(q, e)
<1>1. /\ Len(q) \in Nat /\ Len(r) = Len(q) + 1 /\ r[Len(q) + 1] = e
      /\ \A i \in 1..Len(q) : r[i] = q[i]
  OBVIOUS
<1>2. Len(q) + 1 \in 1..Len(r) /\ \A i \in 1..Len(r) : i \in 1..Len(q) \/ i = Len(q) + 1
  BY <1>1
<1>3. \A i \in 1..Len(q) : i \in 1..Len(r)
  BY <1>1
<1> HIDE DEF r
<1>4. \A type, a : Occurs(r, type, a) <=> Occurs(q, type, a) \/ (e.type = type /\ e.agent = a)
  BY <1>1, <1>2, <1>3 DEF Occurs
<1> QED BY <1>4 DEF r

\* What may be published after q, and what was said when it is.
MayFollow(q, e) ==
    /\ e.type = "started" => ~Occurs(q, "started", e.agent)
    /\ e.type \in EntryKind \cup {"completed"} /\ e.agent # Nobody => Occurs(q, "started", e.agent)

LEMMA OrderedGrows ==
    ASSUME NEW S, NEW q \in Seq(S), NEW e \in S
    PROVE  Ordered(Append(q, e)) <=> Ordered(q) /\ MayFollow(q, e)
<1> DEFINE r == Append(q, e)
           n == Len(q)
<1>1. /\ n \in Nat /\ Len(r) = n + 1 /\ r[n + 1] = e
      /\ \A i \in 1..n : r[i] = q[i]
  OBVIOUS
<1> HIDE DEF r, n
<1>2. /\ n + 1 \in 1..Len(r) /\ \A i \in 1..Len(r) : i \in 1..n \/ i = n + 1
      /\ \A i \in 1..n : i \in 1..Len(r) /\ i # n + 1 /\ i \in 1..((n + 1) - 1)
      /\ \A j \in 1..n : \A i \in 1..(j - 1) : i \in 1..n
      /\ \A i \in 1..((n + 1) - 1) : i \in 1..n
  BY <1>1
<1>3. ASSUME Ordered(r) PROVE Ordered(q) /\ MayFollow(q, e)
  <2>1. \A i, j \in 1..n : q[i].type = "started" /\ q[j].type = "started" /\ q[i].agent = q[j].agent => i = j
    BY <1>1, <1>2, <1>3 DEF Ordered
  <2>2. ASSUME NEW j \in 1..n, q[j].type \in EntryKind \cup {"completed"}, q[j].agent # Nobody
        PROVE  \E i \in 1..(j - 1) : q[i].type = "started" /\ q[i].agent = q[j].agent
    <3>1. PICK i \in 1..(j - 1) : r[i].type = "started" /\ r[i].agent = r[j].agent
      BY <1>1, <1>2, <1>3, <2>2 DEF Ordered
    <3> QED BY <1>1, <1>2, <3>1
  <2>3. e.type = "started" => ~Occurs(q, "started", e.agent)
    BY <1>1, <1>2, <1>3 DEF Ordered, Occurs, n
  <2>4. ASSUME e.type \in EntryKind \cup {"completed"}, e.agent # Nobody
        PROVE  Occurs(q, "started", e.agent)
    <3>1. PICK i \in 1..((n + 1) - 1) : r[i].type = "started" /\ r[i].agent = e.agent
      BY <1>1, <1>2, <1>3, <2>4 DEF Ordered
    <3> QED BY <1>1, <1>2, <3>1 DEF Occurs, n
  <2> QED BY <2>1, <2>2, <2>3, <2>4 DEF Ordered, MayFollow, n
<1>4. ASSUME Ordered(q), MayFollow(q, e) PROVE Ordered(r)
  <2>0. /\ \A i, j \in 1..n : q[i].type = "started" /\ q[j].type = "started" /\ q[i].agent = q[j].agent => i = j
        /\ \A j \in 1..n : q[j].type \in EntryKind \cup {"completed"} /\ q[j].agent # Nobody =>
              \E i \in 1..(j - 1) : q[i].type = "started" /\ q[i].agent = q[j].agent
        /\ e.type = "started" => \A i \in 1..n : ~(q[i].type = "started" /\ q[i].agent = e.agent)
        /\ e.type \in EntryKind \cup {"completed"} /\ e.agent # Nobody =>
              \E i \in 1..n : q[i].type = "started" /\ q[i].agent = e.agent
    BY <1>4 DEF Ordered, MayFollow, Occurs, n
  <2>1. ASSUME NEW i \in 1..Len(r), NEW j \in 1..Len(r),
               r[i].type = "started", r[j].type = "started", r[i].agent = r[j].agent
        PROVE  i = j
    BY <1>1, <1>2, <2>0, <2>1
  <2>2. ASSUME NEW j \in 1..Len(r), r[j].type \in EntryKind \cup {"completed"}, r[j].agent # Nobody
        PROVE  \E i \in 1..(j - 1) : r[i].type = "started" /\ r[i].agent = r[j].agent
    <3>1. CASE j \in 1..n
      <4>1. PICK i \in 1..(j - 1) : q[i].type = "started" /\ q[i].agent = q[j].agent
        BY <1>1, <2>0, <2>2, <3>1
      <4> QED BY <1>1, <1>2, <3>1, <4>1
    <3>2. CASE j = n + 1
      <4>1. PICK i \in 1..n : q[i].type = "started" /\ q[i].agent = e.agent
        BY <1>1, <2>0, <2>2, <3>2
      <4> QED BY <1>1, <1>2, <3>2, <4>1
    <3> QED BY <1>2, <3>1, <3>2
  <2> QED BY <2>1, <2>2 DEF Ordered
<1> QED BY <1>3, <1>4 DEF r

\* A frame that comes, or a flush, shows what waited.
LEMMA ViewFlushed ==
    ASSUME NEW subs, NEW q, NEW pd \in Seq(EntryOf(subs)), NEW nd \in NodesOf(subs), View(subs, q, pd, nd)
    PROVE  Laid(nd, pd) \in NodesOf(subs) /\ View(subs, q, <<>>, Laid(nd, pd))
<1> DEFINE r == Laid(nd, pd)
<1>1. LaidAs(subs, nd, pd, r)
  BY LaidInNodes
<1> HIDE DEF r
<1>2. \A a, log : LogOf(a, log, <<>>) = log
  <2>1. <<>> \in Seq({0}) /\ 0 \in {0}
    OBVIOUS
  <2> QED BY <2>1, LogGrows
<1>3. View(subs, q, <<>>, r)
  BY <1>1, <1>2 DEF View, LaidAs
<1> QED BY <1>1, <1>3 DEF LaidAs, r

\* An agent that starts has said nothing, and nothing of it waits.
LEMMA ViewStarted ==
    ASSUME NEW subs, NEW q \in Seq(EventOf(subs)), NEW pd \in Seq(EntryOf(subs)), NEW nd \in NodesOf(subs),
           View(subs, q, pd, nd), NEW e \in EventOf(subs), e.type = "started", Ordered(Append(q, e))
    PROVE  LET new == [nd EXCEPT ![e.agent] = [status |-> "running", log |-> <<>>]]
           IN  new \in NodesOf(subs) /\ View(subs, Append(q, e), pd, new)
<1> DEFINE r == Append(q, e)
           b == e.agent
           x == [status |-> "running", log |-> <<>>]
           new == [nd EXCEPT ![b] = x]
<1>1. b \in Agents(subs) /\ Ordered(q) /\ ~Occurs(q, "started", b)
  BY OrderedGrows DEF EventOf, MayFollow
<1>2. \A type, a : Occurs(r, type, a) <=> Occurs(q, type, a) \/ (e.type = type /\ b = a)
  BY OccursAlso
<1>3. \A a : LogOf(a, <<>>, r) = LogOf(a, <<>>, q)
  <2>1. \A a : LogOf(a, <<>>, r) = WithEntry(a, LogOf(a, <<>>, q), e)
    BY LogGrows
  <2> QED BY <2>1 DEF WithEntry
<1>4. x \in NodeType
  BY DEF NodeType
<1> HIDE DEF r, b, x
<1>5. new \in NodesOf(subs) /\ new[b] = x /\ \A a \in Agents(subs) : a # b => new[a] = nd[a]
  BY <1>1, <1>4 DEF NodesOf
<1> HIDE DEF new
<1>6. LogOf(b, <<>>, pd) = <<>>
  <2>1. \A i \in 1..Len(pd) : pd[i].agent # b
    BY <1>1 DEF View
  <2> QED BY <2>1, LogIsOwn
<1>7. LogOf(b, <<>>, q) = <<>> /\ ~Occurs(q, "completed", b)
  <2>1. \A j \in 1..Len(q) : q[j].type \in EntryKind \cup {"completed"} => q[j].agent # b
    <3> SUFFICES ASSUME NEW j \in 1..Len(q), q[j].type \in EntryKind \cup {"completed"}, q[j].agent = b
                 PROVE  FALSE
      OBVIOUS
    <3>1. b # Nobody
      BY DEF EventOf, b
    <3>2. PICK i \in 1..(j - 1) : q[i].type = "started" /\ q[i].agent = b
      BY <1>1, <3>1 DEF Ordered
    <3>3. i \in 1..Len(q)
      OBVIOUS
    <3> QED BY <1>1, <3>2, <3>3 DEF Occurs
  <2>2. LogOf(b, <<>>, q) = <<>>
    BY <2>1, LogIsOwn
  <2> QED BY <2>1, <2>2 DEF Occurs
<1>8. ASSUME NEW a \in Agents(subs), new[a].status # "none"
      PROVE  /\ LogOf(a, new[a].log, pd) = LogOf(a, <<>>, r) /\ Occurs(r, "started", a)
             /\ Occurs(r, "completed", a) => new[a].status = "completed"
  <2>1. CASE a = b
    <3>1. new[a].log = <<>>
      BY <1>5, <2>1 DEF x
    <3>2. Occurs(r, "started", a) /\ ~Occurs(r, "completed", a)
      BY <1>2, <1>7, <2>1
    <3> QED BY <1>3, <1>6, <1>7, <2>1, <3>1, <3>2
  <2>2. CASE a # b
    BY <1>2, <1>3, <1>5, <1>8, <2>2 DEF View
  <2> QED BY <2>1, <2>2
<1>9. \A i \in 1..Len(pd) : Occurs(r, "started", pd[i].agent)
  BY <1>2 DEF View
<1> QED BY <1>5, <1>8, <1>9 DEF View, new, r, b, x

\* An event that is no entry of a log, and starts nothing, leaves the logs alone.
LEMMA ViewOther ==
    ASSUME NEW subs, NEW q \in Seq(EventOf(subs)), NEW pd, NEW nd, View(subs, q, pd, nd),
           NEW e \in EventOf(subs), e.type = "turn_end" \/ (e.type = "content" /\ e.agent = Nobody),
           Nobody \notin Agents(subs)
    PROVE  View(subs, Append(q, e), pd, nd)
<1> DEFINE r == Append(q, e)
<1>1. \A type, a : Occurs(r, type, a) <=> Occurs(q, type, a) \/ (e.type = type /\ e.agent = a)
  BY OccursAlso
<1>2. \A a \in Agents(subs) : LogOf(a, <<>>, r) = LogOf(a, <<>>, q)
  <2>1. \A a : LogOf(a, <<>>, r) = WithEntry(a, LogOf(a, <<>>, q), e)
    BY LogGrows
  <2> QED BY <2>1 DEF WithEntry
<1> HIDE DEF r
<1>3. View(subs, r, pd, nd)
  BY <1>1, <1>2 DEF View
<1> QED BY <1>3 DEF r

LEMMA ViewCompleted ==
    ASSUME NEW subs, NEW q \in Seq(EventOf(subs)), NEW pd, NEW nd \in NodesOf(subs),
           View(subs, q, pd, nd), NEW e \in EventOf(subs), e.type = "completed"
    PROVE  LET new == IF nd[e.agent].status = "none" THEN nd ELSE [nd EXCEPT ![e.agent].status = "completed"]
           IN  new \in NodesOf(subs) /\ View(subs, Append(q, e), pd, new)
<1> DEFINE r == Append(q, e)
           b == e.agent
           new == IF nd[b].status = "none" THEN nd ELSE [nd EXCEPT ![b].status = "completed"]
<1>1. b \in Agents(subs)
  BY DEF EventOf
<1>2. \A type, a : Occurs(r, type, a) <=> Occurs(q, type, a) \/ (e.type = type /\ b = a)
  BY OccursAlso
<1>3. \A a : LogOf(a, <<>>, r) = LogOf(a, <<>>, q)
  <2>1. \A a : LogOf(a, <<>>, r) = WithEntry(a, LogOf(a, <<>>, q), e)
    BY LogGrows
  <2> QED BY <2>1 DEF WithEntry
<1> HIDE DEF r, b
<1>4. /\ new \in NodesOf(subs)
      /\ \A a \in Agents(subs) :
            /\ new[a].log = nd[a].log
            /\ new[a].status = IF a = b /\ nd[b].status # "none" THEN "completed" ELSE nd[a].status
  <2>1. CASE nd[b].status = "none"
    BY <2>1
  <2>2. CASE nd[b].status # "none"
    <3> DEFINE m == [nd[b] EXCEPT !.status = "completed"]
    <3>1. nd[b] \in NodeType
      BY <1>1 DEF NodesOf
    <3>2. m \in NodeType /\ m.status = "completed" /\ m.log = nd[b].log
      BY <3>1 DEF NodeType
    <3>3. new = [nd EXCEPT ![b] = m]
      BY <2>2
    <3> HIDE DEF m, new
    <3> QED BY <1>1, <2>2, <3>2, <3>3 DEF NodesOf
  <2> QED BY <2>1, <2>2
<1> HIDE DEF new
<1>5. View(subs, r, pd, new)
  BY <1>1, <1>2, <1>3, <1>4 DEF View
<1> QED BY <1>4, <1>5 DEF new, r, b

\* What an agent says waits for the next frame.
LEMMA ViewEntry ==
    ASSUME NEW subs, NEW q \in Seq(EventOf(subs)), NEW pd \in Seq(EntryOf(subs)), NEW nd,
           View(subs, q, pd, nd), NEW e \in EventOf(subs), e.type \in EntryKind, e.agent # Nobody,
           Ordered(Append(q, e))
    PROVE  Append(pd, e) \in Seq(EntryOf(subs)) /\ View(subs, Append(q, e), Append(pd, e), nd)
<1> DEFINE r == Append(q, e)
           p == Append(pd, e)
<1>1. e \in EntryOf(subs)
  BY DEF EventOf, EntryOf
<1>2. Occurs(q, "started", e.agent)
  BY OrderedGrows DEF MayFollow
<1>3. \A type, a : Occurs(r, type, a) <=> Occurs(q, type, a) \/ (e.type = type /\ e.agent = a)
  BY OccursAlso
<1>4. \A a, log : LogOf(a, log, r) = WithEntry(a, LogOf(a, log, q), e)
                  /\ LogOf(a, log, p) = WithEntry(a, LogOf(a, log, pd), e)
  BY <1>1, LogGrows
<1>5. /\ p \in Seq(EntryOf(subs)) /\ Len(p) = Len(pd) + 1 /\ Len(pd) \in Nat /\ p[Len(pd) + 1] = e
      /\ \A i \in 1..Len(pd) : p[i] = pd[i]
  BY <1>1
<1> HIDE DEF r, p
<1>6. \A i \in 1..Len(p) : Occurs(r, "started", p[i].agent)
  <2> SUFFICES ASSUME NEW i \in 1..Len(p) PROVE Occurs(r, "started", p[i].agent)
    OBVIOUS
  <2>1. i \in 1..Len(pd) \/ i = Len(pd) + 1
    BY <1>5
  <2> QED BY <1>2, <1>3, <1>5, <2>1 DEF View
<1>7. ASSUME NEW a \in Agents(subs), nd[a].status # "none"
      PROVE  /\ LogOf(a, nd[a].log, p) = LogOf(a, <<>>, r) /\ Occurs(r, "started", a)
             /\ Occurs(r, "completed", a) => nd[a].status = "completed"
  <2>1. Occurs(r, "completed", a) <=> Occurs(q, "completed", a)
    BY <1>3 DEF EntryKind
  <2> QED BY <1>3, <1>4, <1>7, <2>1 DEF View
<1>8. View(subs, r, p, nd)
  BY <1>6, <1>7 DEF View
<1> QED BY <1>5, <1>8 DEF r, p

\* r is what q begins with, up to n.
Begins(S, q, n, r) ==
    /\ r \in Seq(S)
    /\ Ordered(q) => Ordered(r)
    /\ n < Len(q) => q[n + 1] \in S /\ SubSeq(q, 1, n + 1) = Append(r, q[n + 1])
    /\ \A more \in Seq(S) : SubSeq(q \o more, 1, n) = r
    /\ n = Len(q) => r = q

LEMMA PrefixBegins ==
    ASSUME NEW S, NEW q \in Seq(S), NEW n \in 0..Len(q) PROVE Begins(S, q, n, SubSeq(q, 1, n))
<1> DEFINE r == SubSeq(q, 1, n)
<1>1. r \in Seq(S) /\ Len(r) = n /\ n \in Nat /\ \A i \in 1..n : r[i] = q[i] /\ i \in 1..Len(q)
  OBVIOUS
<1>2. ASSUME Ordered(q) PROVE Ordered(r)
  <2> HIDE DEF r
  <2>1. \A j \in 1..n : \A i \in 1..(j - 1) : i \in 1..n
    BY <1>1
  <2> QED BY <1>1, <1>2, <2>1 DEF Ordered
<1>3. ASSUME n < Len(q) PROVE q[n + 1] \in S /\ SubSeq(q, 1, n + 1) = Append(r, q[n + 1])
  BY <1>3
<1>4. \A more \in Seq(S) : SubSeq(q \o more, 1, n) = r
  OBVIOUS
<1>5. n = Len(q) => r = q
  OBVIOUS
<1> HIDE DEF r
<1>6. Begins(S, q, n, r)
  BY <1>1, <1>2, <1>3, <1>4, <1>5, Zenon DEF Begins
<1> QED BY <1>6 DEF r

-----------------------------------------------------------------------------
(* What ShownAsSaid needs to be inductive.                                 *)

Fresh  == {"unused", "starting", "gone"}
Closed == {"over", "refused"}

(* A turn publishes in order what its agents do, and comes to its end with *)
(* all of them ended unless it was stopped; then all was handed on.        *)
ServerFits(subs, ph, ag, sd, hd, st) ==
    /\ ag \in [Agents(subs) -> {"idle", "running", "ended", "stopped"}]
    /\ sd \in Seq(EventOf(subs)) /\ Ordered(sd) /\ hd \in 0..Len(sd)
    /\ \A a \in Agents(subs) :
          /\ ag[a] = "idle" <=> ~Occurs(sd, "started", a)
          /\ ag[a] = "ended" => Occurs(sd, "completed", a)
          /\ ag[a] = "stopped" => st
    /\ ph \in Fresh \cup {"refused"} => \A a \in Agents(subs) : ag[a] = "idle"
    /\ ph \in Fresh => sd = <<>>
    /\ ph \in {"model", "tools", "closing"} => ag[Root] = "running"
    /\ ph \in {"yielding", "draining", "over"} => ag[Root] = "ended"
    /\ ph = "model" \/ (ph \in {"closing", "yielding", "draining", "over"} /\ ~st) =>
          \A k \in subs : ag[k] \in {"idle", "ended"}
    /\ ph \in Closed => hd = Len(sd)

(* An open stream shows, or keeps for the next frame, what was read of it; *)
(* one that has ended was read to its end, and shows it.                   *)
ClientFits(subs, ph, sd, hd, sm, rd, pd, nd) ==
    /\ pd \in Seq(EntryOf(subs)) /\ nd \in NodesOf(subs) /\ rd \in 0..hd
    /\ sm = "unused" => ph = "unused" /\ pd = <<>> /\ \A a \in Agents(subs) : nd[a].status = "none"
    /\ sm \in {"open", "ended"} => View(subs, SubSeq(sd, 1, rd), pd, nd)
    /\ sm = "ended" => ph \in Closed /\ rd = hd /\ pd = <<>>

TurnFits(s) ==
    /\ ServerFits(plan[s], phase[s], agent[s], said[s], heard[s], stop[s])
    /\ ClientFits(plan[s], phase[s], said[s], heard[s], stream[s], read[s], pending[s], node[s])

Mapped ==
    /\ DOMAIN phase = Turn /\ DOMAIN agent = Turn /\ DOMAIN said = Turn /\ DOMAIN heard = Turn
    /\ DOMAIN stop = Turn /\ DOMAIN stream = Turn /\ DOMAIN read = Turn /\ DOMAIN pending = Turn
    /\ DOMAIN node = Turn

ShownInv == plan \in Plans /\ Mapped /\ \A s \in Turn : TurnFits(s)

\* The sub-agents of a turn are numbers above the root's.
Numbered(subs) == \E n \in Nat : subs = 1..n

LEMMA PlansAreNumbered ==
    ASSUME plan \in Plans, NEW s \in Turn
    PROVE  /\ Numbered(plan[s]) /\ plan[s] = 1..Cardinality(plan[s]) /\ Cardinality(plan[s]) \in Nat
           /\ Member(s) = Agents(plan[s])
BY PlansAssumption, FS_CardinalityType DEF Turn, Numbered, Member, Agents

LEMMA AgentsAreSomebody ==
    ASSUME NEW subs, Numbered(subs)
    PROVE  Nobody \notin Agents(subs) /\ Root \in Agents(subs) /\ Root \notin subs /\ subs \subseteq Agents(subs)
BY DEF Numbered, Agents, Nobody, Root

-----------------------------------------------------------------------------
(* The server's steps.                                                     *)

\* One more event that may follow.
Follows(subs, sd, e, q) ==
    /\ q \in Seq(EventOf(subs)) /\ Ordered(q) /\ Len(sd) <= Len(q) /\ Len(q) \in Nat
    /\ \A type, a : Occurs(q, type, a) <=> Occurs(sd, type, a) \/ (e.type = type /\ e.agent = a)

LEMMA Says1 ==
    ASSUME NEW subs, NEW sd \in Seq(EventOf(subs)), Ordered(sd), NEW e \in EventOf(subs), MayFollow(sd, e)
    PROVE  Follows(subs, sd, e, sd \o <<e>>)
<1> DEFINE r == Append(sd, e)
<1>1. r \in Seq(EventOf(subs)) /\ Len(sd) <= Len(r) /\ Len(r) \in Nat /\ sd \o <<e>> = r
  OBVIOUS
<1>2. Ordered(r) /\ \A type, a : Occurs(r, type, a) <=> Occurs(sd, type, a) \/ (e.type = type /\ e.agent = a)
  BY OrderedGrows, OccursAlso
<1> HIDE DEF r
<1>3. Follows(subs, sd, e, r)
  BY <1>1, <1>2 DEF Follows
<1> QED BY <1>1, <1>3

LEMMA EventIs ==
    ASSUME NEW subs, Numbered(subs), NEW t \in Kind, NEW a \in Agents(subs)
    PROVE  Event(t, a) \in EventOf(subs) /\ Event(t, a).type = t /\ Event(t, a).agent = a
BY AgentsAreSomebody DEF Event, EventOf

LEMMA EmptySaid ==
    ASSUME NEW S PROVE <<>> \in Seq(S) /\ Len(<<>>) = 0 /\ Ordered(<<>>) /\ \A t, a : ~Occurs(<<>>, t, a)
BY DEF Ordered, Occurs

LEMMA FitsBegin ==
    ASSUME NEW subs, Numbered(subs), NEW ag, NEW sd, NEW hd, NEW st,
           ServerFits(subs, "starting", ag, sd, hd, st)
    PROVE  ServerFits(subs, "model", [ag EXCEPT ![Root] = "running"], sd \o <<Event("started", Root)>>, hd, st)
<1> DEFINE e  == Event("started", Root)
           ag2 == [ag EXCEPT ![Root] = "running"]
           sd2 == sd \o <<e>>
<1>1. Root \in Agents(subs) /\ Root \notin subs /\ subs \subseteq Agents(subs)
  BY AgentsAreSomebody
<1>2. e \in EventOf(subs) /\ e.type = "started" /\ e.agent = Root
  BY <1>1, EventIs DEF Kind
<1>3. sd \in Seq(EventOf(subs)) /\ Ordered(sd) /\ sd = <<>> /\ hd \in 0..Len(sd)
      /\ \A a \in Agents(subs) : ag[a] = "idle" /\ ~Occurs(sd, "started", a)
  BY DEF ServerFits, Fresh
<1>4. MayFollow(sd, e)
  BY <1>1, <1>2, <1>3 DEF MayFollow, EntryKind
<1> HIDE DEF e
<1>5. Follows(subs, sd, e, sd2)
  BY <1>2, <1>3, <1>4, Says1
<1>6. ag2 \in [Agents(subs) -> {"idle", "running", "ended", "stopped"}] /\ ag2[Root] = "running"
      /\ \A a \in Agents(subs) : a # Root => ag2[a] = ag[a]
  BY <1>1 DEF ServerFits
<1>7. hd \in 0..Len(sd2)
  BY <1>3, <1>5 DEF Follows
<1> HIDE DEF ag2, sd2
<1>8. ServerFits(subs, "model", ag2, sd2, hd, st)
  BY <1>1, <1>2, <1>3, <1>5, <1>6, <1>7 DEF ServerFits, Fresh, Closed, Follows
<1> QED BY <1>8 DEF ag2, sd2, e

LEMMA FitsRefused ==
    ASSUME NEW subs, Numbered(subs), NEW ag, NEW sd, NEW hd, NEW st, NEW events \in Errors,
           ServerFits(subs, "starting", ag, sd, hd, st)
    PROVE  /\ sd = <<>> /\ events \in Seq(EventOf(subs)) /\ Len(events) \in Nat /\ Len(sd \o events) = Len(events)
           /\ ServerFits(subs, "refused", ag, sd \o events, Len(events), st)
<1>1. Nobody \notin Agents(subs)
  BY AgentsAreSomebody
<1>2. events \in Seq(EventOf(subs)) /\ Len(events) \in Nat
  <2>1. Event("turn_end", Nobody) \in EventOf(subs) /\ Event("content", Nobody) \in EventOf(subs)
    BY DEF EventOf, Event, Kind, EntryKind
  <2> DEFINE E == EventOf(subs)
             x == Event("turn_end", Nobody)
             y == Event("content", Nobody)
  <2> HIDE DEF E, x, y
  <2>2. events = <<>> \/ events = <<x>> \/ events = <<y, x>>
    BY DEF Errors, x, y
  <2>3. <<>> \in Seq(E) /\ <<x>> \in Seq(E) /\ <<y, x>> \in Seq(E)
    BY <2>1 DEF E, x, y
  <2>4. events \in Seq(E) /\ Len(events) \in Nat
    BY <2>2, <2>3
  <2> QED BY <2>4 DEF E
<1>3. \A i \in 1..Len(events) : events[i].agent = Nobody /\ events[i].type \in {"content", "turn_end"}
  BY DEF Errors, Event
<1>4. Ordered(events)
  BY <1>3 DEF Ordered
<1>5. \A t, a : a \in Agents(subs) => ~Occurs(events, t, a)
  BY <1>1, <1>3 DEF Occurs
<1>6. sd = <<>> /\ sd \o events = events
  BY <1>2 DEF ServerFits, Fresh
<1>7. Len(events) \in 0..Len(events)
  BY <1>2
<1>8. ag \in [Agents(subs) -> {"idle", "running", "ended", "stopped"}] /\ \A a \in Agents(subs) : ag[a] = "idle"
  BY DEF ServerFits, Fresh
<1>9. ServerFits(subs, "refused", ag, events, Len(events), st)
  BY <1>2, <1>4, <1>5, <1>7, <1>8 DEF ServerFits, Fresh, Closed
<1> QED BY <1>2, <1>6, <1>9

LEMMA FitsSays ==
    ASSUME NEW subs, Numbered(subs), NEW ph \in Subscribed, NEW ag, NEW sd, NEW hd, NEW st,
           ServerFits(subs, ph, ag, sd, hd, st), NEW a \in Agents(subs), ag[a] = "running"
    PROVE  ServerFits(subs, ph, ag, sd \o <<Event("content", a)>>, hd, st)
<1> DEFINE e   == Event("content", a)
           sd2 == sd \o <<e>>
<1>1. e \in EventOf(subs) /\ e.type = "content" /\ e.agent = a
  BY EventIs DEF Kind, EntryKind
<1>2. sd \in Seq(EventOf(subs)) /\ Ordered(sd) /\ hd \in 0..Len(sd)
  BY DEF ServerFits
<1>3. MayFollow(sd, e)
  BY <1>1 DEF MayFollow, ServerFits
<1> HIDE DEF e
<1>4. Follows(subs, sd, e, sd2)
  BY <1>1, <1>2, <1>3, Says1
<1>5. hd \in 0..Len(sd2) /\ ph \notin Fresh \cup Closed
  BY <1>2, <1>4 DEF Subscribed, Fresh, Closed, Follows
<1> HIDE DEF sd2
<1>6. ServerFits(subs, ph, ag, sd2, hd, st)
  BY <1>1, <1>4, <1>5 DEF ServerFits, Fresh, Closed, Follows
<1> QED BY <1>6 DEF sd2, e

LEMMA Says2 ==
    ASSUME NEW S, NEW sd \in Seq(S), NEW d \in S, NEW e \in S
    PROVE  sd \o <<d, e>> = (sd \o <<d>>) \o <<e>>
<1>1. <<d>> \in Seq(S) /\ <<e>> \in Seq(S)
  OBVIOUS
<1>3. <<d>> \o <<e>> = <<d, e>>
  <2>1. /\ <<d>> \o <<e>> \in Seq(S) /\ <<d, e>> \in Seq(S)
        /\ Len(<<d>> \o <<e>>) = 2 /\ Len(<<d, e>>) = 2
    OBVIOUS
  <2>2. (<<d>> \o <<e>>)[1] = d /\ (<<d>> \o <<e>>)[2] = e
    OBVIOUS
  <2> DEFINE x == <<d>> \o <<e>>
             y == <<d, e>>
  <2>3. y[1] = d /\ y[2] = e
    OBVIOUS
  <2>4. x[1] = d /\ x[2] = e
    BY <2>2
  <2> HIDE DEF x, y
  <2>5. x \in Seq(S) /\ y \in Seq(S) /\ Len(x) = 2 /\ Len(y) = 2
    BY <2>1 DEF x, y
  <2>6. x = y
    BY <2>3, <2>4, <2>5
  <2> QED BY <2>6 DEF x, y
<1>2. (sd \o <<d>>) \o <<e>> = sd \o (<<d>> \o <<e>>)
  <2> DEFINE x == <<d>>
             y == <<e>>
  <2> HIDE DEF x, y
  <2>1. (sd \o x) \o y = sd \o (x \o y)
    BY <1>1, ConcatAssociative DEF x, y
  <2> QED BY <2>1 DEF x, y
<1> QED BY <1>2, <1>3

SaidAfter(sd, t, d, e) == sd \o (t \o <<d, e>>) = ((sd \o t) \o <<d>>) \o <<e>>
LEMMA SaysAgain ==
    ASSUME NEW S, NEW sd \in Seq(S), NEW t \in Seq(S), NEW d \in S, NEW e \in S PROVE SaidAfter(sd, t, d, e)
<1>1. sd \o t \in Seq(S) /\ <<d, e>> \in Seq(S)
  OBVIOUS
<1> DEFINE x == <<d, e>>
           q == sd \o t
<1>2. q \in Seq(S) /\ x \in Seq(S)
  BY <1>1
<1> HIDE DEF q
<1>3. q \o <<d, e>> = (q \o <<d>>) \o <<e>>
  BY <1>2, Says2, SMTT(30)
<1> HIDE DEF x
<1>4. (sd \o t) \o x = sd \o (t \o x)
  BY <1>2, ConcatAssociative
<1> QED BY <1>3, <1>4 DEF q, x, SaidAfter

\* The rounds of calls that start the sub-agents up to n.
Calls(n) == [i \in 1..n |-> <<Event("tool_call", Root), Event("started", i)>>]
Opened(subs, sd, n, q) ==
    /\ q \in Seq(EventOf(subs)) /\ Ordered(q) /\ Len(sd) <= Len(q) /\ Len(q) \in Nat
    /\ \A a \in Agents(subs) :
          /\ Occurs(q, "started", a) <=> Occurs(sd, "started", a) \/ a \in 1..n
          /\ Occurs(q, "completed", a) <=> Occurs(sd, "completed", a)

LEMMA CallsOpen ==
    ASSUME NEW N \in Nat, NEW subs, subs = 1..N, NEW sd \in Seq(EventOf(subs)), Ordered(sd),
           Occurs(sd, "started", Root), \A k \in subs : ~Occurs(sd, "started", k)
    PROVE  /\ FlattenSeq(Calls(N)) \in Seq(EventOf(subs))
           /\ Opened(subs, sd, N, sd \o FlattenSeq(Calls(N)))
<1> DEFINE E == EventOf(subs)
           Good(n) == /\ Calls(n) \in Seq(Seq(E)) /\ FlattenSeq(Calls(n)) \in Seq(E)
                      /\ Opened(subs, sd, n, sd \o FlattenSeq(Calls(n)))
           P == {n \in Nat : n <= N => Good(n)}
<1>0. Numbered(subs) /\ Root \in Agents(subs)
  BY AgentsAreSomebody DEF Numbered
<1>1. 0 \in P
  <2>1. Calls(0) = <<>> /\ <<>> \in Seq(Seq(E)) /\ <<>> \in Seq(E) /\ sd \o <<>> = sd
    BY DEF Calls
  <2>2. Opened(subs, sd, 0, sd)
    BY DEF Opened
  <2> QED BY <2>1, <2>2, FlattenEmpty
<1>2. ASSUME NEW n \in P \cap Nat PROVE n + 1 \in P
  <2> SUFFICES ASSUME n + 1 <= N PROVE Good(n + 1)
    OBVIOUS
  <2> DEFINE d == Event("tool_call", Root)
             e == Event("started", n + 1)
             T == FlattenSeq(Calls(n))
             q == sd \o T
             r == q \o <<d>>
  <2>1. n <= N /\ Good(n) /\ n + 1 \in subs /\ n + 1 \in Agents(subs)
    <3>1. n <= N /\ n + 1 \in subs
      OBVIOUS
    <3> QED BY <1>2, <3>1 DEF Agents
  <2>2. d \in E /\ e \in E /\ d.type = "tool_call" /\ d.agent = Root /\ e.type = "started" /\ e.agent = n + 1
    BY <1>0, <2>1, EventIs DEF Kind, EntryKind
  <2>3. Calls(n + 1) = Append(Calls(n), <<d, e>>)
    BY DEF Calls
  <2> HIDE DEF d, e
  <2>4. <<d, e>> \in Seq(E) /\ Append(Calls(n), <<d, e>>) \in Seq(Seq(E))
    BY <2>1, <2>2
  <2>5. FlattenSeq(Calls(n + 1)) = T \o <<d, e>> /\ T \o <<d, e>> \in Seq(E)
    <3> DEFINE x == <<d, e>>
               c == Calls(n)
    <3>1. x \in Seq(E) /\ c \in Seq(Seq(E)) /\ T \in Seq(E) /\ Calls(n + 1) = Append(c, x)
      BY <2>1, <2>3, <2>4
    <3> HIDE DEF x, c, E, T
    <3>2. FlattenSeq(Append(c, x)) = FlattenSeq(c) \o x
      BY <3>1, FlattenAppend
    <3>3. T \o x \in Seq(E)
      BY <3>1
    <3>4. FlattenSeq(Calls(n + 1)) = T \o x
      BY <3>1, <3>2 DEF T, c
    <3> QED BY <3>3, <3>4 DEF x
  <2>6. MayFollow(q, d)
    BY <1>0, <2>1, <2>2 DEF MayFollow, Opened
  <2>7. q \in Seq(E) /\ Ordered(q)
    BY <2>1 DEF Opened
  <2>8. Follows(subs, q, d, r)
    BY <2>2, <2>6, <2>7, Says1
  <2>9. MayFollow(r, e)
    <3>1. n + 1 \notin 1..n /\ ~Occurs(sd, "started", n + 1)
      BY <2>1
    <3>2. ~Occurs(q, "started", n + 1)
      BY <2>1, <3>1 DEF Opened
    <3>3. ~Occurs(r, "started", n + 1)
      BY <2>2, <2>8, <3>2 DEF Follows
    <3> HIDE DEF r
    <3> QED BY <2>2, <3>3 DEF MayFollow, EntryKind
  <2>10. r \in Seq(E) /\ Ordered(r)
    BY <2>8 DEF Follows
  <2>11. Follows(subs, r, e, r \o <<e>>)
    BY <2>2, <2>9, <2>10, Says1
  <2>12. sd \o (T \o <<d, e>>) = r \o <<e>>
    <3>1. T \in Seq(E) /\ sd \in Seq(E) /\ d \in E /\ e \in E
      BY <2>1, <2>2
    <3> HIDE DEF T, E, P, Good
    <3>2. SaidAfter(sd, T, d, e)
      BY <3>1, SaysAgain
    <3> QED BY <3>2 DEF SaidAfter
  <2> DEFINE u == r \o <<e>>
  <2> HIDE DEF u, r
  <2>13. Opened(subs, sd, n + 1, u)
    <3>1. Follows(subs, q, d, r) /\ Follows(subs, r, e, u) /\ Opened(subs, sd, n, q)
      BY <2>1, <2>8, <2>11 DEF u
    <3> HIDE DEF q
    <3>2. Len(sd) \in Nat /\ Len(sd) <= Len(q) /\ Len(q) <= Len(r) /\ Len(r) <= Len(u)
          /\ Len(q) \in Nat /\ Len(r) \in Nat /\ Len(u) \in Nat
      BY <3>1 DEF Follows, Opened
    <3>3. Len(sd) <= Len(u)
      <4> DEFINE w == Len(sd)
                 x == Len(q)
                 y == Len(r)
                 z == Len(u)
      <4> HIDE DEF w, x, y, z
      <4>1. w <= z
        BY <3>2 DEF w, x, y, z
      <4> QED BY <4>1 DEF w, z
    <3>4. ASSUME NEW a \in Agents(subs)
          PROVE  /\ Occurs(u, "started", a) <=> Occurs(sd, "started", a) \/ a \in 1..(n + 1)
                 /\ Occurs(u, "completed", a) <=> Occurs(sd, "completed", a)
      <4>1. a \in 1..(n + 1) <=> a \in 1..n \/ a = n + 1
        OBVIOUS
      <4> QED BY <2>2, <3>1, <4>1 DEF Follows, Opened
    <3> QED BY <3>1, <3>2, <3>3, <3>4 DEF Follows, Opened
  <2> QED BY <2>3, <2>4, <2>5, <2>12, <2>13 DEF u
<1>3. Nat \subseteq P
  <2> HIDE DEF P
  <2> QED BY <1>1, <1>2, Induct
<1> QED BY <1>3

LEMMA FitsSpawns ==
    ASSUME NEW N \in Nat, NEW subs, subs = 1..N, NEW ag, NEW sd, NEW hd, NEW st,
           ServerFits(subs, "model", ag, sd, hd, st), \A k \in subs : ag[k] = "idle"
    PROVE  /\ FlattenSeq(Calls(N)) \in Seq(EventOf(subs))
           /\ ServerFits(subs, "tools", [a \in Agents(subs) |-> "running"], sd \o FlattenSeq(Calls(N)), hd, st)
<1> DEFINE T  == FlattenSeq(Calls(N))
           sd2 == sd \o T
           ag2 == [a \in Agents(subs) |-> "running"]
<1>1. Root \in Agents(subs) /\ \A a \in Agents(subs) : a \in subs \/ a = Root
  BY DEF Agents
<1>2. sd \in Seq(EventOf(subs)) /\ Ordered(sd) /\ hd \in 0..Len(sd)
      /\ \A a \in Agents(subs) : ag[a] = "idle" <=> ~Occurs(sd, "started", a)
  BY DEF ServerFits
<1>3. Occurs(sd, "started", Root) /\ \A k \in subs : ~Occurs(sd, "started", k)
  <2>1. ag[Root] = "running" /\ subs \subseteq Agents(subs)
    BY DEF ServerFits, Agents
  <2> QED BY <1>1, <1>2, <2>1
<1>4. T \in Seq(EventOf(subs)) /\ Opened(subs, sd, N, sd2)
  BY <1>2, <1>3, CallsOpen
<1> HIDE DEF T, sd2
<1>5. /\ ag2 \in [Agents(subs) -> {"idle", "running", "ended", "stopped"}]
      /\ \A a \in Agents(subs) : ag2[a] = "running"
  OBVIOUS
<1> HIDE DEF ag2
<1>6. hd \in 0..Len(sd2)
  BY <1>2, <1>4 DEF Opened
<1>7. \A a \in Agents(subs) : Occurs(sd2, "started", a)
  BY <1>1, <1>3, <1>4 DEF Opened
<1>8. ServerFits(subs, "tools", ag2, sd2, hd, st)
  BY <1>1, <1>4, <1>5, <1>6, <1>7 DEF ServerFits, Fresh, Closed, Opened
<1> QED BY <1>4, <1>8 DEF ag2, sd2, T

LEMMA FitsSubEnds ==
    ASSUME NEW subs, Numbered(subs), NEW ph \in Subscribed, NEW ag, NEW sd, NEW hd, NEW st,
           ServerFits(subs, ph, ag, sd, hd, st), NEW k \in subs, ag[k] = "running",
           NEW how, how = "ended" \/ (how = "stopped" /\ st)
    PROVE  ServerFits(subs, ph, [ag EXCEPT ![k] = how], sd \o <<Event("turn_end", k), Event("completed", k)>>, hd, st)
<1> DEFINE d   == Event("turn_end", k)
           e   == Event("completed", k)
           r   == sd \o <<d>>
           sd2 == r \o <<e>>
           ag2 == [ag EXCEPT ![k] = how]
<1>1. Root \in Agents(subs) /\ k # Root /\ k \in Agents(subs)
  BY AgentsAreSomebody
<1>2. d \in EventOf(subs) /\ d.type = "turn_end" /\ d.agent = k /\ e \in EventOf(subs) /\ e.type = "completed" /\ e.agent = k
  BY <1>1, EventIs DEF Kind
<1>3. sd \in Seq(EventOf(subs)) /\ Ordered(sd) /\ hd \in 0..Len(sd) /\ Occurs(sd, "started", k)
  BY <1>1 DEF ServerFits
<1> HIDE DEF d, e
<1>4. Follows(subs, sd, d, r)
  <2>1. MayFollow(sd, d)
    BY <1>2 DEF MayFollow, EntryKind
  <2> QED BY <1>2, <1>3, <2>1, Says1
<1> HIDE DEF r
<1>5. Follows(subs, r, e, sd2)
  <2>1. MayFollow(r, e)
    BY <1>2, <1>3, <1>4 DEF MayFollow, Follows
  <2> QED BY <1>2, <1>4, <2>1, Says1 DEF Follows
<1>6. sd \o <<d, e>> = sd2
  BY <1>2, <1>3, Says2 DEF r
<1>7. /\ ag2 \in [Agents(subs) -> {"idle", "running", "ended", "stopped"}] /\ ag2[k] = how
      /\ \A a \in Agents(subs) : a # k => ag2[a] = ag[a]
  BY <1>1 DEF ServerFits
<1> HIDE DEF sd2, ag2
<1>8. hd \in 0..Len(sd2) /\ sd2 \in Seq(EventOf(subs)) /\ Ordered(sd2)
  <2>1. Len(sd) \in Nat /\ Len(sd) <= Len(r) /\ Len(r) <= Len(sd2) /\ Len(r) \in Nat /\ Len(sd2) \in Nat
    BY <1>3, <1>4, <1>5 DEF Follows
  <2> QED BY <1>3, <1>5, <2>1 DEF Follows
<1>9. /\ \A a : Occurs(sd2, "started", a) <=> Occurs(sd, "started", a)
      /\ \A a : Occurs(sd2, "completed", a) <=> Occurs(sd, "completed", a) \/ a = k
  BY <1>2, <1>4, <1>5 DEF Follows
<1>10. ph \notin Fresh \cup Closed \cup {"refused"}
  BY DEF Subscribed, Fresh, Closed
<1>11. ServerFits(subs, ph, ag2, sd2, hd, st)
  <2>1. ASSUME NEW a \in Agents(subs)
        PROVE  /\ ag2[a] = "idle" <=> ~Occurs(sd2, "started", a)
               /\ ag2[a] = "ended" => Occurs(sd2, "completed", a)
               /\ ag2[a] = "stopped" => st
    BY <1>3, <1>7, <1>9 DEF ServerFits
  <2>2. /\ ph \in {"model", "tools", "closing"} => ag2[Root] = "running"
        /\ ph \in {"yielding", "draining", "over"} => ag2[Root] = "ended"
    BY <1>1, <1>7 DEF ServerFits
  <2>3. ph = "model" \/ (ph \in {"closing", "yielding", "draining", "over"} /\ ~st) =>
            \A j \in subs : ag2[j] \in {"idle", "ended"}
    BY <1>7 DEF ServerFits
  <2> QED BY <1>7, <1>8, <1>10, <2>1, <2>2, <2>3 DEF ServerFits
<1> QED BY <1>6, <1>11 DEF ag2, d, e

LEMMA FitsRootEnds ==
    ASSUME NEW subs, Numbered(subs), NEW ph, NEW ag, NEW sd, NEW hd, NEW st, ServerFits(subs, ph, ag, sd, hd, st),
           ph = "model" \/ (ph = "tools" /\ \E k \in subs : ag[k] = "stopped")
    PROVE  ServerFits(subs, "closing", ag, sd \o <<Event("turn_end", Root)>>, hd, st)
<1> DEFINE e   == Event("turn_end", Root)
           sd2 == sd \o <<e>>
<1>1. e \in EventOf(subs) /\ e.type = "turn_end" /\ subs \subseteq Agents(subs)
  BY AgentsAreSomebody, EventIs DEF Kind
<1>2. sd \in Seq(EventOf(subs)) /\ Ordered(sd) /\ hd \in 0..Len(sd)
  BY DEF ServerFits
<1>3. MayFollow(sd, e)
  BY <1>1 DEF MayFollow, EntryKind
<1> HIDE DEF e
<1>4. Follows(subs, sd, e, sd2)
  BY <1>1, <1>2, <1>3, Says1
<1> HIDE DEF sd2
<1>5. hd \in 0..Len(sd2)
  BY <1>2, <1>4 DEF Follows
<1>6. st \/ \A k \in subs : ag[k] \in {"idle", "ended"}
  <2>1. CASE ph = "model"
    BY <2>1 DEF ServerFits
  <2>2. CASE ph = "tools" /\ \E k \in subs : ag[k] = "stopped"
    BY <1>1, <2>2 DEF ServerFits
  <2> QED BY <2>1, <2>2
<1>7. ag[Root] = "running"
  BY DEF ServerFits
<1>8. ServerFits(subs, "closing", ag, sd2, hd, st)
  BY <1>1, <1>4, <1>5, <1>6, <1>7 DEF ServerFits, Fresh, Closed, Follows
<1> QED BY <1>8 DEF sd2, e

LEMMA FitsSpanEnds ==
    ASSUME NEW subs, Numbered(subs), NEW ag, NEW sd, NEW hd, NEW st, ServerFits(subs, "closing", ag, sd, hd, st)
    PROVE  ServerFits(subs, "yielding", [ag EXCEPT ![Root] = "ended"], sd \o <<Event("completed", Root)>>, hd, st)
<1> DEFINE e   == Event("completed", Root)
           sd2 == sd \o <<e>>
           ag2 == [ag EXCEPT ![Root] = "ended"]
<1>1. Root \in Agents(subs) /\ Root \notin subs /\ subs \subseteq Agents(subs)
  BY AgentsAreSomebody
<1>2. e \in EventOf(subs) /\ e.type = "completed" /\ e.agent = Root
  BY <1>1, EventIs DEF Kind
<1>3. /\ sd \in Seq(EventOf(subs)) /\ Ordered(sd) /\ hd \in 0..Len(sd) /\ Occurs(sd, "started", Root)
      /\ st \/ \A k \in subs : ag[k] \in {"idle", "ended"}
  BY <1>1 DEF ServerFits
<1>4. MayFollow(sd, e)
  BY <1>2, <1>3 DEF MayFollow
<1> HIDE DEF e
<1>5. Follows(subs, sd, e, sd2)
  BY <1>2, <1>3, <1>4, Says1
<1>6. ag2 \in [Agents(subs) -> {"idle", "running", "ended", "stopped"}] /\ ag2[Root] = "ended"
      /\ \A a \in Agents(subs) : a # Root => ag2[a] = ag[a]
  BY <1>1 DEF ServerFits
<1> HIDE DEF sd2, ag2
<1>7. hd \in 0..Len(sd2)
  BY <1>3, <1>5 DEF Follows
<1>8. \A k \in subs : ag2[k] = ag[k]
  BY <1>1, <1>6
<1>9. ASSUME NEW a \in Agents(subs)
      PROVE  /\ ag2[a] = "idle" <=> ~Occurs(sd2, "started", a)
             /\ ag2[a] = "ended" => Occurs(sd2, "completed", a)
             /\ ag2[a] = "stopped" => st
  BY <1>2, <1>3, <1>5, <1>6 DEF ServerFits, Follows
<1>10. ServerFits(subs, "yielding", ag2, sd2, hd, st)
  BY <1>3, <1>5, <1>6, <1>7, <1>8, <1>9 DEF ServerFits, Fresh, Closed, Follows
<1> QED BY <1>10 DEF ag2, sd2, e

\* The steps that publish nothing.
LEMMA FitsOnwards ==
    ASSUME NEW subs, Numbered(subs), NEW ph, NEW ag, NEW sd, NEW hd, NEW st, ServerFits(subs, ph, ag, sd, hd, st)
    PROVE  /\ ph = "tools" /\ (\A k \in subs : ag[k] = "ended") => ServerFits(subs, "model", ag, sd, hd, st)
           /\ ph = "yielding" => ServerFits(subs, "draining", ag, sd, hd, st)
           /\ ph = "draining" /\ hd = Len(sd) => ServerFits(subs, "over", ag, sd, hd, st)
           /\ ph = "unused" => ServerFits(subs, "starting", ag, sd, hd, st)
           /\ ServerFits(subs, ph, ag, sd, Len(sd), st)
           /\ ServerFits(subs, ph, ag, sd, hd, TRUE)
           /\ ServerFits(subs, "gone", [a \in Agents(subs) |-> "idle"], <<>>, 0, st)
<1>0. sd \in Seq(EventOf(subs)) /\ Len(sd) \in 0..Len(sd)
  BY DEF ServerFits
<1>1. ph = "tools" /\ (\A k \in subs : ag[k] = "ended") => ServerFits(subs, "model", ag, sd, hd, st)
  BY DEF ServerFits, Fresh, Closed
<1>2. ph = "yielding" => ServerFits(subs, "draining", ag, sd, hd, st)
  BY DEF ServerFits, Fresh, Closed
<1>3. ph = "draining" /\ hd = Len(sd) => ServerFits(subs, "over", ag, sd, hd, st)
  BY DEF ServerFits, Fresh, Closed
<1>4. ph = "unused" => ServerFits(subs, "starting", ag, sd, hd, st)
  BY DEF ServerFits, Fresh, Closed
<1>5. ServerFits(subs, ph, ag, sd, Len(sd), st)
  BY <1>0 DEF ServerFits
<1>6. ServerFits(subs, ph, ag, sd, hd, TRUE)
  BY DEF ServerFits
<1>7. ServerFits(subs, "gone", [a \in Agents(subs) |-> "idle"], <<>>, 0, st)
  <2>1. <<>> \in Seq(EventOf(subs)) /\ Len(<<>>) = 0 /\ Ordered(<<>>) /\ \A t, a : ~Occurs(<<>>, t, a)
    BY EmptySaid
  <2>2. 0 \in 0..0
    OBVIOUS
  <2> QED BY <2>1, <2>2 DEF ServerFits, Fresh, Closed
<1> QED BY <1>1, <1>2, <1>3, <1>4, <1>5, <1>6, <1>7

-----------------------------------------------------------------------------
(* What a step of the server, of the client, or of both does to the client. *)

LEMMA ClientHears ==
    ASSUME NEW subs, NEW ph, NEW ag, NEW sd, NEW hd, NEW st, ServerFits(subs, ph, ag, sd, hd, st),
           NEW sm, NEW rd, NEW pd, NEW nd, ClientFits(subs, ph, sd, hd, sm, rd, pd, nd),
           ph \notin {"unused", "over", "refused"}, NEW events \in Seq(EventOf(subs)), NEW more \in Nat, hd <= more,
           NEW next
    PROVE  ClientFits(subs, next, sd \o events, more, sm, rd, pd, nd)
<1>1. sd \in Seq(EventOf(subs)) /\ hd \in 0..Len(sd) /\ rd \in 0..hd /\ rd \in 0..Len(sd) /\ rd \in 0..more
  BY DEF ServerFits, ClientFits
<1>2. SubSeq(sd \o events, 1, rd) = SubSeq(sd, 1, rd)
  BY <1>1, PrefixBegins DEF Begins
<1> QED BY <1>1, <1>2 DEF ClientFits, Closed

\* A request is given up, or the conversation it shows is left.
LEMMA ClientLeaves ==
    ASSUME NEW subs, NEW ph, NEW sd, NEW hd, NEW sm, NEW rd, NEW pd, NEW nd,
           ClientFits(subs, ph, sd, hd, sm, rd, pd, nd), NEW how \in {"aborted", "failed"}
    PROVE  /\ ClientFits(subs, "gone", <<>>, 0, how, 0, <<>>, nd)
           /\ ClientFits(subs, ph, sd, hd, sm, rd, pd, [a \in Agents(subs) |-> NoNode])
<1>1. <<>> \in Seq(EntryOf(subs)) /\ 0 \in 0..0 /\ nd \in NodesOf(subs)
  BY DEF ClientFits
<1>2. ClientFits(subs, "gone", <<>>, 0, how, 0, <<>>, nd)
  BY <1>1 DEF ClientFits
<1> DEFINE none == [a \in Agents(subs) |-> NoNode]
<1>3. none \in NodesOf(subs) /\ \A a \in Agents(subs) : none[a].status = "none"
  <2>1. NoNode \in NodeType /\ NoNode.status = "none"
    BY DEF NoNode, NodeType
  <2> QED BY <2>1 DEF NodesOf
<1> HIDE DEF none
<1>4. ClientFits(subs, ph, sd, hd, sm, rd, pd, none)
  BY <1>3 DEF ClientFits, View
<1> QED BY <1>2, <1>4 DEF none

LEMMA ClientSends ==
    ASSUME NEW subs, NEW ag, NEW sd, NEW hd, NEW st, NEW ph, ServerFits(subs, ph, ag, sd, hd, st),
           NEW rd, NEW pd, NEW nd, ClientFits(subs, ph, sd, hd, "unused", rd, pd, nd)
    PROVE  ClientFits(subs, "starting", sd, hd, "open", rd, pd, nd)
<1>1. ph = "unused" /\ sd = <<>> /\ pd = <<>> /\ hd = 0
  <2>1. ph = "unused" /\ pd = <<>>
    BY DEF ClientFits
  <2>2. sd = <<>> /\ hd \in 0..Len(sd)
    BY <2>1 DEF ServerFits, Fresh
  <2> QED BY <2>1, <2>2
<1>2. View(subs, SubSeq(sd, 1, rd), pd, nd)
  BY <1>1 DEF View, ClientFits
<1> QED BY <1>2 DEF ClientFits

LEMMA ClientFlushes ==
    ASSUME NEW subs, NEW ph, NEW sd, NEW hd, NEW rd, NEW pd, NEW nd, ClientFits(subs, ph, sd, hd, "open", rd, pd, nd)
    PROVE  /\ ClientFits(subs, ph, sd, hd, "open", rd, <<>>, Laid(nd, pd))
           /\ ph \in Closed /\ rd = hd => ClientFits(subs, ph, sd, hd, "ended", rd, <<>>, Laid(nd, pd))
<1>1. Laid(nd, pd) \in NodesOf(subs) /\ View(subs, SubSeq(sd, 1, rd), <<>>, Laid(nd, pd))
  BY ViewFlushed DEF ClientFits
<1>2. <<>> \in Seq(EntryOf(subs)) /\ rd \in 0..hd
  BY DEF ClientFits
<1> QED BY <1>1, <1>2 DEF ClientFits

\* A line of the stream is read.
LEMMA ClientReads ==
    ASSUME NEW subs, Numbered(subs), NEW ph, NEW ag, NEW sd, NEW hd, NEW st, ServerFits(subs, ph, ag, sd, hd, st),
           NEW rd, NEW pd, NEW nd, ClientFits(subs, ph, sd, hd, "open", rd, pd, nd), rd < hd
    PROVE  LET e == sd[rd + 1]
           IN  /\ e \in EventOf(subs)
               /\ e.type = "started" =>
                     ClientFits(subs, ph, sd, hd, "open", rd + 1, pd,
                                [nd EXCEPT ![e.agent] = [status |-> "running", log |-> <<>>]])
               /\ e.type = "completed" =>
                     ClientFits(subs, ph, sd, hd, "open", rd + 1, pd,
                                IF nd[e.agent].status = "none" THEN nd
                                ELSE [nd EXCEPT ![e.agent].status = "completed"])
               /\ e.type \in EntryKind =>
                     ClientFits(subs, ph, sd, hd, "open", rd + 1,
                                IF e.agent = Nobody THEN pd ELSE Append(pd, e), nd)
               /\ e.type = "turn_end" => ClientFits(subs, ph, sd, hd, "open", rd + 1, <<>>, Laid(nd, pd))
<1> DEFINE e == sd[rd + 1]
           q == SubSeq(sd, 1, rd)
           r == SubSeq(sd, 1, rd + 1)
<1>1. /\ sd \in Seq(EventOf(subs)) /\ Ordered(sd) /\ hd \in 0..Len(sd) /\ rd \in 0..hd /\ rd \in 0..Len(sd)
      /\ rd < Len(sd) /\ rd + 1 \in 0..hd /\ rd + 1 \in 0..Len(sd)
      /\ pd \in Seq(EntryOf(subs)) /\ nd \in NodesOf(subs) /\ View(subs, q, pd, nd) /\ Nobody \notin Agents(subs)
  BY AgentsAreSomebody DEF ServerFits, ClientFits
<1>2. q \in Seq(EventOf(subs)) /\ e \in EventOf(subs) /\ r = Append(q, e) /\ Ordered(r)
  <2>1. Begins(EventOf(subs), sd, rd, q) /\ Begins(EventOf(subs), sd, rd + 1, r)
    BY <1>1, PrefixBegins
  <2> QED BY <1>1, <2>1 DEF Begins
<1> HIDE DEF e, q
<1>3. ASSUME NEW p \in Seq(EntryOf(subs)), NEW n \in NodesOf(subs), View(subs, Append(q, e), p, n)
      PROVE  ClientFits(subs, ph, sd, hd, "open", rd + 1, p, n)
  BY <1>1, <1>2, <1>3 DEF ClientFits
<1> HIDE DEF r
<1>4. ASSUME e.type = "started"
      PROVE  ClientFits(subs, ph, sd, hd, "open", rd + 1, pd,
                        [nd EXCEPT ![e.agent] = [status |-> "running", log |-> <<>>]])
  BY <1>1, <1>2, <1>3, <1>4, ViewStarted
<1>5. ASSUME e.type = "completed"
      PROVE  ClientFits(subs, ph, sd, hd, "open", rd + 1, pd,
                        IF nd[e.agent].status = "none" THEN nd ELSE [nd EXCEPT ![e.agent].status = "completed"])
  BY <1>1, <1>2, <1>3, <1>5, ViewCompleted
<1>6. ASSUME e.type \in EntryKind
      PROVE  ClientFits(subs, ph, sd, hd, "open", rd + 1, IF e.agent = Nobody THEN pd ELSE Append(pd, e), nd)
  <2>1. CASE e.agent = Nobody
    <3>1. e.type = "content"
      BY <1>2, <1>6, <2>1 DEF EventOf, EntryKind
    <3> QED BY <1>1, <1>2, <1>3, <2>1, <3>1, ViewOther
  <2>2. CASE e.agent # Nobody
    BY <1>1, <1>2, <1>3, <1>6, <2>2, ViewEntry
  <2> QED BY <2>1, <2>2
<1>7. ASSUME e.type = "turn_end" PROVE ClientFits(subs, ph, sd, hd, "open", rd + 1, <<>>, Laid(nd, pd))
  <2>1. View(subs, Append(q, e), pd, nd)
    <3>1. q \in Seq(EventOf(subs)) /\ View(subs, q, pd, nd) /\ e \in EventOf(subs) /\ Nobody \notin Agents(subs)
      BY <1>1, <1>2
    <3>2. e.type = "turn_end" \/ (e.type = "content" /\ e.agent = Nobody)
      BY <1>7
    <3> QED BY <3>1, <3>2, ViewOther, Zenon
  <2>2. Laid(nd, pd) \in NodesOf(subs) /\ View(subs, Append(q, e), <<>>, Laid(nd, pd))
    BY <1>1, <2>1, ViewFlushed
  <2>3. <<>> \in Seq(EntryOf(subs))
    OBVIOUS
  <2> QED BY <1>3, <2>2, <2>3
<1> QED BY <1>2, <1>4, <1>5, <1>6, <1>7 DEF e

-----------------------------------------------------------------------------
(* The steps of the program.                                               *)

\* What is known of turn r, and that a step is one of turn s only.
OfTurn(r) == <<phase[r], agent[r], said[r], heard[r], stop[r], stream[r], read[r], pending[r], node[r]>>
Only(s)   == UNCHANGED plan /\ Mapped' /\ \A r \in Turn : r # s => UNCHANGED OfTurn(r)

LEMMA ShownIn ==
    ASSUME ShownInv, NEW s \in Turn, Only(s), TurnFits(s)' PROVE ShownInv'
<1>1. Turn' = Turn /\ plan' \in Plans /\ plan' = plan
  BY DEF Only, ShownInv, Turn
<1>2. ASSUME NEW r \in Turn, r # s PROVE TurnFits(r)'
  <2>1. TurnFits(r) /\ UNCHANGED OfTurn(r)
    BY <1>2 DEF ShownInv, Only
  <2> QED BY <1>1, <2>1 DEF TurnFits, OfTurn
<1> QED BY <1>1, <1>2 DEF ShownInv, Only

\* A step of the server publishes events and hands some on.
Moves(s, events) ==
    /\ Only(s) /\ UNCHANGED <<stream, read, pending, node>> /\ phase[s] \notin {"unused", "over", "refused"}
    /\ said'[s] = said[s] \o events /\ heard'[s] \in Nat /\ heard[s] <= heard'[s]
Waits(s) ==
    /\ Only(s) /\ UNCHANGED <<stream, read, pending, node>> /\ phase[s] \notin {"unused", "over", "refused"}
    /\ said'[s] = said[s] /\ heard'[s] = heard[s]

LEMMA ServerMoves ==
    ASSUME ShownInv, NEW s \in Turn, NEW events \in Seq(EventOf(plan[s])), Moves(s, events),
           ServerFits(plan[s], phase'[s], agent'[s], said'[s], heard'[s], stop'[s])
    PROVE  ShownInv'
<1> DEFINE more == heard'[s]
           next == phase'[s]
<1>1. /\ ServerFits(plan[s], phase[s], agent[s], said[s], heard[s], stop[s])
      /\ ClientFits(plan[s], phase[s], said[s], heard[s], stream[s], read[s], pending[s], node[s])
  BY DEF ShownInv, TurnFits
<1>2. more \in Nat /\ heard[s] <= more /\ Only(s) /\ phase[s] \notin {"unused", "over", "refused"}
      /\ said'[s] = said[s] \o events
  BY DEF Moves
<1> HIDE DEF more, next
<1>3. ClientFits(plan[s], next, said[s] \o events, more, stream[s], read[s], pending[s], node[s])
  BY <1>1, <1>2, ClientHears
<1>4. plan' = plan /\ stream' = stream /\ read' = read /\ pending' = pending /\ node' = node
  BY DEF Only, Moves
<1>5. TurnFits(s)'
  BY <1>2, <1>3, <1>4 DEF TurnFits, more, next
<1> QED BY <1>2, <1>5, ShownIn

LEMMA ServerWaits ==
    ASSUME ShownInv, NEW s \in Turn, Waits(s),
           ServerFits(plan[s], phase'[s], agent'[s], said[s], heard[s], stop'[s])
    PROVE  ShownInv'
<1>1. said[s] \in Seq(EventOf(plan[s])) /\ heard[s] \in Nat
  BY DEF ShownInv, TurnFits, ServerFits
<1>2. <<>> \in Seq(EventOf(plan[s])) /\ said[s] \o <<>> = said[s] /\ heard[s] <= heard[s]
  BY <1>1
<1>3. Moves(s, <<>>) /\ ServerFits(plan[s], phase'[s], agent'[s], said'[s], heard'[s], stop'[s])
  BY <1>1, <1>2 DEF Waits, Moves
<1> QED BY <1>2, <1>3, ServerMoves

LEMMA ShownServer ==
    ASSUME ShownInv, UNCHANGED plan, NEW s \in Turn, Server(s) PROVE ShownInv'
<1> DEFINE subs == plan[s]
<1>0. /\ Numbered(subs) /\ subs = 1..Cardinality(subs) /\ Cardinality(subs) \in Nat
      /\ Member(s) = Agents(subs) /\ Root \in Agents(subs) /\ subs \subseteq Agents(subs)
  BY PlansAreNumbered, AgentsAreSomebody DEF ShownInv
<1>f. ServerFits(subs, phase[s], agent[s], said[s], heard[s], stop[s]) /\ heard[s] \in Nat /\ Len(said[s]) \in Nat
      /\ Mapped /\ Turn' = Turn
  BY DEF ShownInv, TurnFits, ServerFits, Turn
<1>e. ASSUME NEW S, NEW x \in S, NEW y \in S PROVE <<x>> \in Seq(S) /\ <<x, y>> \in Seq(S)
  OBVIOUS
<1> USE DEF Publish, Becomes, clientVars, viewVars, Only, OfTurn, Mapped, Moves, Waits
<1>1. CASE Begin(s)
  <2> DEFINE events == <<Event("started", Root)>>
  <2>1. phase[s] = "starting" /\ phase'[s] = "model" /\ agent'[s] = [agent[s] EXCEPT ![Root] = "running"]
        /\ said'[s] = said[s] \o events /\ heard'[s] = heard[s] /\ stop'[s] = stop[s]
    BY <1>1, <1>f DEF Begin
  <2>2. Moves(s, events)
    BY <1>1, <1>f, <2>1 DEF Begin
  <2>3. events \in Seq(EventOf(subs))
    BY <1>0, <1>e, EventIs DEF Kind, EntryKind
  <2>4. ServerFits(subs, phase'[s], agent'[s], said'[s], heard'[s], stop'[s])
    BY <1>0, <1>f, <2>1, FitsBegin
  <2> HIDE DEF events, Moves
  <2> QED BY <2>2, <2>3, <2>4, ServerMoves
<1>2. CASE Refused(s)
  <2>1. PICK events \in Errors : said' = [said EXCEPT ![s] = @ \o events] /\ heard' = [heard EXCEPT ![s] = Len(events)]
    BY <1>2 DEF Refused
  <2>2. phase[s] = "starting" /\ phase'[s] = "refused" /\ agent'[s] = agent[s]
        /\ said'[s] = said[s] \o events /\ heard'[s] = Len(events) /\ stop'[s] = stop[s]
    BY <1>2, <1>f, <2>1 DEF Refused
  <2>3. /\ said[s] = <<>> /\ events \in Seq(EventOf(subs)) /\ Len(events) \in Nat
        /\ ServerFits(subs, phase'[s], agent'[s], said'[s], heard'[s], stop'[s])
    <3>1. ServerFits(subs, "starting", agent[s], said[s], heard[s], stop[s])
      BY <1>f, <2>2
    <3>2. /\ said[s] = <<>> /\ events \in Seq(EventOf(subs)) /\ Len(events) \in Nat
          /\ ServerFits(subs, "refused", agent[s], said[s] \o events, Len(events), stop[s])
      BY <1>0, <3>1, FitsRefused
    <3> HIDE DEF subs
    <3> QED BY <2>2, <3>2
  <2>4. heard[s] = 0
    BY <1>f, <2>3 DEF ServerFits
  <2>5. Moves(s, events)
    BY <1>2, <1>f, <2>1, <2>2, <2>3, <2>4 DEF Refused
  <2> HIDE DEF Moves
  <2> QED BY <2>3, <2>5, ServerMoves
<1>3. CASE Spawns(s)
  <2> DEFINE n      == Cardinality(subs)
             events == FlattenSeq(Calls(n))
  <2>1. phase[s] = "model" /\ phase'[s] = "tools" /\ agent'[s] = [a \in Agents(subs) |-> "running"]
        /\ said'[s] = said[s] \o events /\ heard'[s] = heard[s] /\ stop'[s] = stop[s]
        /\ \A k \in subs : agent[s][k] = "idle"
    BY <1>3, <1>0, <1>f DEF Spawns, Calls
  <2>2. Moves(s, events)
    BY <1>3, <1>f, <2>1 DEF Spawns, Calls
  <2> HIDE DEF n
  <2>3. n \in Nat /\ subs = 1..n
    BY <1>0 DEF n
  <2> HIDE DEF subs
  <2>4. events \in Seq(EventOf(subs)) /\ ServerFits(subs, phase'[s], agent'[s], said'[s], heard'[s], stop'[s])
    <3>1. ServerFits(subs, "model", agent[s], said[s], heard[s], stop[s])
      BY <1>f, <2>1 DEF subs
    <3>2. /\ events \in Seq(EventOf(subs))
          /\ ServerFits(subs, "tools", [a \in Agents(subs) |-> "running"], said[s] \o events, heard[s], stop[s])
      BY <2>1, <2>3, <3>1, FitsSpawns
    <3> HIDE DEF events
    <3> QED BY <2>1, <3>2
  <2>5. events \in Seq(EventOf(plan[s])) /\ ServerFits(plan[s], phase'[s], agent'[s], said'[s], heard'[s], stop'[s])
    BY <2>4 DEF subs
  <2> HIDE DEF events, Moves
  <2> QED BY <2>2, <2>5, ServerMoves
<1>4. CASE Gathered(s)
  <2>1. phase[s] = "tools" /\ phase'[s] = "model" /\ agent'[s] = agent[s] /\ stop'[s] = stop[s] /\ Waits(s)
        /\ \A k \in subs : agent[s][k] = "ended"
    BY <1>4, <1>f DEF Gathered
  <2>2. ServerFits(subs, phase'[s], agent'[s], said[s], heard[s], stop'[s])
    <3>1. ServerFits(subs, "tools", agent[s], said[s], heard[s], stop[s])
      BY <1>f, <2>1
    <3> HIDE DEF Waits, subs
    <3>2. ServerFits(subs, "model", agent[s], said[s], heard[s], stop[s])
      BY <1>0, <2>1, <3>1, FitsOnwards
    <3> QED BY <2>1, <3>2
  <2> HIDE DEF Waits
  <2> QED BY <2>1, <2>2, ServerWaits
<1>5. CASE RootEnds(s)
  <2> DEFINE events == <<Event("turn_end", Root)>>
  <2>1. /\ phase[s] = "model" \/ (phase[s] = "tools" /\ \E k \in subs : agent[s][k] = "stopped")
        /\ phase'[s] = "closing" /\ agent'[s] = agent[s]
        /\ said'[s] = said[s] \o events /\ heard'[s] = heard[s] /\ stop'[s] = stop[s]
    BY <1>5, <1>f DEF RootEnds
  <2>2. Moves(s, events)
    BY <1>5, <1>f, <2>1 DEF RootEnds
  <2>3. events \in Seq(EventOf(subs))
    BY <1>0, <1>e, EventIs DEF Kind, EntryKind
  <2>4. ServerFits(subs, phase'[s], agent'[s], said'[s], heard'[s], stop'[s])
    BY <1>0, <1>f, <2>1, FitsRootEnds
  <2> HIDE DEF events, Moves
  <2> QED BY <2>2, <2>3, <2>4, ServerMoves
<1>6. CASE SpanEnds(s)
  <2> DEFINE events == <<Event("completed", Root)>>
  <2>1. phase[s] = "closing" /\ phase'[s] = "yielding" /\ agent'[s] = [agent[s] EXCEPT ![Root] = "ended"]
        /\ said'[s] = said[s] \o events /\ heard'[s] = heard[s] /\ stop'[s] = stop[s]
    BY <1>6, <1>f DEF SpanEnds
  <2>2. Moves(s, events)
    BY <1>6, <1>f, <2>1 DEF SpanEnds
  <2>3. events \in Seq(EventOf(subs))
    BY <1>0, <1>e, EventIs DEF Kind, EntryKind
  <2>4. ServerFits(subs, phase'[s], agent'[s], said'[s], heard'[s], stop'[s])
    BY <1>0, <1>f, <2>1, FitsSpanEnds
  <2> HIDE DEF events, Moves
  <2> QED BY <2>2, <2>3, <2>4, ServerMoves
<1>7. CASE GetEvents(s)
  <2>1. phase[s] = "yielding" /\ phase'[s] = "draining" /\ agent'[s] = agent[s] /\ stop'[s] = stop[s] /\ Waits(s)
    BY <1>7, <1>f DEF GetEvents
  <2>2. ServerFits(subs, phase'[s], agent'[s], said[s], heard[s], stop'[s])
    <3>1. ServerFits(subs, "yielding", agent[s], said[s], heard[s], stop[s])
      BY <1>f, <2>1
    <3> HIDE DEF Waits, subs
    <3>2. ServerFits(subs, "draining", agent[s], said[s], heard[s], stop[s])
      BY <1>0, <2>1, <3>1, FitsOnwards
    <3> QED BY <2>1, <3>2
  <2> HIDE DEF Waits
  <2> QED BY <2>1, <2>2, ServerWaits
<1>8. CASE Drained(s)
  <2>1. phase[s] = "draining" /\ phase'[s] = "over" /\ agent'[s] = agent[s] /\ stop'[s] = stop[s] /\ Waits(s)
        /\ heard[s] = Len(said[s])
    BY <1>8, <1>f DEF Drained
  <2>2. ServerFits(subs, phase'[s], agent'[s], said[s], heard[s], stop'[s])
    <3>1. ServerFits(subs, "draining", agent[s], said[s], heard[s], stop[s])
      BY <1>f, <2>1
    <3> HIDE DEF Waits, subs
    <3>2. ServerFits(subs, "over", agent[s], said[s], heard[s], stop[s])
      BY <1>0, <2>1, <3>1, FitsOnwards
    <3> QED BY <2>1, <3>2
  <2> HIDE DEF Waits
  <2> QED BY <2>1, <2>2, ServerWaits
<1>9. CASE \E k \in plan[s] : SubEnds(s, k)
  <2>0. PICK k \in subs : SubEnds(s, k)
    BY <1>9
  <2> DEFINE events == <<Event("turn_end", k), Event("completed", k)>>
  <2>1. PICK how : /\ how = "ended" \/ (how = "stopped" /\ stop[s])
                   /\ agent' = [agent EXCEPT ![s][k] = how]
    BY <2>0 DEF SubEnds
  <2>2. phase[s] \in Subscribed /\ phase'[s] = phase[s] /\ agent[s][k] = "running"
        /\ agent'[s] = [agent[s] EXCEPT ![k] = how]
        /\ said'[s] = said[s] \o events /\ heard'[s] = heard[s] /\ stop'[s] = stop[s]
    BY <1>f, <2>0, <2>1 DEF SubEnds
  <2>3. Moves(s, events)
    BY <1>f, <2>0, <2>1, <2>2 DEF SubEnds, Subscribed
  <2>4. events \in Seq(EventOf(subs))
    BY <1>0, <1>e, EventIs DEF Kind, EntryKind
  <2>5. ServerFits(subs, phase'[s], agent'[s], said'[s], heard'[s], stop'[s])
    <3>1. ServerFits(subs, phase[s], [agent[s] EXCEPT ![k] = how], said[s] \o events, heard[s], stop[s])
      BY <1>0, <1>f, <2>1, <2>2, FitsSubEnds
    <3> HIDE DEF subs, events
    <3> QED BY <2>2, <3>1
  <2> HIDE DEF events, Moves
  <2> QED BY <2>3, <2>4, <2>5, ServerMoves
<1>10. CASE \E a \in Member(s) : Says(s, a)
  <2>0. PICK a \in Agents(subs) : Says(s, a)
    BY <1>0, <1>10
  <2> DEFINE events == <<Event("content", a)>>
  <2>1. phase[s] \in Subscribed /\ phase'[s] = phase[s] /\ agent[s][a] = "running" /\ agent'[s] = agent[s]
        /\ said'[s] = said[s] \o events /\ heard'[s] = heard[s] /\ stop'[s] = stop[s]
    BY <1>f, <2>0 DEF Says
  <2>2. Moves(s, events)
    BY <1>f, <2>0, <2>1 DEF Says, Subscribed
  <2>3. events \in Seq(EventOf(subs))
    BY <1>0, <1>e, EventIs DEF Kind, EntryKind
  <2>4. ServerFits(subs, phase'[s], agent'[s], said'[s], heard'[s], stop'[s])
    <3>1. ServerFits(subs, phase[s], agent[s], said[s] \o events, heard[s], stop[s])
      BY <1>0, <1>f, <2>1, FitsSays
    <3> HIDE DEF subs, events
    <3> QED BY <2>1, <3>1
  <2> HIDE DEF events, Moves
  <2> QED BY <2>2, <2>3, <2>4, ServerMoves
<1> QED BY <1>1, <1>2, <1>3, <1>4, <1>5, <1>6, <1>7, <1>8, <1>9, <1>10 DEF Server

\* The client reads, shows a frame, or comes to the end of a stream.
Shows(s) == Only(s) /\ UNCHANGED <<phase, agent, said, heard, stop>>

LEMMA ClientShows ==
    ASSUME ShownInv, NEW s \in Turn, Shows(s),
           ClientFits(plan[s], phase[s], said[s], heard[s], stream'[s], read'[s], pending'[s], node'[s])
    PROVE  ShownInv'
<1>1. TurnFits(s)'
  <2>1. ServerFits(plan[s], phase[s], agent[s], said[s], heard[s], stop[s])
    BY DEF ShownInv, TurnFits
  <2>2. plan' = plan /\ phase' = phase /\ agent' = agent /\ said' = said /\ heard' = heard /\ stop' = stop
    BY DEF Shows, Only
  <2> QED BY <2>1, <2>2 DEF TurnFits
<1> QED BY <1>1, ShownIn DEF Shows

LEMMA ShownReads ==
    ASSUME ShownInv, UNCHANGED plan, NEW s \in Turn, Reads(s) \/ Frame(s) PROVE ShownInv'
<1> DEFINE subs == plan[s]
           e    == said[s][read[s] + 1]
           n    == node[s]
           p    == pending[s]
<1>0. Numbered(subs) /\ Mapped /\ Turn' = Turn
  BY PlansAreNumbered DEF ShownInv, Turn
<1>f. ServerFits(subs, phase[s], agent[s], said[s], heard[s], stop[s])
      /\ ClientFits(subs, phase[s], said[s], heard[s], stream[s], read[s], p, n)
  BY DEF ShownInv, TurnFits
<1> USE DEF Takes, Line, serverVars, viewVars, Only, OfTurn, Mapped, Shows
<1>r. ASSUME stream[s] = "open", read[s] < heard[s]
      PROVE  /\ e \in EventOf(subs)
             /\ e.type = "started" =>
                   ClientFits(subs, phase[s], said[s], heard[s], "open", read[s] + 1, p,
                              [n EXCEPT ![e.agent] = [status |-> "running", log |-> <<>>]])
             /\ e.type = "completed" =>
                   ClientFits(subs, phase[s], said[s], heard[s], "open", read[s] + 1, p,
                              IF n[e.agent].status = "none" THEN n
                              ELSE [n EXCEPT ![e.agent].status = "completed"])
             /\ e.type \in EntryKind =>
                   ClientFits(subs, phase[s], said[s], heard[s], "open", read[s] + 1,
                              IF e.agent = Nobody THEN p ELSE Append(p, e), n)
             /\ e.type = "turn_end" =>
                   ClientFits(subs, phase[s], said[s], heard[s], "open", read[s] + 1, <<>>, Laid(n, p))
  <2>1. ClientFits(subs, phase[s], said[s], heard[s], "open", read[s], p, n)
    BY <1>f, <1>r
  <2> HIDE DEF subs, n, p
  <2> QED BY <1>0, <1>f, <1>r, <2>1, ClientReads
<1>1. CASE AgentStarted(s)
  <2>1. /\ stream[s] = "open" /\ read[s] < heard[s] /\ stream'[s] = "open" /\ read'[s] = read[s] + 1
        /\ pending'[s] = p /\ e.type = "started"
        /\ node'[s] = [n EXCEPT ![e.agent] = [status |-> "running", log |-> <<>>]]
    BY <1>0, <1>1 DEF AgentStarted
  <2>2. Shows(s)
    BY <1>0, <1>1 DEF AgentStarted
  <2> HIDE DEF Shows, e
  <2> QED BY <1>r, <2>1, <2>2, ClientShows
<1>2. CASE AgentCompleted(s)
  <2>1. /\ stream[s] = "open" /\ read[s] < heard[s] /\ stream'[s] = "open" /\ read'[s] = read[s] + 1
        /\ pending'[s] = p /\ e.type = "completed"
        /\ node'[s] = IF n[e.agent].status = "none" THEN n ELSE [n EXCEPT ![e.agent].status = "completed"]
    BY <1>0, <1>2 DEF AgentCompleted
  <2>2. Shows(s)
    BY <1>0, <1>2 DEF AgentCompleted
  <2> HIDE DEF Shows, e
  <2> QED BY <1>r, <2>1, <2>2, ClientShows
<1>3. CASE Entry(s)
  <2>1. /\ stream[s] = "open" /\ read[s] < heard[s] /\ stream'[s] = "open" /\ read'[s] = read[s] + 1
        /\ pending'[s] = (IF e.agent = Nobody THEN p ELSE Append(p, e)) /\ e.type \in EntryKind
        /\ node'[s] = n
    BY <1>0, <1>3 DEF Entry, EntryKind
  <2>2. Shows(s)
    BY <1>0, <1>3 DEF Entry
  <2> HIDE DEF Shows, e
  <2> QED BY <1>r, <2>1, <2>2, ClientShows
<1>4. CASE TurnEnd(s)
  <2>1. /\ stream[s] = "open" /\ read[s] < heard[s] /\ stream'[s] = "open" /\ read'[s] = read[s] + 1
        /\ pending'[s] = <<>> /\ e.type = "turn_end" /\ node'[s] = Laid(n, p)
    BY <1>0, <1>4 DEF TurnEnd, Flushed, Laid
  <2>2. Shows(s)
    BY <1>0, <1>4 DEF TurnEnd, Flushed
  <2> HIDE DEF Shows, e
  <2> QED BY <1>r, <2>1, <2>2, ClientShows
<1>5. CASE Frame(s)
  <2>1. /\ stream[s] = "open" /\ stream'[s] = "open" /\ read'[s] = read[s] /\ pending'[s] = <<>>
        /\ node'[s] = Laid(n, p)
    BY <1>0, <1>5 DEF Frame, Flushed, Laid
  <2>2. Shows(s)
    BY <1>0, <1>5 DEF Frame, Flushed
  <2>3. ClientFits(subs, phase[s], said[s], heard[s], "open", read[s], <<>>, Laid(n, p))
    BY <1>f, <2>1, ClientFlushes
  <2> HIDE DEF Shows
  <2> QED BY <2>1, <2>2, <2>3, ClientShows
<1>6. CASE Ends(s)
  <2>1. /\ stream[s] = "open" /\ stream'[s] = "ended" /\ read'[s] = read[s] /\ pending'[s] = <<>>
        /\ node'[s] = Laid(n, p) /\ phase[s] \in Closed /\ read[s] = heard[s]
    BY <1>0, <1>6 DEF Ends, Closes, Flushed, Laid, Closed
  <2>2. Shows(s)
    BY <1>0, <1>6 DEF Ends, Closes, Flushed
  <2>3. ClientFits(subs, phase[s], said[s], heard[s], "ended", read[s], <<>>, Laid(n, p))
    BY <1>f, <2>1, ClientFlushes
  <2> HIDE DEF Shows
  <2> QED BY <2>1, <2>2, <2>3, ClientShows
<1> QED BY <1>1, <1>2, <1>3, <1>4, <1>5, <1>6 DEF Reads

\* A turn is left alone or given up, is stopped or not, and is shown or no longer.
Alone(r)   == UNCHANGED <<phase[r], agent[r], said[r], heard[r], stream[r], read[r], pending[r]>>
GivenUp(r) ==
    /\ phase'[r] = "gone" /\ agent'[r] = [a \in Agents(plan[r]) |-> "idle"] /\ said'[r] = <<>> /\ heard'[r] = 0
    /\ read'[r] = 0 /\ pending'[r] = <<>> /\ stream'[r] \in {"aborted", "failed"}
Leaves(r) ==
    /\ Alone(r) \/ GivenUp(r)
    /\ stop'[r] = stop[r] \/ stop'[r] = TRUE
    /\ node'[r] = node[r] \/ node'[r] = [a \in Agents(plan[r]) |-> NoNode]

LEMMA ShownLeaves ==
    ASSUME ShownInv, UNCHANGED plan, Mapped', \A r \in Turn : Leaves(r) PROVE ShownInv'
<1> SUFFICES ASSUME NEW r \in Turn PROVE TurnFits(r)'
  BY DEF ShownInv, Turn
<1> DEFINE subs == plan[r]
           none == [a \in Agents(subs) |-> NoNode]
           idle == [a \in Agents(subs) |-> "idle"]
<1>0. Numbered(subs)
  BY PlansAreNumbered DEF ShownInv
<1>1. /\ ServerFits(subs, phase[r], agent[r], said[r], heard[r], stop[r])
      /\ ClientFits(subs, phase[r], said[r], heard[r], stream[r], read[r], pending[r], node[r])
  BY DEF ShownInv, TurnFits
<1>2. Leaves(r)
  OBVIOUS
<1> HIDE DEF subs, none, idle
<1>3. /\ ServerFits(subs, phase[r], agent[r], said[r], heard[r], TRUE)
      /\ ServerFits(subs, "gone", idle, <<>>, 0, stop[r])
  BY <1>0, <1>1, FitsOnwards DEF idle
<1>4. ServerFits(subs, "gone", idle, <<>>, 0, TRUE)
  BY <1>0, <1>3, FitsOnwards
<1>5. ASSUME NEW m, m = node[r] \/ m = none
      PROVE  /\ ClientFits(subs, phase[r], said[r], heard[r], stream[r], read[r], pending[r], m)
             /\ \A how \in {"aborted", "failed"} : ClientFits(subs, "gone", <<>>, 0, how, 0, <<>>, m)
  <2>1. ClientFits(subs, phase[r], said[r], heard[r], stream[r], read[r], pending[r], m)
    BY <1>1, <1>5, ClientLeaves DEF none
  <2> QED BY <2>1, ClientLeaves
<1>6. plan'[r] = subs /\ (node'[r] = node[r] \/ node'[r] = none)
  BY <1>2 DEF Leaves, subs, none
<1>7. CASE Alone(r)
  <2>1. ServerFits(subs, phase[r], agent[r], said[r], heard[r], stop'[r])
    BY <1>1, <1>2, <1>3 DEF Leaves
  <2>2. ClientFits(subs, phase[r], said[r], heard[r], stream[r], read[r], pending[r], node'[r])
    BY <1>5, <1>6
  <2> QED BY <1>6, <1>7, <2>1, <2>2 DEF TurnFits, Alone
<1>8. CASE GivenUp(r)
  <2>1. ServerFits(subs, "gone", idle, <<>>, 0, stop'[r])
    BY <1>2, <1>3, <1>4 DEF Leaves
  <2>2. ClientFits(subs, "gone", <<>>, 0, stream'[r], 0, <<>>, node'[r])
    BY <1>5, <1>6, <1>8 DEF GivenUp
  <2> QED BY <1>6, <1>8, <2>1, <2>2 DEF TurnFits, GivenUp, idle, subs
<1> QED BY <1>2, <1>7, <1>8 DEF Leaves

\* A request that is given up, whatever happens to the nodes and the stop events.
LEMMA GivesUp ==
    ASSUME ShownInv, UNCHANGED plan, NEW s, Cancelled(s), NEW how \in {"aborted", "failed"},
           stream' = [stream EXCEPT ![s] = how], pending' = [pending EXCEPT ![s] = <<>>]
    PROVE  /\ \A r \in Turn : Alone(r) \/ GivenUp(r)
           /\ DOMAIN phase' = Turn /\ DOMAIN agent' = Turn /\ DOMAIN said' = Turn /\ DOMAIN heard' = Turn
           /\ DOMAIN stream' = Turn /\ DOMAIN read' = Turn /\ DOMAIN pending' = Turn
<1>1. Mapped
  BY DEF ShownInv
<1>2. \A r \in Turn : Member(r) = Agents(plan[r])
  BY PlansAreNumbered DEF ShownInv
<1>3. \A r \in Turn : r # s => Alone(r)
  BY <1>1 DEF Mapped, Cancelled, Alone
<1>4. s \in Turn => GivenUp(s)
  BY <1>1, <1>2 DEF Mapped, Cancelled, GivenUp
<1> QED BY <1>1, <1>3, <1>4 DEF Mapped, Cancelled

LEMMA StopIsSet ==
    ASSUME ShownInv, StopPosted
    PROVE  DOMAIN stop' = Turn /\ \A r \in Turn : stop'[r] = stop[r] \/ stop'[r] = TRUE
BY DEF ShownInv, Mapped, StopPosted

LEMMA ShownAborts ==
    ASSUME ShownInv, UNCHANGED plan, Aborts
    PROVE  /\ \A r \in Turn : Alone(r) \/ GivenUp(r)
           /\ DOMAIN phase' = Turn /\ DOMAIN agent' = Turn /\ DOMAIN said' = Turn /\ DOMAIN heard' = Turn
           /\ DOMAIN stream' = Turn /\ DOMAIN read' = Turn /\ DOMAIN pending' = Turn
<1>1. CASE ctrl # 0
  BY <1>1, GivesUp DEF Aborts, Closes
<1>2. CASE ctrl = 0
  BY <1>2 DEF Aborts, ShownInv, Mapped, Alone
<1> QED BY <1>1, <1>2

LEMMA ShownStep == ShownInv /\ [Next]_vars => ShownInv'
<1> SUFFICES ASSUME ShownInv, [Next]_vars PROVE ShownInv'
  OBVIOUS
<1>0. Mapped /\ (UNCHANGED plan => Turn' = Turn) /\ \A r \in Turn : Member(r) = Agents(plan[r])
  BY PlansAreNumbered DEF ShownInv, Turn
<1>1. ASSUME UNCHANGED <<plan, phase, agent, said, heard, stream, read, pending>>,
             (UNCHANGED stop) \/ StopPosted, UNCHANGED node
      PROVE  ShownInv'
  <2>1. DOMAIN stop' = Turn /\ \A r \in Turn : stop'[r] = stop[r] \/ stop'[r] = TRUE
    BY <1>0, <1>1, StopIsSet DEF Mapped
  <2>2. Mapped' /\ \A r \in Turn : Leaves(r)
    BY <1>0, <1>1, <2>1 DEF Mapped, Leaves, Alone
  <2> QED BY <1>1, <2>2, ShownLeaves
<1>2. CASE UNCHANGED vars
  BY <1>1, <1>2 DEF vars, serverVars, clientVars, viewVars
<1>3. CASE Next
  <2>0. UNCHANGED plan
    BY <1>3 DEF Next
  <2>1. ASSUME NEW s \in Turn, Send(s) PROVE ShownInv'
    <3>1. /\ Only(s) /\ stream[s] = "unused" /\ stream'[s] = "open" /\ phase'[s] = "starting"
          /\ UNCHANGED <<plan, agent, said, heard, stop, read, pending, node>>
      BY <1>0, <2>0, <2>1 DEF Send, Only, OfTurn, Mapped
    <3>2. /\ Numbered(plan[s]) /\ ServerFits(plan[s], phase[s], agent[s], said[s], heard[s], stop[s])
          /\ ClientFits(plan[s], phase[s], said[s], heard[s], "unused", read[s], pending[s], node[s])
      BY <3>1, PlansAreNumbered DEF ShownInv, TurnFits
    <3>3. phase[s] = "unused"
      BY <3>2 DEF ClientFits
    <3>4. ServerFits(plan[s], "starting", agent[s], said[s], heard[s], stop[s])
      BY <3>2, <3>3, FitsOnwards
    <3>5. ClientFits(plan[s], "starting", said[s], heard[s], "open", read[s], pending[s], node[s])
      BY <3>2, ClientSends
    <3>6. TurnFits(s)'
      BY <3>1, <3>4, <3>5 DEF TurnFits
    <3> QED BY <3>1, <3>6, ShownIn
  <2>2. ASSUME NEW s \in Turn, Server(s) PROVE ShownInv'
    BY <2>0, <2>2, ShownServer
  <2>3. ASSUME NEW s \in Turn, Deliver(s) PROVE ShownInv'
    <3>1. /\ Only(s) /\ heard[s] < Len(said[s]) /\ heard'[s] = Len(said[s])
          /\ UNCHANGED <<phase, agent, said, stop, stream, read, pending, node>>
      BY <1>0, <2>0, <2>3 DEF Deliver, clientVars, viewVars, Only, OfTurn, Mapped
    <3>2. Numbered(plan[s]) /\ ServerFits(plan[s], phase[s], agent[s], said[s], heard[s], stop[s])
      BY PlansAreNumbered DEF ShownInv, TurnFits
    <3>3. said[s] \in Seq(EventOf(plan[s])) /\ Len(said[s]) \in Nat /\ heard[s] \in Nat
          /\ phase[s] \notin {"unused", "over", "refused"}
      <4>1. said[s] \in Seq(EventOf(plan[s])) /\ heard[s] \in 0..Len(said[s])
            /\ (phase[s] = "unused" => said[s] = <<>>)
            /\ (phase[s] \in Closed => heard[s] = Len(said[s]))
        BY <3>2 DEF ServerFits, Fresh
      <4> QED BY <3>1, <4>1 DEF Closed
    <3>4. ServerFits(plan[s], phase[s], agent[s], said[s], Len(said[s]), stop[s])
      BY <3>2, FitsOnwards
    <3>5. <<>> \in Seq(EventOf(plan[s])) /\ said[s] \o <<>> = said[s]
      BY <3>3
    <3>6. Moves(s, <<>>)
      BY <3>1, <3>3, <3>5 DEF Moves
    <3>7. ServerFits(plan[s], phase'[s], agent'[s], said'[s], heard'[s], stop'[s])
      BY <3>1, <3>4
    <3> QED BY <3>5, <3>6, <3>7, ServerMoves
  <2>4. ASSUME NEW s \in Turn, Reads(s) \/ Frame(s) PROVE ShownInv'
    BY <2>0, <2>4, ShownReads
  <2>5. ASSUME NEW s \in Turn, Breaks(s) PROVE ShownInv'
    <3>1. /\ \A r \in Turn : Alone(r) \/ GivenUp(r)
          /\ DOMAIN phase' = Turn /\ DOMAIN agent' = Turn /\ DOMAIN said' = Turn /\ DOMAIN heard' = Turn
          /\ DOMAIN stream' = Turn /\ DOMAIN read' = Turn /\ DOMAIN pending' = Turn
      BY <2>0, <2>5, GivesUp DEF Breaks, Closes
    <3>2. UNCHANGED <<stop, node>>
      BY <2>5 DEF Breaks
    <3>3. Mapped' /\ \A r \in Turn : Leaves(r)
      BY <1>0, <2>0, <3>1, <3>2 DEF Mapped, Leaves
    <3> QED BY <2>0, <3>3, ShownLeaves
  <2>6. CASE Stop
    BY <1>1, <2>0, <2>6 DEF Stop, viewVars
  <2>7. CASE New \/ Load
    <3>1. /\ \A r \in Turn : Alone(r) \/ GivenUp(r)
          /\ DOMAIN phase' = Turn /\ DOMAIN agent' = Turn /\ DOMAIN said' = Turn /\ DOMAIN heard' = Turn
          /\ DOMAIN stream' = Turn /\ DOMAIN read' = Turn /\ DOMAIN pending' = Turn
      BY <2>0, <2>7, ShownAborts DEF New, Load
    <3>2. DOMAIN stop' = Turn /\ \A r \in Turn : stop'[r] = stop[r] \/ stop'[r] = TRUE
      BY <1>0, <2>7, StopIsSet DEF New, Load, Mapped
    <3>3. DOMAIN node' = Turn
          /\ \A r \in Turn : node'[r] = node[r] \/ node'[r] = [a \in Agents(plan[r]) |-> NoNode]
      BY <1>0, <2>7 DEF New, Load, Mapped, viewVars
    <3>4. Mapped' /\ \A r \in Turn : Leaves(r)
      BY <1>0, <2>0, <3>1, <3>2, <3>3 DEF Mapped, Leaves
    <3> QED BY <2>0, <3>4, ShownLeaves
  <2>8. CASE Loaded
    BY <1>1, <2>0, <2>8 DEF Loaded, serverVars
  <2> QED BY <1>3, <2>1, <2>2, <2>3, <2>4, <2>5, <2>6, <2>7, <2>8 DEF Next
<1> QED BY <1>2, <1>3

LEMMA ShownInit == Init => ShownInv
<1> SUFFICES ASSUME Init PROVE ShownInv
  OBVIOUS
<1>1. plan \in Plans /\ Mapped
  BY DEF Init, Mapped
<1>2. ASSUME NEW s \in Turn PROVE TurnFits(s)
  <2> DEFINE subs == plan[s]
  <2>1. /\ phase[s] = "unused" /\ agent[s] = [a \in Agents(subs) |-> "idle"] /\ said[s] = <<>> /\ heard[s] = 0
        /\ stream[s] = "unused" /\ read[s] = 0 /\ pending[s] = <<>> /\ node[s] = [a \in Agents(subs) |-> NoNode]
    BY <1>1, PlansAreNumbered DEF Init
  <2> HIDE DEF subs
  <2>2. <<>> \in Seq(EventOf(subs)) /\ Len(<<>>) = 0 /\ Ordered(<<>>) /\ (\A t, a : ~Occurs(<<>>, t, a))
        /\ <<>> \in Seq(EntryOf(subs)) /\ 0 \in 0..0
    BY EmptySaid
  <2>3. ServerFits(subs, "unused", agent[s], <<>>, 0, stop[s])
    BY <2>1, <2>2 DEF ServerFits, Fresh, Closed
  <2>4. node[s] \in NodesOf(subs) /\ \A a \in Agents(subs) : node[s][a].status = "none"
    <3>1. NoNode \in NodeType /\ NoNode.status = "none"
      BY DEF NoNode, NodeType
    <3> QED BY <2>1, <3>1 DEF NodesOf
  <2>5. ClientFits(subs, "unused", <<>>, 0, "unused", 0, <<>>, node[s])
    BY <2>2, <2>4 DEF ClientFits
  <2> QED BY <2>1, <2>3, <2>5 DEF TurnFits, subs
<1> QED BY <1>1, <1>2 DEF ShownInv

LEMMA FitsMeansShown == ShownInv => ShownAsSaid
<1> SUFFICES ASSUME ShownInv, NEW s \in Turn, NEW a \in Member(s), stream[s] = "ended", node[s][a].status # "none"
             PROVE  node[s][a].log = Entries(s, a) /\ (stop[s] \/ node[s][a].status = "completed")
  BY DEF ShownAsSaid
<1> DEFINE subs == plan[s]
<1>1. /\ Numbered(subs) /\ a \in Agents(subs)
      /\ ServerFits(subs, phase[s], agent[s], said[s], heard[s], stop[s])
      /\ ClientFits(subs, phase[s], said[s], heard[s], "ended", read[s], pending[s], node[s])
  BY PlansAreNumbered DEF ShownInv, TurnFits
<1> HIDE DEF subs
<1>2. /\ phase[s] \in Closed /\ read[s] = heard[s] /\ pending[s] = <<>> /\ heard[s] = Len(said[s])
      /\ View(subs, SubSeq(said[s], 1, read[s]), pending[s], node[s])
      /\ said[s] \in Seq(EventOf(subs)) /\ heard[s] \in 0..Len(said[s])
  BY <1>1 DEF ClientFits, ServerFits
<1>3. View(subs, said[s], <<>>, node[s])
  <2>1. SubSeq(said[s], 1, read[s]) = said[s]
    BY <1>2, PrefixBegins DEF Begins
  <2> QED BY <1>2, <2>1
<1>4. LogOf(a, node[s][a].log, <<>>) = node[s][a].log
  <2>1. <<>> \in Seq({0}) /\ 0 \in {0}
    OBVIOUS
  <2> QED BY <2>1, LogGrows
<1>5. /\ node[s][a].log = LogOf(a, <<>>, said[s]) /\ Occurs(said[s], "started", a)
      /\ Occurs(said[s], "completed", a) => node[s][a].status = "completed"
  BY <1>1, <1>3, <1>4 DEF View
<1>6. agent[s][a] # "idle"
  BY <1>1, <1>5 DEF ServerFits
<1>7. phase[s] = "over"
  BY <1>1, <1>2, <1>6 DEF ServerFits, Closed
<1>8. stop[s] \/ agent[s][a] = "ended"
  <2>1. a = Root \/ a \in subs
    BY <1>1 DEF Agents
  <2> QED BY <1>1, <1>6, <1>7, <2>1 DEF ServerFits
<1>9. stop[s] \/ node[s][a].status = "completed"
  BY <1>1, <1>5, <1>8 DEF ServerFits
<1> QED BY <1>5, <1>9 DEF Entries, LogOf

(* Whatever is sent, stopped, broken off or switched, and however frames,  *)
(* flushes and the lines of streams side by side fall together: when a     *)
(* stream has ended, each agent the page shows has in its log all that it  *)
(* said, in its order, and is shown as completed unless the turn was       *)
(* stopped.                                                                *)
THEOREM PageShowsAll == Spec => []ShownAsSaid
BY ShownInit, ShownStep, FitsMeansShown, PTL DEF Spec
=============================================================================
