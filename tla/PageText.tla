-------------------------------- MODULE PageText --------------------------------
(***************************************************************************)
(* The text of a page in pieces that fit an answer: the section that a     *)
(* scope names (src/tools/browser/core/_pipeline.py), and what read_page   *)
(* gives chunk by chunk, the whole text or the matches of a query          *)
(* (src/tools/browser/read_content.py). Lines and letters are left out:    *)
(* a node is its kind, its depth and how its name answers the scope, a     *)
(* match is its length.                                                    *)
(***************************************************************************)
EXTENDS Naturals, Sequences, FiniteSets, FiniteSetsExt

CONSTANTS
    MaxNodes,     \* bound: nodes of a page
    MaxMatches,   \* bound: matches of a query
    ReadBudget,   \* _READ_BUDGET
    Header        \* the length of the header of a page of matches

VARIABLES
    nodes,        \* what the walker has emitted
    depth,        \* its depth
    walked,       \* whether it is through
    sizes,        \* the lengths of the groups of matches, or of the text's pieces
    query,        \* whether the reader asked for matches
    page,         \* page_number of the next call, 0 when the reader stops
    got           \* the groups, or the pieces, it was given so far

vars == <<nodes, depth, walked, sizes, query, page, got>>
text == <<sizes, query, page, got>>

\* A page that is looked at, or a text that is read.
Init ==
    /\ nodes = <<>> /\ depth = 0 /\ got = <<>>
    /\ query \in BOOLEAN
    /\ \/ walked = FALSE /\ sizes = <<>> /\ page = 0
       \/ /\ walked = TRUE /\ page = 1
          /\ sizes \in UNION {[1..n -> IF query THEN 1..ReadBudget ELSE {1}] : n \in 1..MaxMatches}

-----------------------------------------------------------------------------
(* The walker's output: containers open and close, and have their markers  *)
(* one level above what they contain.                                      *)

Emit(type, name, d) ==
    /\ ~walked /\ Len(nodes) < MaxNodes
    /\ nodes' = Append(nodes, [type |-> type, depth |-> d, name |-> name])
    /\ UNCHANGED <<walked, text>>
Opens    == Emit("start", "other", depth) /\ depth' = depth + 1
Closes   == depth > 0 /\ Emit("end", "other", depth - 1) /\ depth' = depth - 1
Leaf     == \/ \E name \in {"exact", "part", "other"} : Emit("heading", name, depth) /\ UNCHANGED depth
            \/ Emit("text", "other", depth) /\ UNCHANGED depth
Complete == ~walked /\ depth = 0 /\ walked' = TRUE /\ UNCHANGED <<nodes, depth, text>>

Nodes == 1..Len(nodes)
FirstOf(S, else) == IF S = {} THEN else ELSE Min(S)
Headings(name) == {i \in Nodes : nodes[i].type = "heading" /\ nodes[i].name = name}
Found   == Headings("exact") \cup Headings("part") # {}
Heading == FirstOf(Headings("exact"), FirstOf(Headings("part"), 1))

\* Slip: a container beside the heading is taken for one around it.
EnclosingAny(h) ==
    {i \in 1..(h - 1) : nodes[i].type = "start" /\ nodes[i].depth <= nodes[h].depth}
\* The markers before the heading that are less deep.
Enclosing(h) ==
    {i \in 1..(h - 1) : nodes[i].type = "start" /\ nodes[i].depth < nodes[h].depth}
(* _filter_scope: from the marker of the heading's container to the end    *)
(* marker of its depth, or, outside containers, to the next heading.       *)
Scoped ==
    LET h == Heading
        c == IF Enclosing(h) = {} THEN h ELSE Max(Enclosing(h))
        ends == IF c # h
                THEN {i + 1 : i \in {j \in (c + 1)..Len(nodes) :
                          nodes[j].type = "end" /\ nodes[j].depth = nodes[c].depth}}
                ELSE {j \in (h + 1)..Len(nodes) :
                          nodes[j].type = "heading" /\ nodes[j].depth <= nodes[h].depth}
    IN  IF Found THEN c..(FirstOf(ends, Len(nodes) + 1) - 1) ELSE Nodes

-----------------------------------------------------------------------------
(* The reader                                                              *)

(* A match that no longer fits begins a page.                              *)
Turned(p, i) == [page |-> p.page + 1, total |-> Header + sizes[i], on |-> p.page + 1]

(* _filter_by_query: the page each group of matches is on.                 *)
Placed[i \in 0..MaxMatches] ==
    IF i = 0 \/ i > Len(sizes) THEN [page |-> 1, total |-> Header, on |-> 0]
    ELSE LET p == Placed[i - 1]
         IN  IF p.total > Header /\ p.total + sizes[i] > ReadBudget THEN Turned(p, i)
             ELSE [page |-> p.page, total |-> p.total + sizes[i], on |-> p.page]
Matches(n)   == SelectSeq([i \in 1..Len(sizes) |-> i], LAMBDA i : Placed[i].on = n)
MoreMatches(n) == \E i \in 1..Len(sizes) : Placed[i].page > n

(* Without a query, a slice of the text.                                   *)
Slice(n) == LET last == IF n * ReadBudget < Len(sizes) THEN n * ReadBudget ELSE Len(sizes)
            IN  [i \in 1..(last - (n - 1) * ReadBudget) |-> (n - 1) * ReadBudget + i]
MoreText(n) == n * ReadBudget < Len(sizes)

(* read_page: the reader goes on while the answer says truncated.          *)
ReadPage ==
    /\ page > 0
    /\ LET more == IF query THEN MoreMatches(page) ELSE MoreText(page)
           part == IF query THEN Matches(page) ELSE Slice(page)
       IN  got' = got \o part /\ page' = IF more THEN page + 1 ELSE 0
    /\ UNCHANGED <<nodes, depth, walked, sizes, query>>

Next == Opens \/ Closes \/ Leaf \/ Complete \/ ReadPage
Spec == Init /\ [][Next]_vars

-----------------------------------------------------------------------------
(* A scope gives the section its heading heads: the least stretch of the   *)
(* page around the heading that begins and ends a container, and outside   *)
(* of containers all up to the next such heading.                          *)
Inside(i, j) ==
    \A k \in i..j : Cardinality({m \in i..k : nodes[m].type = "start"})
                    > Cardinality({m \in i..k : nodes[m].type = "end"})
Around(h) == {s \in Nodes : nodes[s].type = "start" /\ s < h /\ Inside(s, h)}
ScopeIsTheSection ==
    walked /\ Found =>
        LET h == Heading
            last == IF Around(h) = {}
                    THEN FirstOf({j \in (h + 1)..Len(nodes) :
                                      nodes[j].type = "heading" /\ Around(j) = {}}, Len(nodes) + 1) - 1
                    ELSE Min({j \in Nodes : j > Max(Around(h)) /\ ~Inside(Max(Around(h)), j)})
        IN  Scoped = (IF Around(h) = {} THEN h ELSE Max(Around(h)))..last

(* A reader who goes on while the answers say truncated gets everything,   *)
(* once and in order, and no page is longer than the budget unless one     *)
(* match is.                                                               *)
ReadsEverything ==
    /\ page = 0 => got = [i \in 1..Len(sizes) |-> i]
    /\ page > 0 /\ query /\ Len(Matches(page)) > 1 =>
           Header + MapThenSumSet(LAMBDA i : sizes[i], {i \in 1..Len(sizes) : Placed[i].on = page})
               <= ReadBudget
=============================================================================
