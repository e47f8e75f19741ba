------------------------------- MODULE MCBrowser -------------------------------
(***************************************************************************)
(* The tools of the browser, each concern in a behaviour of its own: the   *)
(* numbers that name elements, the mouse and the keyboard, the downloads   *)
(* an action starts, the live pictures, the contexts of the agents, and    *)
(* the text of a page in pieces.                                           *)
(***************************************************************************)
EXTENDS PageRefs

CONSTANTS
    Field, Button, Length, BadKeys, File, Agent, MaxAsked, None,
    Conv, Sub, MaxContexts, MaxChromes, MaxNodes, MaxMatches, ReadBudget, Header

VARIABLES part,
    pointer, pressed, modifier, focus, text, inputCall,
    file, tab, pending, event, pageCall,
    tool, task, pictured, newer, shot, context, due, last, asked,
    chromes, root, pool, ctx, lock, queue, working, release, poolCall, shut, hooked, left,
    nodes, depth, walked, sizes, query, chunk, got

Input    == INSTANCE PageInput WITH call <- inputCall
Files    == INSTANCE PageDownloads WITH call <- pageCall
Pictures == INSTANCE ScreenshotEmitter WITH pending <- pictured
Pool     == INSTANCE BrowserPool WITH call <- poolCall, active <- working
Text     == INSTANCE PageText WITH page <- chunk

\* Names are told apart, and a tool call is not the end of the server.
ASSUME PartsAreDistinct ==
    /\ None \notin Call \cup Conv \cup Sub \cup File \cup Field \cup Button
    /\ Call \cap (Conv \cup Sub) = {} /\ Conv \cap Sub = {}
    /\ "shutdown" \notin Call \cup Conv \cup Sub
ASSUME BoundsAreNumbers == MaxChromes \in Nat /\ MaxContexts \in Nat /\ Length \in Nat
ASSUME ElementsAreNumbers == Element \subseteq Nat \ {0} /\ Inner \subseteq Element

inputVars == <<pointer, pressed, modifier, focus, text, inputCall>>
fileVars  == <<file, tab, pending, event, pageCall>>
shotVars  == <<tool, task, pictured, newer, shot, context, due, last, asked>>
poolVars  == <<chromes, root, pool, ctx, lock, queue, working, release, poolCall, shut, hooked, left>>
textVars  == <<nodes, depth, walked, sizes, query, chunk, got>>
allVars   == <<part, vars, inputVars, fileVars, shotVars, poolVars, textVars>>

AllInit ==
    /\ part \in {"refs", "input", "files", "pictures", "pool", "text"}
    /\ Init /\ Input!Init /\ Files!Init /\ Pictures!Init /\ Pool!Init /\ Text!Init
    /\ part # "refs" => inView = {}
    /\ part # "text" => walked = FALSE /\ query = FALSE

AllNext ==
    /\ UNCHANGED part
    /\ \/ /\ part = "refs" /\ Next
          /\ UNCHANGED <<inputVars, fileVars, shotVars, poolVars, textVars>>
       \/ /\ part = "input" /\ Input!Next
          /\ UNCHANGED <<vars, fileVars, shotVars, poolVars, textVars>>
       \/ /\ part = "files" /\ Files!Next
          /\ UNCHANGED <<vars, inputVars, shotVars, poolVars, textVars>>
       \/ /\ part = "pictures" /\ Pictures!Next
          /\ UNCHANGED <<vars, inputVars, fileVars, poolVars, textVars>>
       \/ /\ part = "pool" /\ Pool!Next
          /\ UNCHANGED <<vars, inputVars, fileVars, shotVars, textVars>>
       \/ /\ part = "text" /\ Text!Next
          /\ UNCHANGED <<vars, inputVars, fileVars, shotVars, poolVars>>

AllSpec ==
    /\ AllInit /\ [][AllNext]_allVars
    /\ Files!Fairness /\ Pool!Fairness

(* A fill leaves its field holding its text alone; see PageInput.          *)
FilledAsAsked == Input!FilledAsAsked
(* No modifier key is down once the calls are over; see PageInput.         *)
ModifiersAreReleased == Input!ModifiersAreReleased
(* A call reports the file saved while it ran; see PageDownloads.          *)
SavedIsReported == Files!SavedIsReported
(* A tool returns after the picture it asked for; see ScreenshotEmitter.   *)
LastFrameIsTaken == Pictures!LastFrameIsTaken
(* No context is closed under a call that uses it; see BrowserPool.        *)
NotClosedUnderUse == Pool!NotClosedUnderUse
(* An open context is its key's, and an ended agent has none; BrowserPool. *)
NoContextStrays == Pool!NoContextStrays
(* Every call gets a context or an error; see BrowserPool.                 *)
GetsEnd == Pool!GetsEnd
(* All contexts are in the one Chrome; see BrowserPool.                    *)
SharesOneChrome == Pool!SharesOneChrome
(* A scope gives the section of its heading; see PageText.                 *)
ScopeIsTheSection == Text!ScopeIsTheSection
(* The chunks of a page are all of it; see PageText.                       *)
ReadsEverything == Text!ReadsEverything
=============================================================================
