------------------------------- MODULE PageInput -------------------------------
(***************************************************************************)
(* The mouse and the keyboard of a page (src/tools/browser/core/human.py): *)
(* each tool is a sequence of device events, and the tools that one answer *)
(* of the model calls side by side take turns on the same devices between  *)
(* any two events. Trajectories, pauses and jitter are left out.           *)
(***************************************************************************)
EXTENDS Naturals, Sequences, FiniteSets

CONSTANTS
    Call,         \* tool calls on the page
    Field,        \* text fields
    Button,       \* other elements
    None,
    Length,       \* characters a fill types
    Parallel,     \* whether one answer of the model may hold several calls
    BadKeys       \* whether the model may name a key that Playwright does not know

VARIABLES
    pointer,      \* the element under the mouse, None elsewhere
    pressed,      \* whether the mouse button is down
    modifier,     \* whether a modifier key is down
    focus,        \* the focused field
    text,         \* each field: whose characters it holds, the first Length + 1
    call          \* each call: its events to come, what is where it points, its company

vars == <<pointer, pressed, modifier, focus, text, call>>

Control == Field \cup Button
Ev(do, e) == [do |-> do, on |-> e]
Free    == [at |-> "idle", todo |-> <<>>, field |-> None, aim |-> None, to |-> None, alone |-> TRUE]
Running == {c \in Call : call[c].at = "running"}

Init ==
    /\ pointer = None /\ pressed = FALSE /\ modifier = FALSE /\ focus = None
    /\ text = [f \in Field |-> <<>>] /\ call = [c \in Call |-> Free]

-----------------------------------------------------------------------------
(* The tools: the events each one sends                                    *)

\* human_click: the element is measured, the mouse glides there.
human_click(e) == <<Ev("aim", e), Ev("glide", e), Ev("down", e), Ev("up", e)>>
human_press_and_hold(e) == <<Ev("aim", e), Ev("glide", e), Ev("down", e), Ev("hold", e), Ev("up", e)>>
\* human_drag: both ends are measured before the mouse moves.
human_drag(e, f) ==
    <<Ev("aim", e), Ev("aimTo", f), Ev("glide", e), Ev("down", e), Ev("glideTo", f), Ev("up", f)>>
\* human_click_at and the other actions at a point of a screenshot.
human_click_at(e) == <<Ev("glide", e), Ev("down", e), Ev("up", e)>>
human_double_click_at(e) == human_click_at(e) \o <<Ev("down", e), Ev("up", e)>>
human_right_click_at(e) == <<Ev("glide", e), Ev("rightDown", e), Ev("rightUp", e)>>
human_drag_at(e, f) ==
    <<Ev("glide", e), Ev("down", e), Ev("glideTo", f), Ev("up", f)>>
human_scroll == <<Ev("wheel", None)>>
\* A chord of a modifier and a key, or a plain key.
human_press_keys(key) == <<Ev("modDown", None), Ev(key, None), Ev("modUp", None)>>

\* Slip: what the field holds is not cleared first.
human_type_over(f) == [i \in 1..Length |-> Ev("type", f)]
\* human_type: select all, delete, and one character at a time.
human_type(f) == <<Ev("selectAll", f), Ev("erase", f)>> \o [i \in 1..Length |-> Ev("type", f)]

(* _perform_fill: a click, and then the text.                              *)
fill_field(f) == human_click(f) \o human_type(f)
(* _keyboard_select moves through the options by keys; when it lands on    *)
(* another one, a script selects, and Escape closes the list.              *)
keyboard_select(escapes) == <<Ev("key", None)>> \o IF escapes THEN <<Ev("key", None)>> ELSE <<>>
select_option(e, escapes) == human_click(e) \o keyboard_select(escapes)

-----------------------------------------------------------------------------
(* perform_interaction takes no lock                                       *)

Start(c, events, field, to) ==
    /\ call[c].at = "idle" /\ (Parallel \/ Running = {})
    /\ call' = [x \in Call |->
          IF x = c THEN [at |-> "running", todo |-> events, field |-> field, aim |-> to[1], to |-> to[2],
                         alone |-> Running = {} /\ ~modifier]
          ELSE [call[x] EXCEPT !.alone = @ /\ call[x].at # "running"]]
    /\ UNCHANGED <<pointer, pressed, modifier, focus, text>>
Issue(c, events) == Start(c, events, None, <<None, None>>)

Fill(c)   == \E f \in Field : Start(c, fill_field(f), f, <<None, None>>)
Click(c)  == \E e \in Control : Issue(c, human_click(e))
Hold(c)   == \E e \in Control : Issue(c, human_press_and_hold(e))
Drag(c)   == \E e, f \in Control : e # f /\ Issue(c, human_drag(e, f))
Select(c) == \E e \in Button, escapes \in BOOLEAN : Issue(c, select_option(e, escapes))
Scroll(c) == Issue(c, human_scroll)
Keys(c)   == \E key \in {"key"} \cup IF BadKeys THEN {"badKey"} ELSE {} :
                 Issue(c, human_press_keys(key))

(* execute_action: the points of a screenshot, where elements were then,   *)
(* and text that goes wherever the focus is.                               *)
ClickAt(c) == \E e \in Control : \/ Start(c, human_click_at(e), None, <<e, None>>)
                                \/ Start(c, human_double_click_at(e), None, <<e, None>>)
                                \/ Start(c, human_right_click_at(e), None, <<e, None>>)
TypeAt(c) == Issue(c, [i \in 1..Length |-> Ev("type", None)])
DragAt(c)  == \E e, f \in Control :
    e # f /\ Start(c, human_drag_at(e, f), None, <<e, f>>)

Begins(c, e) == call[c].at = "running" /\ call[c].todo # <<>> /\ Head(call[c].todo).do = e
On(c)        == Head(call[c].todo).on
Done(c)      == call' = [call EXCEPT ![c].todo = Tail(@)]
Fails(c)     == call' = [call EXCEPT ![c] = [Free EXCEPT !.at = "failed"]]

-----------------------------------------------------------------------------
(* The events                                                              *)

(* bounding_box: where the element is now; an element that is gone, or has *)
(* no box, fails the call.                                                 *)
Aim(c) ==
    /\ \/ Begins(c, "aim") /\ call' = [call EXCEPT ![c].aim = On(c),
                                                   ![c].todo = Tail(@)]
       \/ Begins(c, "aimTo") /\ call' = [call EXCEPT ![c].to = On(c),
                                                     ![c].todo = Tail(@)]
       \/ (Begins(c, "aim") \/ Begins(c, "aimTo")) /\ Fails(c)
    /\ UNCHANGED <<pointer, pressed, modifier, focus, text>>

(* A fill whose element is not found in time clicks it by force.           *)
ForceClick(c) ==
    /\ Begins(c, "aim") /\ call[c].field # None
    /\ pointer' = On(c) /\ pressed' = FALSE /\ focus' = On(c)
    /\ call' = [call EXCEPT ![c].todo = human_type(call[c].field)]
    /\ UNCHANGED <<modifier, text>>

(* _mouse_move_with_fake_cursor, to where the element was measured.        *)
Glide(c) ==
    /\ \/ /\ Begins(c, "glide") /\ pointer' = call[c].aim
          /\ call' = [call EXCEPT ![c].aim = None, ![c].todo = Tail(@)]
       \/ /\ Begins(c, "glideTo") /\ pointer' = call[c].to
          /\ call' = [call EXCEPT ![c].to = None, ![c].todo = Tail(@)]
    /\ UNCHANGED <<pressed, modifier, focus, text>>

Down(c) ==
    /\ \/ Begins(c, "down") /\ pressed' = TRUE
       \/ Begins(c, "rightDown") /\ UNCHANGED pressed
    /\ focus' = IF pointer \in Field THEN pointer ELSE None
    /\ Done(c)
    /\ UNCHANGED <<pointer, modifier, text>>
Up(c) ==
    /\ \/ Begins(c, "up") /\ pressed' = FALSE
       \/ Begins(c, "rightUp") /\ UNCHANGED pressed
    /\ Done(c)
    /\ UNCHANGED <<pointer, modifier, focus, text>>
KeepDown(c) ==
    /\ Begins(c, "hold") /\ Done(c)
    /\ UNCHANGED <<pointer, pressed, modifier, focus, text>>

(* Keys go to the focused field; with a modifier down they write nothing.  *)
Writes == focus # None /\ ~modifier
Held(s) == SubSeq(s, 1, IF Len(s) > Length THEN Length + 1 ELSE Len(s))
Type(c) ==
    /\ \/ Begins(c, "selectAll") /\ UNCHANGED text
       \/ Begins(c, "erase") /\ text' = IF Writes THEN [text EXCEPT ![focus] = <<>>] ELSE text
       \/ Begins(c, "type") /\ text' = IF Writes THEN [text EXCEPT ![focus] = Held(Append(@, c))] ELSE text
    /\ Done(c)
    /\ UNCHANGED <<pointer, pressed, modifier, focus>>

(* human_press_keys: the modifiers go down, the key is pressed, they come  *)
(* up; a key that is not known ends the call where it stands.              *)
Press(c) ==
    /\ \/ Begins(c, "modDown") /\ modifier' = TRUE /\ Done(c)
       \/ Begins(c, "key") /\ UNCHANGED modifier /\ Done(c)
       \/ Begins(c, "badKey") /\ UNCHANGED modifier /\ Fails(c)
       \/ Begins(c, "modUp") /\ modifier' = FALSE /\ Done(c)
    /\ UNCHANGED <<pointer, pressed, focus, text>>

(* The page moves under the mouse, and away from where others measured.    *)
Wheel(c) ==
    /\ Begins(c, "wheel") /\ pointer' = None
    /\ call' = [x \in Call |-> [call[x] EXCEPT !.aim = None, !.to = None,
                                                !.todo = IF x = c THEN Tail(@) ELSE @]]
    /\ UNCHANGED <<pressed, modifier, focus, text>>

End(c) ==
    /\ call[c].at = "running" /\ call[c].todo = <<>>
    /\ call' = [call EXCEPT ![c] = [Free EXCEPT !.at = "ended"]]
    /\ UNCHANGED <<pointer, pressed, modifier, focus, text>>
Again(c) ==
    /\ call[c].at \in {"ended", "failed"} /\ Running = {}
    /\ call' = [call EXCEPT ![c] = Free]
    /\ UNCHANGED <<pointer, pressed, modifier, focus, text>>

Next == \E c \in Call :
    \/ Fill(c) \/ Click(c) \/ Hold(c) \/ Drag(c) \/ Select(c) \/ Scroll(c) \/ Keys(c)
    \/ ClickAt(c) \/ DragAt(c) \/ TypeAt(c) \/ ForceClick(c) \/ Aim(c) \/ Glide(c) \/ Down(c) \/ Up(c)
    \/ KeepDown(c) \/ Type(c) \/ Press(c) \/ Wheel(c) \/ End(c) \/ Again(c)
Spec == Init /\ [][Next]_vars

-----------------------------------------------------------------------------
(* A fill that shared the page with no other call, and found no key held   *)
(* down, leaves its field holding its text and nothing else, whatever      *)
(* calls came before (fill_field: click, select all, delete, type).        *)
Filled(c) == text[call[c].field] = [i \in 1..Length |-> c]
FilledAsAsked ==
    [][(\A c \in Call : call[c].at = "running" /\ call'[c].at = "ended" /\ call[c].field # None
            /\ call[c].alone => Filled(c))]_vars

(* "finally releases modifiers in reverse order": no modifier key is down  *)
(* once the calls are over (human_press_keys).                             *)
ModifiersAreReleased == Running = {} => ~modifier

(* A fill's text is in its field when it returns.                          *)
TextGoesToItsField ==
    [][(\A c \in Call : call[c].at = "running" /\ call'[c].at = "ended" /\ call[c].field # None
            => Filled(c))]_vars
=============================================================================
