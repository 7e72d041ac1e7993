------------------------------- MODULE PageInput -------------------------------
(***************************************************************************)
(* What the user does to the page shown (src/src/main.rs): pointer, keys   *)
(* and input method, the focus and hover they move, composition events,    *)
(* forms, frames, and what of it is painted.  Tabs, history and scrolling  *)
(* are those of BrowserTabs.  Listeners run inside a handler: what they    *)
(* decide (prevent, mutate) is chosen where the handler reads it.          *)
(***************************************************************************)
EXTENDS Integers, Sequences

CONSTANTS
  Node, Role,    \* Role[n]: what the first link, control or field at or above n is
  Form,          \* the nodes with a form around them
  Sandboxed,     \* the frames with a sandbox attribute
  MaxTyped, MaxEvents   \* bounds: characters of a text, events

Bounds == {MaxTyped, MaxEvents} \subseteq Nat

NoNode == "none"
Roles == {"link", "submit", "control", "text", "plain", "frame"}
Frame == {n \in Node : Role[n] = "frame"}
Field == {n \in Node : Role[n] = "text"}
Address == "address"
OwnSrc == "src"       \* what a frame shows: its src, a document reached from there, nothing
Deeper == "deeper"
Blank == "blank"

VARIABLE ui
(* ui.focused: the address bar has the keys; ui.find,
   .devtools: what is open; ui.focus, .hover, .preedit (nodes), .inputs (lengths), .frames: of
   the page; ui.ime: the window takes input-method text; ui.painted: what the pixmap shows.
   History: ui.events, the composition events the focused node got since it has the focus. *)

Fresh(frames) ==
  [focus |-> NoNode, hover |-> NoNode, frames |-> frames]

\* What may be in the frames once they are laid out: of each its src, or nothing.
Rendered == {f \in [Frame -> {OwnSrc, Blank}] : TRUE}

Page(u, frames) ==
  [u EXCEPT !.focused = FALSE, !.focus = NoNode, !.hover = NoNode,
            !.preedit = {}, !.inputs = [n \in Field |-> 0], !.frames = frames,
            !.painted = Fresh(frames), !.events = <<>>]

Init ==
  \E frames \in Rendered :
    ui = [focused |-> FALSE, find |-> FALSE, devtools |-> FALSE, query |-> 0,
          command |-> 0, address |-> 0, focus |-> NoNode, hover |-> NoNode, preedit |-> {},
          inputs |-> [n \in Field |-> 0], frames |-> frames, ime |-> FALSE,
          painted |-> Fresh(frames), events |-> <<>>]

\* recascade_and_paint: styles for the hover and focus of now, then the frames over them.
recascade_and_paint(u) ==
  [u EXCEPT !.painted = [focus |-> u.focus, hover |-> u.hover, frames |-> u.frames]]

\* recascade_and_paint after listeners, when they changed the number of nodes.
AfterListeners(u, mutated) == IF mutated THEN recascade_and_paint(u) ELSE u

set_focus(u, n) ==
  IF u.focus = n THEN u
  ELSE recascade_and_paint([u EXCEPT !.ime = (n \in Field), !.focus = n, !.preedit = {},
                                     !.events = <<>>])

\* The page stays when the navigation fails.
Navigated(u) == {u} \cup {Page(u, frames) : frames \in Rendered}

\* submit_form_from, the method's answer included: without a form nothing happens.
Submitted(u, n) == IF n \in Form THEN Navigated(u) ELSE {u}

----------------------------------------------------------------------------
(* The pointer. *)

\* The page takes the click: the address bar loses the keys.
Clicked == [ui EXCEPT !.focused = FALSE]

\* click_at in the chrome.
ClickAddress == ui' = [ui EXCEPT !.focused = TRUE]

\* click_at where no node is.
ClickNowhere == ui' = Clicked

\* click_at on a node: pointer, touch and click events, then the default action.
ClickNode(n, prevented, mutated) ==
  LET u == AfterListeners(Clicked, mutated)
      nothing == IF u.focus = NoNode THEN u
                 ELSE recascade_and_paint([u EXCEPT !.focus = NoNode, !.events = <<>>])
  IN CASE prevented \/ Role[n] \in {"plain", "frame"} -> ui' = nothing
       [] ~prevented /\ Role[n] = "link" -> ui' \in Navigated(u)
       [] ~prevented /\ Role[n] = "submit" -> ui' \in Submitted(u, n)
       [] OTHER -> ui' = set_focus(u, n)

\* try_handle_iframe_click on a link inside: the frame alone goes there, when it may and can.
ClickInFrame(n) ==
  /\ ui.frames[n] # Blank
  /\ \/ ui' = Clicked
     \/ /\ n \notin Sandboxed
        /\ ui' = [Clicked EXCEPT !.frames[n] = Deeper, !.painted.frames[n] = Deeper]

\* update_hover: the node under the pointer, NoNode in the chrome.
MovePointer(n) ==
  ui' = IF ui.hover = n THEN ui ELSE recascade_and_paint([ui EXCEPT !.hover = n])

\* Resized: re_layout loads every frame from its src again.
Resize == \E frames \in Rendered : ui' = [ui EXCEPT !.frames = frames, !.painted.frames = frames]

----------------------------------------------------------------------------
(* Keys. *)

ToggleFind == ui' = [ui EXCEPT !.find = ~@, !.query = 0]
ToggleDevtools == ui' = [ui EXCEPT !.devtools = ~@]
FocusAddress == ui' = [ui EXCEPT !.focused = TRUE, !.address = 0]

Typed(n) == IF n < MaxTyped THEN n + 1 ELSE n
\* Mutant of Popped: an empty text loses a character.
PoppedAlways(n) == n - 1

Popped(n) == IF n > 0 THEN n - 1 ELSE n

\* handle_devtools_key, handle_find_key, handle_chrome_key.
DevtoolsKey(key) ==
  /\ ui.devtools
  /\ ui' = CASE key = "char" -> [ui EXCEPT !.command = Typed(@)]
             [] key = "Backspace" -> [ui EXCEPT !.command = Popped(@)]
             [] key = "Enter" -> [ui EXCEPT !.command = 0]
             [] key = "Escape" -> [ui EXCEPT !.devtools = FALSE]
FindKey(key) ==
  /\ ~ui.devtools /\ ui.find
  /\ ui' = CASE key = "char" -> [ui EXCEPT !.query = Typed(@)]
             [] key = "Backspace" -> [ui EXCEPT !.query = Popped(@)]
             [] key = "Enter" -> ui
             [] key = "Escape" -> [ui EXCEPT !.find = FALSE]
ChromeKey(key) ==
  /\ ~ui.devtools /\ ~ui.find /\ ui.focused
  /\ CASE key = "char" -> ui' = [ui EXCEPT !.address = Typed(@)]
       [] key = "Backspace" -> ui' = [ui EXCEPT !.address = Popped(@)]
       [] key = "Escape" -> ui' = [ui EXCEPT !.focused = FALSE]
       [] key = "Enter" /\ ui.address = 0 -> ui' = [ui EXCEPT !.focused = FALSE]
       [] OTHER -> ui' \in Navigated([ui EXCEPT !.focused = FALSE])

\* handle_key for the page: keydown, and, unless prevented, handle_input_key or handle_page_key.
PageKey(key, prevented, mutated) ==
  /\ ~ui.devtools /\ ~ui.find /\ ~ui.focused
  /\ LET u == AfterListeners(ui, mutated)
         Field1(F(_)) == IF u.focus \in Field THEN [u EXCEPT !.inputs[u.focus] = F(@)] ELSE u
     IN CASE prevented \/ u.focus = NoNode -> ui' = u
          [] ~prevented /\ u.focus # NoNode /\ key = "char" -> ui' = Field1(Typed)
          [] ~prevented /\ u.focus # NoNode /\ key = "Backspace" -> ui' = Field1(Popped)
          [] ~prevented /\ u.focus # NoNode /\ key = "Escape" -> ui' = set_focus(u, NoNode)
          [] OTHER -> ui' \in Submitted(u, u.focus)

----------------------------------------------------------------------------
(* The input method. *)

Room == Len(ui.events) + 2 <= MaxEvents

\* Ime::Preedit with text.
Preedit(mutated) ==
  /\ ui.ime /\ ui.focus # NoNode /\ Room
  /\ LET start == IF ui.focus \in ui.preedit THEN <<>> ELSE <<"start">> IN
     ui' = AfterListeners([ui EXCEPT !.preedit = @ \cup {ui.focus},
                                     !.events = @ \o start \o <<"update">>], mutated)

\* Ime::Preedit without.
PreeditCleared(mutated) ==
  /\ ui.ime /\ ui.focus # NoNode /\ Room
  /\ ui' = IF ui.focus \notin ui.preedit THEN ui
           ELSE AfterListeners([ui EXCEPT !.preedit = @ \ {ui.focus},
                                          !.events = Append(@, "end")], mutated)

\* Ime::Commit: the text goes into the field.
Commit(mutated) ==
  /\ ui.ime /\ ui.focus # NoNode /\ Room
  /\ LET start == IF ui.focus \in ui.preedit THEN <<>> ELSE <<"start">>
         u == [ui EXCEPT !.preedit = @ \ {ui.focus}, !.events = @ \o start \o <<"end">>]
     IN ui' = AfterListeners(
                IF ui.focus \in Field THEN [u EXCEPT !.inputs[ui.focus] = Typed(@)] ELSE u, mutated)

\* Ime::Enabled, Ime::Disabled: what was being composed goes without an event.
SwitchIme ==
  /\ ui.focus # NoNode
  /\ ui' = [ui EXCEPT !.preedit = @ \ {ui.focus}, !.events = <<>>]

Next ==
  \/ ClickAddress \/ ClickNowhere \/ Resize \/ ToggleFind \/ ToggleDevtools \/ FocusAddress
  \/ SwitchIme
  \/ \E n \in Node \cup {NoNode} : MovePointer(n)
  \/ \E n \in Frame : ClickInFrame(n)
  \/ \E mutated \in BOOLEAN :
       \/ Preedit(mutated) \/ PreeditCleared(mutated) \/ Commit(mutated)
       \/ \E n \in Node, prevented \in BOOLEAN : ClickNode(n, prevented, mutated)
  \/ \E key \in {"char", "Backspace", "Enter", "Escape"} :
       \/ DevtoolsKey(key) \/ FindKey(key) \/ ChromeKey(key)
       \/ \E prevented, mutated \in BOOLEAN : PageKey(key, prevented, mutated)

Spec == Init /\ [][Next]_ui

----------------------------------------------------------------------------
(* Properties. *)

TypeOK ==
  /\ ui.focus \in Node \cup {NoNode} /\ ui.hover \in Node \cup {NoNode} /\ ui.preedit \subseteq Node
  /\ ui.inputs \in [Field -> 0..MaxTyped] /\ ui.frames \in [Frame -> {OwnSrc, Deeper, Blank}]

\* Whatever handlers and listeners run, the pixmap is of the focus and hover of now and
\* shows what the frames hold; and a sandboxed frame never leaves its src.  Whether it shows
\* what listeners did to the document is not said: mutated is what the engine tells.
PaintedAsIs ==
  /\ ui.painted.focus = ui.focus /\ ui.painted.hover = ui.hover /\ ui.painted.frames = ui.frames
  /\ \A n \in Frame \cap Sandboxed : ui.frames[n] # Deeper

\* While the focus stays and the method is not switched, the focused node hears a start,
\* updates, an end, and so again.  A focus that moves, or a switch, leaves the start without
\* an end (main.rs 1263-1269, 1638-1644), and the history begins anew.
CompositionsBalanced ==
  \A i \in DOMAIN ui.events :
    IF i = 1 THEN ui.events[i] = "start"
    ELSE /\ ui.events[i] = "start" <=> ui.events[i - 1] = "end"
         /\ ui.events[i] = "update" => ui.events[i - 1] \in {"start", "update"}

==============================================================================
