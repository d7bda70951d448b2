------------------------------ MODULE Overlays ------------------------------
(***************************************************************************)
(* What floats over the page of a document: the menu of its header, the    *)
(* dialog in the page's one slot, a member's menu in the share dialog, the *)
(* command palette, and the key warning that arrives by itself; the shared *)
(* stack that says which of them is on top, and who may hear Escape, open  *)
(* on a shortcut or close when a fade ends.                                *)
(*                                                                         *)
(* Every event is a step, but the keydown of Escape: it is heard by one    *)
(* listener after the other, and React may or may not clean up after one   *)
(* before the next. Where the focus goes, and leaving the page, are left   *)
(* out.                                                                    *)
(***************************************************************************)
EXTENDS Integers, Sequences, FiniteSets, Functions

CONSTANT MaxFades  \* bound: fades under way when another starts

ASSUME OverlaysAssumption == MaxFades \in Nat

VARIABLES
  layers,      \* floatingLayers: the ids of what is open, the topmost last
  openMenus, renderedMenus,
  activeModal, \* what is in the page's slot
  keyReady,    \* the page has the key the share dialog needs
  paletteOpen,
  keyWarning,  \* whether one is shown
  closing,     \* the dialogs that fade out: closingRef
  fades,       \* the timers of requestClose, and whether their dialog is gone
  escape,      \* the listeners that have yet to hear the key
  unpopped,    \* menus that closed and were not cleaned up after
  asked,       \* history: the layers the user asked to close, or acted on, last
  remounted    \* history: the share dialog came back when its key did

overlayVars == <<layers, openMenus, renderedMenus, activeModal, keyReady, paletteOpen,
                 keyWarning, closing, fades, escape, unpopped, asked, remounted>>

Menu == {"menu", "memberMenu"}
Dialog == {"page", "palette", "warning"}
PageModal == {"share", "shortcuts-help", "delete"}

SlotShown(modal, ready) == modal # "none" /\ (modal = "share" => ready)
OpenDialogs(modal, ready, palette, warning) ==
  {d \in Dialog : \/ d = "page" /\ SlotShown(modal, ready)
                  \/ d = "palette" /\ palette
                  \/ d = "warning" /\ warning}
Shown == OpenDialogs(activeModal, keyReady, paletteOpen, keyWarning) \cup openMenus

OverlaysTypeOK ==
  /\ activeModal \in PageModal \cup {"none"} /\ {keyReady, paletteOpen, keyWarning, remounted} \subseteq BOOLEAN
  /\ openMenus \subseteq renderedMenus /\ renderedMenus \subseteq Menu
  /\ "memberMenu" \in openMenus => activeModal = "share" /\ keyReady
  /\ IsInjective(layers) /\ Range(layers) = Shown \cup unpopped
  /\ closing \subseteq Shown \cap Dialog
  /\ Len(fades) <= MaxFades + 1 /\ closing = {f.of : f \in {f \in Range(fades) : ~f.gone}}
  /\ Range(escape) \subseteq Range(layers) /\ unpopped \subseteq Menu /\ asked \subseteq Menu \cup Dialog

OverlaysInit ==
  /\ layers = <<>> /\ openMenus = {} /\ renderedMenus = {}
  /\ activeModal = "none" /\ keyReady = TRUE /\ paletteOpen = FALSE /\ keyWarning = FALSE
  /\ closing = {} /\ fades = <<>> /\ escape = <<>> /\ unpopped = {}
  /\ asked = {} /\ remounted = FALSE
-----------------------------------------------------------------------------
(* The layers of s that are in X, in their order.                          *)
Kept(s, X) ==
  LET upTo[i \in 0 .. Len(s)] ==
        IF i = 0 THEN <<>> ELSE IF s[i] \in X THEN Append(upTo[i - 1], s[i]) ELSE upTo[i - 1]
  IN upTo[Len(s)]

Topmost == layers[Len(layers)]
IsTopLayer(l) == layers # <<>> /\ Topmost = l
HasAnyLayer == layers # <<>>
HeardOut == escape = <<>> /\ unpopped = {}

(* React renders: what is gone is popped, what is new pushed; a dialog     *)
(* that is unmounted leaves the timer of its fade behind.                  *)
Render(opened, modal, ready, palette, warning, timers) ==
  LET gone == IF modal = "share" /\ ready THEN {} ELSE {"memberMenu"}
      menus == opened \ gone
      shown == OpenDialogs(modal, ready, palette, warning) \cup menus
      kept == Kept(layers, shown)
      new == shown \ Range(kept)
  IN /\ openMenus' = menus /\ renderedMenus' = (renderedMenus \cup menus) \ gone
     /\ activeModal' = modal /\ keyReady' = ready /\ paletteOpen' = palette /\ keyWarning' = warning
     /\ \E pushed \in Bijection(1 .. Cardinality(new), new) : layers' = kept \o pushed
     /\ closing' = closing \cap shown
     /\ fades' = [i \in DOMAIN timers |-> [timers[i] EXCEPT !.gone = @ \/ timers[i].of \notin shown]]
     /\ UNCHANGED <<escape, unpopped>>

(* requestClose of a Modal, once.                                          *)
RequestClose(d) ==
  IF d \in closing THEN UNCHANGED <<closing, fades>>
  ELSE closing' = closing \cup {d} /\ fades' = Append(fades, [of |-> d, gone |-> FALSE])

(* The topmost dialog covers what is under it: only what is above its      *)
(* overlay can be clicked.                                                 *)
Clickable(l) == \A i, j \in DOMAIN layers : layers[i] = l /\ j > i => layers[j] \notin Dialog
PageClickable == \A d \in Dialog : d \notin Range(layers)
-----------------------------------------------------------------------------
(* Escape is pressed: every layer has a listener on the document, added    *)
(* when the layer was pushed.                                              *)
PressEscape ==
  /\ HeardOut /\ layers # <<>> /\ Len(fades) <= MaxFades
  /\ escape' = layers /\ asked' = {Topmost}
  /\ UNCHANGED <<layers, openMenus, renderedMenus, activeModal, keyReady, paletteOpen, keyWarning,
                 closing, fades, unpopped, remounted>>

(* closeMenu                                                               *)
CloseOnEscape(m) ==
  /\ openMenus' = openMenus \ {m}
  /\ \/ layers' = Kept(layers, (Menu \cup Dialog) \ {m}) /\ UNCHANGED unpopped
     \/ unpopped' = unpopped \cup {m} /\ UNCHANGED layers
  /\ UNCHANGED <<closing, fades>>

Hears(l) == IF l \in Menu THEN CloseOnEscape(l)
            ELSE RequestClose(l) /\ UNCHANGED <<openMenus, layers, unpopped>>

(* Mutant: a layer closes without asking whether it is on top.             *)
EveryoneHears ==
  /\ escape # <<>> /\ escape' = Tail(escape)
  /\ Hears(Head(escape))
  /\ UNCHANGED <<renderedMenus, activeModal, keyReady, paletteOpen, keyWarning, asked, remounted>>

HandleEscape ==
  /\ escape # <<>> /\ escape' = Tail(escape)
  /\ IF IsTopLayer(Head(escape)) THEN Hears(Head(escape))
     ELSE UNCHANGED <<openMenus, layers, unpopped, closing, fades>>
  /\ UNCHANGED <<renderedMenus, activeModal, keyReady, paletteOpen, keyWarning, asked, remounted>>

(* React cleans up after a menu: at the latest when the event is over.     *)
PopClosed ==
  /\ escape = <<>> /\ unpopped # {}
  /\ layers' = Kept(layers, (Menu \cup Dialog) \ unpopped) /\ unpopped' = {}
  /\ UNCHANGED <<openMenus, renderedMenus, activeModal, keyReady, paletteOpen, keyWarning, closing,
                 fades, escape, asked, remounted>>

(* useDelayedVisibility: the menu has faded.                               *)
MenuFaded(m) ==
  /\ HeardOut /\ m \in renderedMenus \ openMenus
  /\ renderedMenus' = renderedMenus \ {m}
  /\ UNCHANGED <<layers, openMenus, activeModal, keyReady, paletteOpen, keyWarning, closing, fades,
                 escape, unpopped, asked, remounted>>

(* The trigger of a menu. The press is outside of the other menu.          *)
ClickTrigger(m) ==
  /\ HeardOut
  /\ IF m = "menu" THEN PageClickable ELSE activeModal = "share" /\ keyReady /\ Clickable("page")
  /\ Render(IF m \in openMenus THEN {} ELSE {m}, activeModal, keyReady, paletteOpen, keyWarning, fades)
  /\ asked' = openMenus /\ UNCHANGED remounted

(* An item of a menu; those of the header's may open a dialog.             *)
ClickItem(m, modal) ==
  /\ HeardOut /\ m \in openMenus /\ Clickable(m)
  /\ modal # activeModal => m = "menu" /\ modal \in {"shortcuts-help", "delete"}
  /\ Render({}, modal, keyReady, paletteOpen, keyWarning, fades)
  /\ asked' = openMenus /\ UNCHANGED remounted

(* The overlay around the card of a dialog, or what calls useModalClose in *)
(* it: outside of a menu in it, which closes too.                          *)
ClickOverlay(d) ==
  /\ HeardOut /\ Len(fades) <= MaxFades
  /\ d \in Range(layers) /\ Clickable(d)
  /\ RequestClose(d)
  /\ openMenus' = {} /\ layers' = Kept(layers, Dialog)
  /\ asked' = openMenus \cup {d}
  /\ UNCHANGED <<renderedMenus, activeModal, keyReady, paletteOpen, keyWarning, escape, unpopped, remounted>>

(* The fade of a dialog ends: onClose closes what is open in its place. A  *)
(* warning is closed by its user, so that a later one stays.               *)
FadeEnds ==
  /\ HeardOut /\ fades # <<>>
  /\ LET fade == Head(fades)
     IN Render(openMenus, IF fade.of = "page" THEN "none" ELSE activeModal, keyReady,
               paletteOpen /\ fade.of # "palette",
               keyWarning /\ (fade.of # "warning" \/ fade.gone), Tail(fades))
  /\ UNCHANGED <<asked, remounted>>
-----------------------------------------------------------------------------
(* Ctrl+K: the palette closes wherever it is, and opens over nothing.      *)
PressPaletteShortcut ==
  /\ HeardOut
  /\ Render(openMenus, activeModal, keyReady, IF paletteOpen THEN FALSE ELSE ~HasAnyLayer, keyWarning, fades)
  /\ asked' = {"palette"} /\ UNCHANGED remounted

(* Ctrl+/ and Ctrl+Shift+S, of useGlobalShortcuts.                         *)
(* Mutant: they open over what is open.                                    *)
OpenOverAnything(modal) ==
  /\ HeardOut /\ modal \in {"share", "shortcuts-help"}
  /\ Render(openMenus, modal, keyReady, paletteOpen, keyWarning, fades)
  /\ asked' = {} /\ UNCHANGED remounted

PressModalShortcut(modal) ==
  /\ HeardOut /\ ~HasAnyLayer /\ modal \in {"share", "shortcuts-help"}
  /\ Render(openMenus, modal, keyReady, paletteOpen, keyWarning, fades)
  /\ asked' = {} /\ UNCHANGED remounted

(* The header's share button, a comment's delete.                          *)
ClickInPage(modal) ==
  /\ HeardOut /\ PageClickable /\ modal \in {"share", "delete"}
  /\ Render({}, modal, keyReady, paletteOpen, keyWarning, fades)
  /\ asked' = openMenus /\ UNCHANGED remounted

(* runEntry: the palette closes at once, its entry may open the dialog.    *)
RunEntry(modal) ==
  /\ HeardOut /\ IsTopLayer("palette") /\ modal \in {"share", activeModal}
  /\ Render(openMenus, modal, keyReady, FALSE, keyWarning, fades)
  /\ asked' = {"palette", "page"} /\ UNCHANGED remounted

(* handleConfirmDeleteDocument, handleConfirmDeleteComment: closed at once.*)
ConfirmDelete ==
  /\ HeardOut /\ activeModal = "delete" /\ Clickable("page")
  /\ Render(openMenus, "none", keyReady, paletteOpen, keyWarning, fades)
  /\ asked' = {"page"} /\ UNCHANGED remounted

(* handleShareKeyRotated: the dialog that removed a member goes, for as    *)
(* long as the page has no key.                                            *)
KeyRotated ==
  /\ HeardOut /\ activeModal = "share" /\ keyReady
  /\ Render(openMenus, activeModal, FALSE, paletteOpen, keyWarning, fades)
  /\ asked' = {"page", "memberMenu"} /\ UNCHANGED remounted

KeyFetched ==
  /\ HeardOut /\ ~keyReady
  /\ Render(openMenus, activeModal, TRUE, paletteOpen, keyWarning, fades)
  /\ remounted' = (activeModal = "share") /\ asked' = {}

(* useKeyConflicts finds a changed key, whatever is open.                  *)
WarnOfKey ==
  /\ HeardOut /\ ~keyWarning /\ keyReady
  /\ Render(openMenus, activeModal, keyReady, paletteOpen, TRUE, fades)
  /\ asked' = {} /\ UNCHANGED remounted

TrustWarnedKey ==
  /\ HeardOut /\ keyWarning /\ Clickable("warning")
  /\ Render(openMenus, activeModal, keyReady, paletteOpen, FALSE, fades)
  /\ asked' = {"warning"} /\ UNCHANGED remounted

OverlaysNext ==
  \/ PressEscape \/ HandleEscape \/ PopClosed \/ FadeEnds \/ PressPaletteShortcut
  \/ \E m \in Menu : \/ MenuFaded(m) \/ ClickTrigger(m)
                     \/ \E modal \in {activeModal, "shortcuts-help", "delete"} : ClickItem(m, modal)
  \/ \E d \in Dialog : ClickOverlay(d)
  \/ \E modal \in PageModal : PressModalShortcut(modal) \/ ClickInPage(modal)
  \/ \E modal \in {"share", activeModal} : RunEntry(modal)
  \/ ConfirmDelete \/ KeyRotated \/ KeyFetched \/ WarnOfKey \/ TrustWarnedKey

OverlaysSpec == OverlaysInit /\ [][OverlaysNext]_overlayVars
-----------------------------------------------------------------------------
(* A layer closes, or begins to fade, only when the user asked for it: by  *)
(* Escape the one that was on top and no other, however many listen; by a  *)
(* click or a shortcut the one it was meant for. Exceptions: a fade whose  *)
(* own dialog was closed at once in the meantime, and a removal that takes *)
(* the share dialog's key away.                                            *)
ClosesOnlyWhenAsked ==
  [][\A l \in Menu \cup Dialog :
       l \in Shown \ closing /\ (l \notin Shown' \/ l \in closing')
         => \/ l \in asked'
            \/ l = "memberMenu" /\ "page" \in closing
            \/ /\ fades # <<>> /\ Head(fades).gone
               /\ \/ l = Head(fades).of
                  \/ l = "memberMenu" /\ Head(fades).of = "page"]_overlayVars

(* Of the header's menu, the page's dialog and the palette never two are   *)
(* open, however fast the shortcuts follow the fades, but when the share   *)
(* dialog comes back with its key.                                         *)
NothingIsStacked == ~remounted => Cardinality({"menu", "page", "palette"} \cap Shown) <= 1
=============================================================================
