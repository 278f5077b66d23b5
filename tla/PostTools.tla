------------------------------ MODULE PostTools ------------------------------
(***************************************************************************)
(* The tools of the posts of a thread: the menu behind the arrow of every   *)
(* post (Post.svelte, PostMenu.svelte), which is closed when it loses the   *)
(* focus, and the dialogs for reports, deletions and bans that the posts of *)
(* a thread share (Thread.svelte, the modal components).                    *)
(***************************************************************************)
EXTENDS Naturals, FiniteSets

CONSTANTS
  Posts,
  NoPost,
  MaxActions   \* bound: requests of the dialogs under way

VARIABLES
  role,          \* moderatorUserStore is not null
  showDropdown,  \* the posts whose menu is open
  focusTimers,   \* the posts whose menu is to be focused by a timer
  focused,       \* the post whose menu has the focus
  target,        \* setPostId of each dialog
  visible,       \* dialogs that are shown
  options,       \* banImages and permanent, and whether there is a category
  actions        \* their requests under way

toolsVars == <<showDropdown, focusTimers, focused, target, visible, options,
               actions>>

(* The dialogs of a thread; the menu offers two of them to a moderator only. *)
Kinds == {"report", "delete", "ban"}
Offered(k) == k \in {"delete", "ban"} => role

TypeOK ==
  /\ showDropdown \subseteq Posts /\ focusTimers \subseteq Posts
  /\ focused \in Posts \union {NoPost}
  /\ target \in [Kinds -> Posts \union {NoPost}]
  /\ visible \subseteq Kinds /\ options \subseteq Kinds
  /\ actions \subseteq [n : 1..MaxActions, kind : Kinds, post : Posts]

Init ==
  /\ role \in BOOLEAN
  /\ showDropdown = {} /\ focusTimers = {} /\ focused = NoPost
  /\ target = [k \in Kinds |-> NoPost]
  /\ visible = {} /\ options = {} /\ actions = {}

(* The posts are unmounted, with their dialogs. *)
Unmounted ==
  /\ showDropdown' = {} /\ focusTimers' = {} /\ focused' = NoPost
  /\ target' = [k \in Kinds |-> NoPost]
  /\ visible' = {} /\ options' = {} /\ actions' = {}

(* A menu that loses the focus is closed. *)
OpenAfterBlur == showDropdown \ {focused}

\* Mutant of ClickArrow: the menu is opened without the focus.
ClickArrowOnly(p) ==
  /\ visible = {}
  /\ focused' = NoPost
  /\ showDropdown' = IF p \in OpenAfterBlur THEN OpenAfterBlur \ {p}
                                            ELSE OpenAfterBlur \union {p}
  /\ UNCHANGED <<focusTimers, target, visible, options, actions>>

(* The button goes down, which takes the focus from any menu; then the      *)
(* click toggles the menu of this post, and a timer focuses it if it is     *)
(* open.  An arrow whose menu was open and focused thus opens it again.     *)
ClickArrow(p) ==
  /\ visible = {}
  /\ focused' = NoPost
  /\ IF p \in OpenAfterBlur
       THEN showDropdown' = OpenAfterBlur \ {p} /\ UNCHANGED focusTimers
       ELSE /\ showDropdown' = OpenAfterBlur \union {p}
            /\ focusTimers' = focusTimers \union {p}
  /\ UNCHANGED <<target, visible, options, actions>>

(* menu.focus(): a menu that is hidden does not take the focus, one behind  *)
(* a dialog has to give it back.                                            *)
FocusTimer(p) ==
  /\ p \in focusTimers
  /\ focusTimers' = focusTimers \ {p}
  /\ IF p \notin showDropdown THEN UNCHANGED <<showDropdown, focused>>
     ELSE IF visible # {}
       THEN showDropdown' = showDropdown \ {p} /\ UNCHANGED focused
       ELSE focused' = p /\ showDropdown' = OpenAfterBlur \union {p}
  /\ UNCHANGED <<target, visible, options, actions>>

(* Escape, or a click elsewhere. *)
Blur ==
  /\ focused # NoPost
  /\ focused' = NoPost /\ showDropdown' = OpenAfterBlur
  /\ UNCHANGED <<focusTimers, target, visible, options, actions>>

\* Mutant of SetTarget: the post is not stored.
SetTargetNever(k, p) == target' = target

SetTarget(k, p) == target' = [target EXCEPT ![k] = p]

(* An item of an open menu: the event reaches Thread's postAction and       *)
(* showModal; the click and then the dialog take the focus.                 *)
Choose(p, k) ==
  /\ visible = {} /\ p \in showDropdown /\ Offered(k)
  /\ SetTarget(k, p)
  /\ visible' = {k}
  /\ focused' = NoPost /\ showDropdown' = OpenAfterBlur \ {p}
  /\ UNCHANGED <<focusTimers, options, actions>>

Used == {a.n : a \in actions}

Send(k) ==
  /\ k \in visible
  /\ \E n \in 1..MaxActions \ Used :
       /\ 1..(n - 1) \subseteq Used
       /\ actions' = actions \union {[n |-> n, kind |-> k, post |-> target[k]]}
  /\ UNCHANGED <<showDropdown, focusTimers, focused, target, visible, options>>

(* Without a category sendReport throws before it sends anything.  None of  *)
(* the three is kept from sending again while its request is under way.     *)
SendReport == "report" \in options /\ Send("report")
DeletePost == Send("delete")
SendBan    == Send("ban")

SetOption(k, chosenOptions) ==
  /\ k \in visible
  /\ options' = chosenOptions
  /\ UNCHANGED <<showDropdown, focusTimers, focused, target, visible, actions>>

(* A category once selected stays, and so do the ticks of the other two     *)
(* dialogs, for the next post too.                                          *)
SelectCategory == "report" \notin options
                    /\ SetOption("report", options \union {"report"})
Ticked(k) == IF k \in options THEN options \ {k} ELSE options \union {k}
TickBanImages == SetOption("delete", Ticked("delete"))
TickPermanent == SetOption("ban", Ticked("ban"))

CloseDialog(k) ==
  /\ k \in visible
  /\ visible' = visible \ {k}
  /\ UNCHANGED <<showDropdown, focusTimers, focused, target, options, actions>>

(* Whatever the server answered, the dialog of that kind is hidden, also    *)
(* one that was opened for another post since.                              *)
ActionAnswered(a) ==
  /\ actions' = actions \ {a}
  /\ visible' = visible \ {a.kind}
  /\ UNCHANGED <<showDropdown, focusTimers, focused, target, options>>

(* fetch rejects: the dialog stays. *)
ActionFails(a) ==
  /\ actions' = actions \ {a}
  /\ UNCHANGED <<showDropdown, focusTimers, focused, target, visible, options>>

User ==
  \/ \E p \in Posts : ClickArrow(p)
  \/ \E p \in Posts, k \in Kinds : Choose(p, k)
  \/ SendReport \/ DeletePost \/ SendBan
  \/ SelectCategory \/ TickBanImages \/ TickPermanent
  \/ \E k \in Kinds : CloseDialog(k)
  \/ Blur

Works ==
  \/ \E p \in Posts : FocusTimer(p)
  \/ \E a \in actions : ActionAnswered(a) \/ ActionFails(a)

Next == (User \/ Works \/ Unmounted) /\ UNCHANGED role

Spec == Init /\ [][Next]_<<toolsVars, role>>

(* A menu that is open has the focus or is about to get it, so that it will *)
(* close when the user turns elsewhere; no two menus stay open.             *)
OpenMenuHasFocus ==
  /\ \A p \in showDropdown : p = focused \/ p \in focusTimers
  /\ focusTimers = {} => Cardinality(showDropdown) <= 1

=============================================================================
