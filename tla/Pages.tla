------------------------------- MODULE Pages --------------------------------
(***************************************************************************)
(* The pages of the web console (apps/web/src/pages) that show what the    *)
(* API answered and ask it for changes, in one tab of a browser, with the  *)
(* client they share (apps/web/src/lib/api-client.ts).                     *)
(*                                                                         *)
(* A page holds a picture of the API's state, which its load() replaces.   *)
(* Nothing orders the loads of a page: the one it starts when it opens,    *)
(* those of its timer, of its Refresh button and after each action are     *)
(* all under way at the same time, and whichever answer comes last stays.  *)
(* Going to another page stops none of them, it only drops their answers.  *)
(*                                                                         *)
(* Abstracted: the state of the API is its version, which every action     *)
(* moves on; the GETs of one load are one request, which reads one         *)
(* version; so are the checks of the token that precede them.  The console *)
(* page is module LiveStream, here "elsewhere"; dialogues, notices, forms  *)
(* and the opt-in automatic login of a development build are left out.     *)
(***************************************************************************)
EXTENDS Integers, FiniteSets

CONSTANTS
  Subjects,    \* what a page can be about: servers, players, searches, rows
  NoSubject,   \* of a page that shows everything
  Slots,       \* bound: requests of the tab under way at a time
  MaxChanges,  \* bound: changes of the API's state
  MaxMoves,    \* bound: what the operator does besides asking for changes
  MaxFails    \* bound: requests that fail or are refused

ASSUME PagesAssumption ==
  /\ NoSubject \notin Subjects /\ Subjects \cap {"form", "page"} = {}
  /\ IsFiniteSet(Slots)
  /\ MaxChanges \in Nat /\ MaxMoves \in Nat /\ MaxFails \in Nat

-----------------------------------------------------------------------------
(* The pages.                                                               *)

\* Something a page asks the API for: the buttons among which the page marks
\* the one in use, disabled until all is done, and whether load() follows the
\* answer.
Deed(buttons, reload) == [buttons |-> buttons, reload |-> reload]

SaveRealm == Deed(Subjects, TRUE)
DeleteUser == Deed({}, TRUE)
AddUser == Deed({"form"}, TRUE)
EmergencyStop == Deed({"page"}, TRUE)

\* What a page can be about, whether it checks the token before its first load,
\* which it gives up when it is left by then, and what can be done there.
Dashboard ==
  [about |-> {NoSubject}, enters |-> FALSE, deeds |-> {Deed({}, TRUE), Deed({}, FALSE)}]
Worlds == [about |-> {NoSubject}, enters |-> FALSE, deeds |-> {Deed(Subjects, TRUE)}]
Settings ==
  [about |-> {NoSubject}, enters |-> FALSE,
   deeds |-> {SaveRealm, DeleteUser, AddUser, EmergencyStop}]
ServerOpsRoom ==
  [about |-> Subjects, enters |-> TRUE,
   deeds |-> {Deed({}, TRUE), Deed({}, FALSE), Deed({"form"}, TRUE)}]
Diagnostics == [about |-> Subjects, enters |-> FALSE, deeds |-> {Deed({}, TRUE)}]
PlayersList == [about |-> Subjects, enters |-> TRUE, deeds |-> {}]
PlayerProfile == [about |-> Subjects, enters |-> TRUE, deeds |-> {Deed({}, TRUE)}]
Plugins == [about |-> {NoSubject}, enters |-> FALSE, deeds |-> {Deed({"page"}, FALSE)}]
SetupWizard ==
  [about |-> {NoSubject}, enters |-> FALSE,
   deeds |-> {Deed({"page"}, TRUE), Deed({"page"}, FALSE), Deed({}, FALSE)}]

site ==
  [dashboard |-> Dashboard, worlds |-> Worlds, settings |-> Settings,
   room |-> ServerOpsRoom, diagnostics |-> Diagnostics, players |-> PlayersList,
   profile |-> PlayerProfile, plugins |-> Plugins, setup |-> SetupWizard]
PageNames ==
  {"dashboard", "worlds", "settings", "room", "diagnostics", "players", "profile",
   "plugins", "setup"}
Refreshable == {"dashboard", "worlds", "settings", "room", "diagnostics"}

VARIABLES
  open,      \* the page of the tab, "login" or "elsewhere"
  subject,   \* what it is about: an id, a gamertag, a query
  picture,   \* what it shows, and how old that is
  busy,      \* the buttons it marks as in use
  auto,      \* diagnostics.tsx autoRefresh
  asks,      \* the requests under way
  signedIn,  \* the session storage holds a token
  present,   \* the version of the API's state
  promised,  \* history: the version of the latest change the page must show
  moves, fails

shows == <<open, subject, picture, auto>>
tab == <<shows, busy>>
bounds == <<moves, fails>>
pagesVars == <<tab, asks, signedIn, present, promised, bounds>>

Blank == [of |-> NoSubject, version |-> 0]

\* A change is asked for, sent and answered; a load enters (the first of some
\* pages), is checked (its token), reading (sent) and read (answered).
Steps == {"free", "asking", "sent", "answered", "entering", "checking", "reading", "read"}
ButtonSets == {{}, Subjects, {"form"}, {"page"}}
Versions == 0..MaxChanges

\* A request: who marked which buttons for it, whether a load follows, what it
\* is about, the version its load read, the change it follows, and whether the
\* page it belongs to is still there.
Asks == [step : Steps, buttons : ButtonSets, reload : BOOLEAN,
         of : Subjects \cup {NoSubject}, version : Versions, promise : Versions,
         mounted : BOOLEAN]
Ask(step, d, s) ==
  [step |-> step, buttons |-> d.buttons, reload |-> d.reload, of |-> s,
   version |-> 0, promise |-> 0, mounted |-> TRUE]
Load(step, s) == Ask(step, Deed({}, FALSE), s)
Free == [Load("free", NoSubject) EXCEPT !.mounted = FALSE]

\* Every variable keeps its type.
PagesTypeOK ==
  /\ open \in PageNames \cup {"login", "elsewhere"}
  /\ subject \in Subjects \cup {NoSubject}
  /\ picture \in [of : Subjects \cup {NoSubject}, version : Versions]
  /\ busy \subseteq Subjects \cup {"form", "page"}
  /\ auto \in BOOLEAN /\ signedIn \in BOOLEAN
  /\ asks \in [Slots -> Asks]
  /\ present \in Versions /\ promised \in Versions
  /\ moves \in 0..MaxMoves /\ fails \in 0..MaxFails

\* The tab shows a page that is none of these, and its user is signed in.
PagesInit ==
  /\ open = "elsewhere" /\ subject = NoSubject /\ picture = Blank
  /\ busy = {} /\ auto = TRUE
  /\ asks = [k \in Slots |-> Free]
  /\ signedIn = TRUE /\ present = 0 /\ promised = 0
  /\ moves = 0 /\ fails = 0

OperatorMoves == moves < MaxMoves /\ moves' = moves + 1 /\ UNCHANGED fails

-----------------------------------------------------------------------------
(* The operator.                                                            *)

\* The requests after their page was left: a first load that still checks the
\* token is given up, the others go on, but what they are for is forgotten.
Unmounted ==
  [k \in Slots |-> IF asks[k].step = "entering" THEN Free
                   ELSE [Free EXCEPT !.step = asks[k].step, !.reload = asks[k].reload]]

FirstLoad(p, s) == Load(IF site[p].enters THEN "entering" ELSE "checking", s)

\* The diagnostics page is about no server until it has listed them.
Opening(p) == IF p = "diagnostics" THEN {NoSubject} ELSE site[p].about

\* A page opens: its state is new, and it starts to load.
Mount(p) ==
  \E s \in Opening(p), k \in Slots :
    /\ open' = p /\ subject' = s /\ picture' = Blank /\ busy' = {} /\ auto' = TRUE
    /\ Unmounted[k] = Free
    /\ asks' = [Unmounted EXCEPT ![k] = FirstLoad(p, s)]

\* Without a server the diagnostics page has nothing to select, and neither its
\* buttons nor its timer do anything.
Ready == open = "diagnostics" => subject # NoSubject

GoTo(p) ==
  /\ open # "login" /\ open # p /\ OperatorMoves
  /\ Mount(p)
  /\ UNCHANGED <<signedIn, present, promised>>

\* Another server, player or query on the same page: what it shows stays until
\* the load of the new one.  Loads of the old one that have passed the page's
\* first check of the token go on.
Select(s) ==
  /\ open \in PageNames /\ s \in site[open].about /\ s # subject /\ Ready /\ OperatorMoves
  /\ subject' = s
  /\ LET kept == [k \in Slots |-> IF asks[k].step = "entering" /\ open # "players"
                                    THEN Free ELSE asks[k]]
     IN  \E k \in Slots :
           /\ kept[k] = Free
           /\ asks' = [kept EXCEPT ![k] =
                         IF open = "players" THEN Load("checking", s) ELSE FirstLoad(open, s)]
  /\ UNCHANGED <<open, picture, auto, busy, signedIn, present, promised>>

\* A load of the page as it is.
Loads(k) ==
  /\ Ready /\ asks[k] = Free
  /\ asks' = [asks EXCEPT ![k] = Load("checking", subject)]
  /\ UNCHANGED <<tab, signedIn, present, promised>>

Refresh(k) == open \in Refreshable /\ OperatorMoves /\ Loads(k)

\* The operator stops or resumes the timer of the diagnostics page.
ToggleAuto ==
  /\ open = "diagnostics" /\ OperatorMoves
  /\ auto' = ~auto
  /\ UNCHANGED <<open, subject, picture, busy, asks, signedIn, present, promised>>

\* Mutant of Timed: the diagnostics page loads once.
TimedRoom == open = "room"

\* The page has a timer running: 3 s in the operations room, 5 s in diagnostics.
\* A tick that finds no slot free is one the bound on requests leaves out.
Timed == open = "room" \/ (open = "diagnostics" /\ auto)
Poll(k) == Timed /\ Loads(k) /\ UNCHANGED bounds

\* The changes that have happened or may yet, by a request under way.
Begun == present + Cardinality({k \in Slots : asks[k].step \in {"asking", "sent"}})

\* A button that is not disabled is pressed.  Marking a row unmarks the others.
Act(k, d) ==
  /\ open \in PageNames /\ d \in site[open].deeds /\ Ready
  /\ Begun < MaxChanges /\ asks[k] = Free
  /\ asks' = [asks EXCEPT ![k] = Ask("asking", d, subject)]
  /\ IF d.buttons = {} THEN busy' = busy
     ELSE \E b \in d.buttons \ busy : busy' = (busy \ d.buttons) \cup {b}
  /\ UNCHANGED <<shows, signedIn, present, promised, bounds>>

\* Somebody else changes something.
Change ==
  /\ Begun < MaxChanges
  /\ present' = present + 1
  /\ UNCHANGED <<tab, asks, signedIn, promised, bounds>>

\* The token is dropped, and the router shows the login page; requests go on.
SignOut ==
  /\ open \in PageNames
  /\ signedIn' = FALSE /\ open' = "login" /\ picture' = Blank /\ busy' = {}
  /\ asks' = Unmounted
  /\ UNCHANGED <<subject, auto, present, promised, bounds>>

\* The login is answered: a token, and the page the login was asked for.
LogIn(p) ==
  /\ open = "login" /\ OperatorMoves
  /\ signedIn' = TRUE
  /\ Mount(p)
  /\ UNCHANGED <<present, promised>>

-----------------------------------------------------------------------------
(* apiFetch.                                                                *)

Checked == [entering |-> "checking", asking |-> "sent", checking |-> "reading"]

\* ensureAuthenticated: /auth/me accepts the token.
Passes(k) ==
  /\ asks[k].step \in {"entering", "asking", "checking"}
  /\ asks' = [asks EXCEPT ![k].step = Checked[@]]
  /\ UNCHANGED <<tab, signedIn, present, promised, bounds>>

\* /auth/me answers anything but a 2xx, or the request itself a 401: the token
\* there is now is dropped, and the browser is sent to the login page, which
\* ends everything under way; on the login page only this request ends.
Refuse(k) ==
  /\ asks[k].step \in {"entering", "asking", "checking", "sent", "reading"}
  /\ fails < MaxFails /\ fails' = fails + 1
  /\ signedIn' = FALSE /\ open' = "login" /\ picture' = Blank /\ busy' = {}
  /\ asks' = IF open = "login" THEN [asks EXCEPT ![k] = Free] ELSE [j \in Slots |-> Free]
  /\ UNCHANGED <<subject, auto, present, promised, moves>>

\* The API does what it is asked, or reads.
Serve(k) ==
  \/ /\ asks[k].step = "sent"
     /\ present' = present + 1
     /\ asks' = [asks EXCEPT ![k].step = "answered", ![k].promise = present']
     /\ UNCHANGED <<tab, signedIn, promised, bounds>>
  \/ /\ asks[k].step = "reading"
     /\ asks' = [asks EXCEPT ![k].step = "read", ![k].version = present]
     /\ UNCHANGED <<tab, signedIn, present, promised, bounds>>

\* The buttons once request k is done.
Released(k) == IF asks[k].mounted THEN busy \ asks[k].buttons ELSE busy

\* Mutant of Follows: the load does not wait for the change.
FollowsAtOnce(k) ==
  IF asks[k].reload /\ signedIn
    THEN [asks[k] EXCEPT !.step = "read", !.version = asks[k].promise - 1] ELSE Free

\* What follows the answer to a change: its load, unless the token is gone.
Follows(k) ==
  IF asks[k].reload /\ signedIn THEN [asks[k] EXCEPT !.step = "checking"] ELSE Free

Answered(k) ==
  /\ asks[k].step = "answered"
  /\ asks' = [asks EXCEPT ![k] = Follows(k)]
  /\ busy' = IF Follows(k) = Free THEN Released(k) ELSE busy
  /\ UNCHANGED <<shows, signedIn, present, promised, bounds>>

\* What the page shows after a load: what it read, whatever was there before.
Pictured(k) == [of |-> asks[k].of, version |-> asks[k].version]

\* An answer of an older state than v is still on its way to the page.
OlderComes(k, v) ==
  \E j \in Slots \ {k} : asks[j].step = "read" /\ asks[j].mounted /\ asks[j].version < v

\* Request k lists the servers for the diagnostics page.
Lists(k) == open = "diagnostics" /\ asks[k].mounted /\ asks[k].of = NoSubject

\* The servers are listed: the page takes the first one and loads its report, or
\* there is none.
Listed(k) ==
  /\ asks[k].step = "read" /\ Lists(k)
  /\ \/ /\ subject' \in Subjects
        /\ asks' = [asks EXCEPT ![k].step = "checking", ![k].of = subject']
        /\ UNCHANGED busy
     \/ /\ asks' = [asks EXCEPT ![k] = Free] /\ busy' = Released(k)
        /\ UNCHANGED subject
  /\ UNCHANGED <<open, picture, auto, signedIn, present, promised, bounds>>

\* A load is answered.  On a page that is no longer there nothing happens.
Show(k) ==
  /\ asks[k].step = "read" /\ ~Lists(k)
  /\ IF asks[k].mounted
       THEN /\ picture' = Pictured(k)
            /\ promised' = IF asks[k].promise > promised /\ ~OlderComes(k, asks[k].promise)
                             THEN asks[k].promise ELSE promised
       ELSE UNCHANGED <<picture, promised>>
  /\ busy' = Released(k)
  /\ asks' = [asks EXCEPT ![k] = Free]
  /\ UNCHANGED <<open, subject, auto, signedIn, present, bounds>>

\* A request fails; a change may have happened nevertheless.  The diagnostics
\* page then shows nothing, and has no server if it was listing them; the others
\* show what they showed.
Fail(k) ==
  /\ asks[k].step \in {"asking", "sent", "checking", "reading"}
  /\ fails < MaxFails /\ fails' = fails + 1
  /\ present' \in IF asks[k].step = "sent" THEN {present, present + 1} ELSE {present}
  /\ picture' = IF open = "diagnostics" /\ asks[k].mounted
                     /\ asks[k].step \in {"checking", "reading"}
                  THEN Blank ELSE picture
  /\ busy' = Released(k)
  /\ asks' = [asks EXCEPT ![k] = Free]
  /\ UNCHANGED <<open, subject, auto, signedIn, promised, moves>>

Progress(k) == Passes(k) \/ Refuse(k) \/ Serve(k) \/ Answered(k) \/ Listed(k) \/ Show(k) \/ Fail(k)

PagesNext ==
  \/ \E p \in PageNames : GoTo(p) \/ LogIn(p)
  \/ \E s \in Subjects : Select(s)
  \/ ToggleAuto \/ SignOut \/ Change
  \/ \E k \in Slots : \/ Progress(k) \/ Poll(k) \/ Refresh(k)
                      \/ \E p \in PageNames : \E d \in site[p].deeds : open = p /\ Act(k, d)

PagesSpec == PagesInit /\ [][PagesNext]_pagesVars

-----------------------------------------------------------------------------
(* Properties.                                                              *)

\* A change the operator made and the page has shown stays shown: however many
\* loads of the timer, of other actions and of the Refresh button answer later
\* and in whichever order, the page does not go back to before it, unless an
\* answer from before it was still on its way when the page showed it.
ActionIsShown == picture = Blank \/ picture.version >= promised

\* The operations room, and the diagnostics page unless auto-refresh is off, show
\* in the end and from then on the state of the API and of what they are about:
\* answers for another server, answers out of order and failed loads are all made
\* up for.  Only the listing of the servers that opens the diagnostics page is not
\* tried again, and without a server there is nothing to show.
CatchesUp ==
  <>[](open = "room" \/ (open = "diagnostics" /\ auto /\ subject # NoSubject)
         => picture = [of |-> subject, version |-> present])

\* Request k belongs to the page and marked one of the buttons bs.
Marks(k, bs) == asks[k].mounted /\ asks[k].buttons = bs

\* A form's button is disabled exactly while its request is under way, and no
\* second one can be; a row is marked only while a row's request is under way.
ButtonsAreTrue ==
  /\ \A b \in {"form", "page"} :
       /\ b \in busy <=> \E k \in Slots : Marks(k, {b})
       /\ \A j, k \in Slots : Marks(j, {b}) /\ Marks(k, {b}) => j = k
  /\ busy \cap Subjects # {} => \E k \in Slots : Marks(k, Subjects)

=============================================================================
