------------------------------ MODULE Sessions ------------------------------
(***************************************************************************)
(* The session of one browser, which lives in the browser's own cookie     *)
(* (middlewares/session.py): a request works on the copy it was sent, and  *)
(* its answer puts the whole copy back in the browser's jar, over whatever *)
(* a faster answer put there meanwhile.  In the session are the user, the  *)
(* key an anonymous visitor is counted under, the time before which the    *)
(* next form is refused and the messages not yet shown.  Apart from it the *)
(* server keeps a row per visitor it saw (utils/sessions.py), which says   *)
(* who is online and which a script clears away.                           *)
(* A request is two steps, or three when its row has to be inserted.       *)
(***************************************************************************)
EXTENDS Naturals

CONSTANTS
    Requests,   \* requests that can be under way together
    Timeout,    \* SurgeProtectionMixin.source_protection_timeout
    Delta,      \* SESSION_DELTA
    Age,        \* SESSION_COOKIE_AGE
    MaxTime, MaxRequests,        \* bounds on the clock and the requests sent
    MaxSessionKeys, MaxTold,     \* and on the keys and messages made
    NoCookie    \* a browser without the cookie

VARIABLES
    now,        \* the clock
    jar,        \* the cookie the browser keeps
    requests,   \* the requests under way
    sent,       \* how many were sent
    infos,      \* SessionInfo: when each key was last seen, 0 for no row
    sessionKeys, \* anonymous keys made so far
    told,       \* messages flashed so far
    shown,      \* messages shown on a page
    out,        \* a logout was answered alone, and nobody logged in since
    until,      \* when a form sent alone lets the next one through
    due,        \* messages flashed by requests that were answered alone
    seen        \* when somebody who does not hide last came with a cookie

sessionVars == <<now, jar, requests, sent, infos, sessionKeys, told, shown, out, until, due, seen>>
sessionGhosts == <<out, until, due>>

Session == [user : BOOLEAN, key : Nat, surge : Nat, flash : SUBSET Nat, ex : Nat, perm : BOOLEAN]

\* Times and ages are whole seconds, and a browser without the cookie has none.
SessionsAssumption == /\ Timeout \in Nat /\ Delta \in Nat /\ Age \in Nat
                      /\ MaxSessionKeys \in Nat
                      /\ NoCookie \notin Session

Kinds == {"page", "service", "form", "login", "logout"}
UserKey == 0
NoRequest == [at |-> "idle"]

\* A session of its own, with the message about the one that ran out.
FreshSession(messages) ==
    [user |-> FALSE, key |-> 0, surge |-> 0, flash |-> messages,
     ex |-> now + Age, perm |-> FALSE]

\* The browser comes for the first time, or is logged in already.
SessionsInit ==
    /\ now = 1 /\ jar \in {NoCookie, [FreshSession({}) EXCEPT !.user = TRUE]}
    /\ requests = [r \in Requests |-> NoRequest]
    /\ infos = [k \in 0 .. MaxSessionKeys |-> 0]
    /\ sent = 0 /\ sessionKeys = 0 /\ told = 0 /\ shown = {}
    /\ out = FALSE /\ until = 0 /\ due = {} /\ seen = 0

TimePasses ==
    /\ now < MaxTime /\ now' = now + 1
    /\ UNCHANGED <<jar, requests, sent, infos, sessionKeys, told, shown, sessionGhosts, seen>>

\* AdvancedSessionMiddleware.process_request; Session.session_key drops or
\* makes the anonymous key.  `write` says that the dict was written to.
Opened(cookie) ==
    LET expired == cookie # NoCookie /\ cookie.ex < now
        new == cookie = NoCookie \/ expired
        session == IF new THEN FreshSession(IF expired THEN {told + 1} ELSE {}) ELSE cookie
        keyless == ~new /\ ~session.user /\ session.key = 0
    IN [session |-> IF keyless THEN [session EXCEPT !.key = sessionKeys + 1] ELSE session,
        new |-> new, expired |-> expired, keyless |-> keyless,
        row |-> IF session.user THEN UserKey
                ELSE IF keyless THEN sessionKeys + 1 ELSE session.key]

\* The browser itself drops a permanent cookie at its date.
Sent == IF jar # NoCookie /\ jar.perm /\ jar.ex <= now THEN NoCookie ELSE jar

\* AuthMiddleware and set_session_info: a new session leaves no row, nor does a
\* user who hides (the setting hide_profile, which he may change at any time).
Arrive(r, kind, hides) ==
    LET o == Opened(Sent)
        counted == ~o.new /\ ~hides
        update == counted /\ infos[o.row] # 0 IN
    /\ requests[r] = NoRequest
    /\ hides => o.session.user
    /\ sent < MaxRequests /\ sent' = sent + 1
    /\ sessionKeys + (IF o.keyless THEN 1 ELSE 0) <= MaxSessionKeys
    /\ told + (IF o.expired THEN 1 ELSE 0) <= MaxTold
    /\ requests' = [requests EXCEPT ![r] =
           [at |-> IF counted /\ ~update THEN "insert" ELSE "view", kind |-> kind,
            session |-> o.session, new |-> o.new, write |-> o.new \/ o.keyless,
            row |-> o.row]]
    /\ infos' = IF update THEN [infos EXCEPT ![o.row] = now] ELSE infos
    /\ sessionKeys' = IF o.keyless THEN sessionKeys + 1 ELSE sessionKeys
    /\ told' = IF o.expired THEN told + 1 ELSE told
    /\ seen' = IF update THEN now ELSE seen
    /\ until' = IF o.new THEN 0 ELSE until
    /\ due' = IF o.new THEN {} ELSE due
    /\ UNCHANGED <<now, jar, shown, out>>

\* No row was updated: one is inserted, unless another request was faster.
InsertInfo(r) ==
    /\ requests[r].at = "insert"
    /\ requests' = [requests EXCEPT ![r].at = "view"]
    /\ infos' = IF infos[requests[r].row] = 0
                THEN [infos EXCEPT ![requests[r].row] = now] ELSE infos
    /\ seen' = IF infos[requests[r].row] = 0 THEN now ELSE seen
    /\ UNCHANGED <<now, jar, sent, sessionKeys, told, shown, sessionGhosts>>

Alone(r) == \A other \in Requests \ {r} : requests[other] = NoRequest

\* A bug: only a time that has passed is kept.
TidiedLate(session) ==
    [session EXCEPT !.surge = IF @ <= now THEN @ ELSE 0,
                    !.key = IF session.user THEN 0 ELSE @]

\* process_response: whether to write was read before the surge protection and
\* the key are cleared away.
Tidied(session) ==
    [session EXCEPT !.surge = IF @ > now THEN @ ELSE 0,
                    !.key = IF session.user THEN 0 ELSE @]
Respond(r, session, write) ==
    /\ jar' = IF write \/ requests[r].write THEN Tidied(session) ELSE jar
    /\ requests' = [requests EXCEPT ![r] = NoRequest]
    /\ UNCHANGED <<now, sent, infos, sessionKeys, seen>>

\* The page shows the messages; popping them counts as a write even if there
\* were none (Werkzeug's dict notes every call).
ShowPage(r, session) ==
    /\ Respond(r, [session EXCEPT !.flash = {}], TRUE)
    /\ shown' = shown \cup session.flash
    /\ UNCHANGED <<told, due>>

\* flash() and a redirect: nothing is shown.
FlashAndRedirect(r, session) ==
    /\ told < MaxTold /\ told' = told + 1
    /\ Respond(r, [session EXCEPT !.flash = @ \cup {told + 1}], TRUE)
    /\ due' = IF Alone(r) THEN due \cup {told + 1} ELSE due
    /\ UNCHANGED shown

AnswerPage(r) ==
    /\ requests[r].kind = "page"
    /\ ShowPage(r, requests[r].session)
    /\ UNCHANGED <<out, until>>

\* A service answers without a page.
AnswerService(r) ==
    /\ requests[r].kind = "service"
    /\ Respond(r, requests[r].session, FALSE)
    /\ UNCHANGED <<told, shown, sessionGhosts>>

\* SurgeProtectionMixin.clean: setdefault is a write, and only because of it is
\* the time kept.
AnswerForm(r) ==
    LET session == requests[r].session IN
    /\ requests[r].kind = "form"
    /\ IF session.surge >= now
       THEN ShowPage(r, session) /\ UNCHANGED <<out, until>>
       ELSE /\ Respond(r, [session EXCEPT !.surge = now + Timeout], TRUE)
            /\ until' = IF Alone(r) THEN now + Timeout ELSE until
            /\ UNCHANGED <<told, shown, due, out>>

\* login: a visitor without the cookie is sent round once more to get it.
AnswerLogin(r) ==
    LET session == requests[r].session IN
    /\ requests[r].kind = "login"
    /\ \/ session.user /\ FlashAndRedirect(r, session) /\ UNCHANGED <<out, until>>
       \/ /\ ~session.user /\ requests[r].new
          /\ Respond(r, session, TRUE)
          /\ UNCHANGED <<told, shown, sessionGhosts>>
       \/ \E permanent \in BOOLEAN :
          /\ ~session.user /\ ~requests[r].new
          /\ FlashAndRedirect(r, [session EXCEPT !.user = TRUE, !.key = 0,
                                                 !.perm = @ \/ permanent])
          /\ out' = FALSE /\ UNCHANGED until

AnswerLogout(r) ==
    LET session == requests[r].session IN
    /\ requests[r].kind = "logout"
    /\ FlashAndRedirect(r, [session EXCEPT !.user = FALSE])
    /\ out' = (out \/ (session.user /\ Alone(r)))
    /\ UNCHANGED until

Answer(r) ==
    /\ requests[r].at = "view"
    /\ AnswerPage(r) \/ AnswerService(r) \/ AnswerForm(r) \/ AnswerLogin(r) \/ AnswerLogout(r)

\* Only a permanent session outlives the browser.
CloseBrowser ==
    /\ jar # NoCookie /\ ~jar.perm /\ \A r \in Requests : requests[r] = NoRequest
    /\ jar' = NoCookie /\ until' = 0 /\ due' = {}
    /\ UNCHANGED <<now, requests, sent, infos, sessionKeys, told, shown, out, seen>>

\* scripts/cleanup_sessions.py
Cleanup ==
    /\ infos' = [k \in DOMAIN infos |-> IF infos[k] + Delta < now THEN 0 ELSE infos[k]]
    /\ UNCHANGED <<now, jar, requests, sent, sessionKeys, told, shown, sessionGhosts, seen>>

SessionsNext ==
    \/ TimePasses \/ CloseBrowser \/ Cleanup
    \/ \E r \in Requests :
         (\E kind \in Kinds, hides \in BOOLEAN : Arrive(r, kind, hides)) \/ InsertInfo(r) \/ Answer(r)
SessionsSpec == SessionsInit /\ [][SessionsNext]_sessionVars

-----------------------------------------------------------------------------
\* get_sessions: the rows seen within SESSION_DELTA.
Online == {k \in DOMAIN infos : infos[k] # 0 /\ infos[k] + Delta > now}

InUse == ({jar} \ {NoCookie}) \cup {requests[r].session : r \in {q \in Requests : requests[q] # NoRequest}}

\* A logout, an accepted form or a message whose answer came while nothing else
\* of the browser was under way is not undone by any later interleaving of
\* requests: nobody is the user again before a login, the next form is refused
\* until its time, and a message stays in every copy until a page shows it.
SessionKept ==
    \A s \in InUse :
      /\ out => ~s.user
      /\ now < until => s.surge = until
      /\ due \ shown \subseteq s.flash

\* Whoever came with a cookie within SESSION_DELTA and does not hide is counted as
\* online, in whatever order two requests insert the row and the script clears it
\* away.
VisitorsCounted == seen # 0 /\ seen + Delta > now => Online # {}

\* Both hold together.
SessionsTrue == SessionKept /\ VisitorsCounted
=============================================================================
