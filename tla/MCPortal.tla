------------------------------ MODULE MCPortal ------------------------------
(***************************************************************************)
(* What users of the portal have open: their accounts, their permissions,  *)
(* their messages, their sessions, and the forms of a wiki page.  They     *)
(* share nothing that is modelled, so an initial state picks the one that  *)
(* moves; the others stay put.                                             *)
(***************************************************************************)
EXTENDS WikiPage, PrivateMessages, Sessions, Accounts, TLC

CONSTANTS one, two

VARIABLE part

ASSUME WikiPageAssumption
ASSUME MessagesAssumption
ASSUME SessionsAssumption
ASSUME AccountsAssumption

PortalInit ==
        /\ part \in {"wiki", "accounts", "permissions", "messages", "sessions"}
        /\ Init
        /\ AccountsInit
        /\ RightsInit /\ (part # "permissions" => \A g \in DOMAIN group : group[g] = {})
        /\ MessagesInit
        /\ SessionsInit /\ (part # "sessions" => jar = NoCookie)

\* Bound: a form that is not behind the page is previewed only with something that it
\* has not shown before; any text can be saved without a preview.
ShowsNews(u) ==
        form[u] # Null /\ form'[u] # Null /\ form'[u] # form[u]
                /\ form'[u].base = form[u].base /\ form'[u].time = form[u].time
            => form'[u].shown # form[u].shown

WikiStep == part = "wiki" /\ Next /\ (\A u \in Users : ShowsNews(u))
            /\ UNCHANGED <<part, accountVars, rightVars, msgVars, sessionVars>>
AccountStep == part = "accounts" /\ AccountsNext
               /\ UNCHANGED <<part, vars, rightVars, msgVars, sessionVars>>
PermissionStep == part = "permissions" /\ RightsNext
                  /\ UNCHANGED <<part, vars, accountVars, msgVars, sessionVars>>
MessageStep == part = "messages" /\ MessagesNext
               /\ UNCHANGED <<part, vars, accountVars, rightVars, sessionVars>>
SessionStep == part = "sessions" /\ SessionsNext
               /\ UNCHANGED <<part, vars, accountVars, rightVars, msgVars>>

PortalNext == WikiStep \/ AccountStep \/ PermissionStep \/ MessageStep \/ SessionStep

PortalSpec == PortalInit /\ [][PortalNext]_<<part, vars, accountVars, rightVars, msgVars, sessionVars>>

\* The users, addresses, groups or requests of the part that moves.
Symmetry == Permutations({one, two})
=============================================================================
