------------------------------ MODULE Accounts ------------------------------
(***************************************************************************)
(* One user account from registration to deletion: its row in portal_user, *)
(* the copy of it in the cache, and the links mailed to its owner          *)
(* (portal/user.py, the account views of portal/views.py and               *)
(* admin/views.py, middlewares/auth.py, scripts/clean_users.py).           *)
(*                                                                         *)
(* User.save writes every column.  A request reads the row (or is given    *)
(* the cached copy), sends its mails, saves and empties the cache in one   *)
(* step, and commits in another; other requests run in between.            *)
(*                                                                         *)
(* Below it, what users may do: permissions of their own and of their      *)
(* groups, and the cached union of both (portal/user.py, the user and      *)
(* group forms of admin/views.py).  A form's request runs, emptying the    *)
(* cache, and commits later; others ask for permissions in between.        *)
(***************************************************************************)
EXTENDS Naturals, FiniteSets

CONSTANTS Emails, Dead,  \* addresses; the one of a deactivated account
          None, Gone,    \* not registered, deleted from the table
          MaxTx, MaxLinks, MaxKeys, MaxPosts,   \* bounds
          People, Groups, Perms,
          MaxForms       \* bound: forms for permissions that run at a time

VARIABLES row,      \* the committed row
          account,  \* 'portal/user/<id>'
          tx,       \* requests that have saved and not committed
          links,    \* the links in the owner's mailbox
          keys,     \* the new_password_keys made so far
          logged,   \* the owner has a session with his uid
          doomed,   \* clean_users has found the account unused
          meant,    \* history: the row the requests meant to leave, None if they overlapped
          left,     \* history: whether the owner has left, see After
          user,          \* user -> [own, primary]: _permissions and _primary_group
          member,        \* user -> the groups of his rows in portal_user_groups
          group,         \* group -> its permissions
          cachedPerms,   \* user -> 'user_permissions/<id>', or None
          pending,       \* requests that have run and not committed
          moved,         \* history: users whose groups changed since the cache was filled
          overlapped     \* history: users whose cache was filled while a request ran

accountVars == <<row, account, tx, links, keys, logged, doomed, meant, left>>
rightVars == <<user, member, group, cachedPerms, pending, moved, overlapped>>

Inactive == 0  Active == 1  Banned == 2  Deleted == 3

\* The columns that some handler asks for.  The profile, settings, groups and read
\* status are saved with them.  pw: there is a usable password; key: 0 is no key;
\* until: banned_until is set.
Row == [status : Inactive..Deleted, email : Emails \union {Dead}, pw : BOOLEAN,
        key : Nat, until : BOOLEAN, posts : Nat]

Link == [kind : {"activate", "set_new_email", "reset_email"}, email : Emails]
        \union [kind : {"reactivate"}, email : Emails, status : Inactive..Deleted]

\* The address of a deactivated account is nobody's.
AccountsAssumption == /\ Dead \notin Emails
                      /\ None # Gone /\ None \notin Row /\ Gone \notin Row

Exists == row \notin {None, Gone}

\* What a request is to a deactivated account: nothing, its beginning, a password
\* set for it, its end.
Stay == "stay"  Leave == "leave"  Reset == "reset"  Back == "back"

\* The owner is Back from the start; once he has left, a password may be set.
After(was, request) == IF request = Stay \/ (request = Reset /\ was = Back) THEN was ELSE request

AccountsInit == /\ row = None /\ account = None /\ meant = None
                /\ tx = {} /\ links = {} /\ keys = 0
                /\ logged = FALSE /\ doomed = FALSE /\ left = Back

-----------------------------------------------------------------------------
(* Reading and saving                                                       *)

\* request.user; the other views look the user up by name, past the cache.
Mine == IF account = None THEN row ELSE account

\* A mail to the address of a deactivated account reaches nobody, and any other
\* may be lost.
Mail(new, email) == links' \in {links} \union
  {ls \in {links \union new} : email # Dead /\ Cardinality(ls) <= MaxLinks}

EmptiedNot == account
Emptied == None

\* Bound: once requests have overlapped, no other one starts until they and the
\* copies made meanwhile are gone; a copy of a deleted row may be saved.
MayStart == Cardinality(tx) < MaxTx /\ (meant = None => row = Gone)

\* A request that read base saves new, which inserts a row that was deleted.  One
\* that runs while another has not committed may undo its changes, or have its own
\* undone.
Save(base, new, back) ==
  /\ MayStart
  /\ tx' = tx \union {[row |-> new, cols |-> {c \in DOMAIN base : base[c] # new[c]},
                       add |-> 0, left |-> back]}
  /\ account' = Emptied
  /\ meant' = IF tx = {} THEN meant ELSE None
  /\ UNCHANGED <<row, doomed, left>>

CommitSave(t) ==
  LET after == IF t.row = None THEN [row EXCEPT !.posts = @ + t.add] ELSE t.row IN
  /\ tx' = tx \ {t}
  /\ row' = after
  /\ meant' = IF meant = None
              THEN IF tx' = {} /\ account = None THEN after ELSE None  \* nothing old is left
              ELSE IF t.row = None THEN [meant EXCEPT !.posts = @ + t.add]
              ELSE [c \in DOMAIN meant |-> IF c \in t.cols THEN t.row[c] ELSE meant[c]]
  /\ left' = IF tx' = {} /\ meant # None THEN After(left, t.left) ELSE Back
  /\ UNCHANGED <<account, links, keys, logged, doomed>>

AbortSave(t) == /\ tx' = tx \ {t}
                /\ UNCHANGED <<row, account, links, keys, logged, doomed, meant, left>>

\* Posts are counted by SQL on the row as it is; the cached copy is deleted.
CountPost(n) ==
  /\ Exists /\ MayStart
  /\ row.posts + n \in 0..MaxPosts /\ ~\E t \in tx : t.row = None \/ t.row.posts + n \notin 0..MaxPosts
  /\ tx' = tx \union {[row |-> None, cols |-> {}, add |-> n, left |-> Stay]}
  /\ account' = None
  /\ meant' = IF tx = {} THEN meant ELSE None
  /\ UNCHANGED <<row, links, keys, logged, doomed, left>>

-----------------------------------------------------------------------------
(* Registration                                                             *)

\* register_user: an account an administrator creates may be active at once.
Register ==
  /\ row = None
  /\ \E e \in Emails, s \in {Inactive, Active} :
       /\ row' = [status |-> s, email |-> e, pw |-> TRUE, key |-> 0, until |-> FALSE, posts |-> 0]
       /\ links' = IF s = Inactive THEN {[kind |-> "activate", email |-> e]} ELSE {}
  /\ meant' = row'
  /\ UNCHANGED <<account, tx, keys, logged, doomed, left>>

\* The activation key is a hash of id, name and current address.
Activate(l) ==
  /\ l.kind = "activate" /\ Exists /\ row.email = l.email
  /\ Save(row, [row EXCEPT !.status = Active], Stay)
  /\ UNCHANGED <<links, keys, logged>>

Resend == /\ Exists /\ row.status = Inactive /\ row.email # Dead
          /\ Mail({[kind |-> "activate", email |-> row.email]}, row.email)
          /\ UNCHANGED <<row, account, tx, keys, logged, doomed, meant, left>>

-----------------------------------------------------------------------------
(* Sessions                                                                 *)

\* AuthMiddleware: banned and deleted users lose their session.
Visit == /\ logged /\ Mine # None
         /\ account' = IF row = Gone /\ account = None THEN None ELSE Mine
         /\ logged' = (Mine # Gone /\ Mine.status \notin {Banned, Deleted})
         /\ meant' = IF account = None /\ tx # {} THEN None ELSE meant
         /\ UNCHANGED <<row, tx, links, keys, doomed, left>>

Acting == logged /\ Mine \notin {None, Gone} /\ Mine.status \notin {Banned, Deleted}

LoggedIn(r) == [r EXCEPT !.key = 0]

\* authenticate(): a ban with a date may be over by now; it ends, whether the
\* password is right or not.
BanOver(r) == r.status = Banned /\ r.until
Unbanned(r) == [r EXCEPT !.status = Active, !.until = FALSE]

Login ==
  /\ Exists /\ ~logged /\ row.pw
  /\ \/ row.status = Active /\ Save(row, LoggedIn(row), Stay)
     \/ BanOver(row) /\ Save(row, LoggedIn(Unbanned(row)), Stay)
  /\ logged' = TRUE
  /\ UNCHANGED <<links, keys>>

WrongPassword == /\ Exists /\ ~logged /\ BanOver(row)
                 /\ Save(row, Unbanned(row), Stay)
                 /\ UNCHANGED <<links, keys, logged>>

\* Only banned users are turned away; the next visit logs out the deleted ones.
OpenIdLogin == /\ Exists /\ ~logged /\ row.status # Banned
               /\ Save(row, LoggedIn(row), Stay)
               /\ logged' = TRUE
               /\ UNCHANGED <<links, keys>>

\* Leaving may mark all forums as read.
Logout == /\ Acting /\ logged' = FALSE
          /\ \/ /\ Save(Mine, Mine, Stay)
                /\ UNCHANGED <<links, keys>>
             \/ /\ account' = Mine
                /\ meant' = IF account = None /\ tx # {} THEN None ELSE meant
                /\ UNCHANGED <<row, tx, links, keys, doomed, left>>

-----------------------------------------------------------------------------
(* What the owner changes                                                   *)

\* The profile, the settings, the toggles and every view that marks as read; a
\* new address is only mailed for confirmation.
SaveProfile ==
  /\ Acting
  /\ Save(Mine, Mine, Stay)
  /\ \/ UNCHANGED links
     \/ \E e \in Emails \ {Mine.email} : Mail({[kind |-> "set_new_email", email |-> e]}, e)
  /\ UNCHANGED <<keys, logged>>

ChangePassword == /\ Acting /\ Mine.pw
                  /\ Save(Mine, [Mine EXCEPT !.key = 0], Stay)
                  /\ UNCHANGED <<links, keys, logged>>

\* deactivate_user: user.is_banned is asked after status has been set, so the
\* address is replaced in any case.
AnonymousKeepingMail(r) == [r EXCEPT !.status = Deleted, !.pw = FALSE, !.key = 0]
Anonymous(r) == [r EXCEPT !.status = Deleted, !.email = Dead, !.pw = FALSE, !.key = 0]

Deactivate ==
  /\ Acting /\ Mine.pw
  /\ Mail({[kind |-> "reactivate", email |-> e, status |-> Mine.status] :
             e \in {Mine.email} \ {Dead}}, Mine.email)
  /\ Save(Mine, Anonymous(Mine), Leave)
  /\ logged' = FALSE
  /\ UNCHANGED keys

-----------------------------------------------------------------------------
(* The links                                                                *)

NewKey == /\ keys < MaxKeys /\ keys' = keys + 1

\* The mail with the key is left out: its link only opens the form below.
LostPassword ==
  /\ ~logged /\ Exists /\ NewKey
  /\ Save(row, [row EXCEPT !.key = keys'], Stay)
  /\ UNCHANGED <<links, logged>>

\* The key is asked for when the form is opened and not when it is sent: for the
\* last of its lookups UserManager.get drops it.  So a form that is still open
\* is good for ever, also after the owner has left.
SetNewPassword ==
  /\ Exists
  /\ Save(row, [row EXCEPT !.pw = TRUE, !.key = 0], Reset)
  /\ UNCHANGED <<links, keys, logged>>

\* reactivate_user saves the account and then again with a new password key.
Reactivate(l) ==
  /\ l.kind = "reactivate" /\ Exists /\ row.status = Deleted /\ NewKey
  /\ LET back == [row EXCEPT !.email = l.email, !.status = l.status, !.key = keys'] IN
     \E over \in {FALSE, row.until} : Save(row, IF over THEN Unbanned(back) ELSE back, Back)
  /\ UNCHANGED <<links, logged>>

\* The confirmed address is saved, and the old one told how to undo that.
SetNewEmail(l) ==
  /\ l.kind = "set_new_email" /\ Exists
  /\ Save(row, [row EXCEPT !.email = l.email], Back)
  /\ Mail({[kind |-> "reset_email", email |-> e] : e \in {row.email} \ {Dead}}, row.email)
  /\ UNCHANGED <<keys, logged>>

ResetEmail(l) == /\ l.kind = "reset_email" /\ Exists
                 /\ Save(row, [row EXCEPT !.email = l.email], Back)
                 /\ UNCHANGED <<links, keys, logged>>

\* The owner deletes the mail, or the link becomes too old.
LinkExpires(l) == /\ links' = links \ {l}
                  /\ UNCHANGED <<row, account, tx, keys, logged, doomed, meant, left>>

-----------------------------------------------------------------------------
(* Administrators and the cron job                                          *)

EditProfile == /\ Exists
               /\ \E e \in Emails \union {row.email} :
                    Save(row, [row EXCEPT !.email = e],
                         IF e = row.email THEN Stay ELSE Back)
               /\ UNCHANGED <<links, keys, logged>>

\* A date is only accepted with a ban, which is then in the future.
EditStatus == /\ Exists
              /\ \E s \in Inactive..Deleted, until \in BOOLEAN :
                   /\ until => s = Banned
                   /\ Save(row, [row EXCEPT !.status = s, !.until = until],
                           IF s = row.status THEN Stay ELSE Back)
              /\ UNCHANGED <<links, keys, logged>>

EditPassword == /\ Exists
                /\ Save(row, [row EXCEPT !.pw = TRUE, !.key = 0], Back)
                /\ UNCHANGED <<links, keys, logged>>

\* clean_users lists the accounts without content, then deletes those listed;
\* the cached copy stays.
Scan == /\ Exists /\ ~doomed /\ tx = {}
        /\ row.status \in {Inactive, Active} /\ row.posts = 0
        /\ doomed' = TRUE
        /\ UNCHANGED <<row, account, tx, links, keys, logged, meant, left>>

Clean == /\ doomed /\ Exists /\ tx = {}
         /\ row' = Gone
         /\ meant' = IF account = None THEN Gone ELSE None
         /\ doomed' = FALSE /\ left' = Back
         /\ UNCHANGED <<account, tx, links, keys, logged>>

CacheExpires == /\ account # None /\ account' = None
                /\ meant' = IF tx = {} THEN row ELSE meant
                /\ UNCHANGED <<row, tx, links, keys, logged, doomed, left>>

AccountsNext == \/ Register \/ Resend \/ Visit \/ Login \/ WrongPassword \/ OpenIdLogin \/ Logout
                \/ SaveProfile \/ ChangePassword \/ Deactivate \/ LostPassword \/ SetNewPassword
                \/ \E l \in links : \/ Activate(l) \/ Reactivate(l)
                                    \/ SetNewEmail(l) \/ ResetEmail(l) \/ LinkExpires(l)
                \/ EditProfile \/ EditStatus \/ EditPassword
                \/ Scan \/ Clean \/ CacheExpires
                \/ CountPost(1)
                \/ \E t \in tx : CommitSave(t) \/ AbortSave(t)

AccountsSpec == AccountsInit /\ [][AccountsNext]_accountVars

-----------------------------------------------------------------------------

AccountTypeOK == /\ row \in Row \union {None, Gone}
                 /\ account \in Row \union {None, Gone}
                 /\ \A t \in tx : t.row \in Row \union {None} /\ t.add \in Nat
                 /\ links \subseteq Link
                 /\ keys \in 0..MaxKeys

\* Whatever a request changed in an account stays as it left it until another
\* one changes it: only requests that overlap undo each other's changes, though
\* every save writes all columns.
NothingUndone == meant # None => row = meant

\* An account its owner has deactivated stays deleted and without address,
\* whichever of his old mails, forms and sessions he uses, until he restores it,
\* confirms or resets an address, or an administrator edits it.  It stays without
\* password too, but for the form for a new one (SetNewPassword).
DeactivatedStaysLocked ==
  meant # None => /\ left # Back => row.status = Deleted /\ row.email = Dead
                  /\ left = Leave => ~row.pw

\* Requests that run one after another leave the account as they meant to, and nothing
\* that was on its way when an account was deactivated opens it again.
AccountsAsMeant == NothingUndone /\ DeactivatedStaysLocked

-----------------------------------------------------------------------------
(* Permissions and groups.                                                  *)

UserRow == [own : SUBSET Perms, primary : Groups \union {None}]

RightsInit == /\ user \in [People -> [own : {{}}, primary : {None}]]
              /\ member = [u \in People |-> {}]
              /\ group \in [Groups -> SUBSET Perms]
              /\ cachedPerms = [u \in People |-> None]
              /\ pending = {} /\ moved = {} /\ overlapped = {}

Granted(u) == user[u].own \union UNION {group[g] : g \in member[u]}

\* can(): the cache is asked first, and filled.
Can(u) == /\ cachedPerms[u] = None
          /\ cachedPerms' = [cachedPerms EXCEPT ![u] = Granted(u)]
          /\ moved' = moved \ {u}
          /\ overlapped' = IF pending = {} THEN overlapped \ {u} ELSE overlapped \union {u}
          /\ UNCHANGED <<user, member, group, pending>>

\* A request: rows of users, memberships and groups it writes at its commit, and
\* the users whose cached permissions it deletes before.
StartForm(rows, joined, changed, emptied) ==
  /\ Cardinality(pending) < MaxForms
  /\ pending' = pending \union {[user |-> rows, member |-> joined, group |-> changed]}
  /\ cachedPerms' = [u \in People |-> IF u \in emptied THEN None ELSE cachedPerms[u]]
  /\ UNCHANGED <<user, member, group, moved, overlapped>>

NoRows == [x \in {} |-> None]
Only(x, v) == [y \in {x} |-> v]

\* user_edit_privileges
EditPrivileges(u) == \E ps \in SUBSET Perms :
  StartForm(Only(u, [user[u] EXCEPT !.own = ps]), NoRows, NoRows, {u})

\* user_edit_groups: a primary group that is submitted unchanged is set to None.
EditGroups(u) == \E gs \in SUBSET Groups, p \in Groups \union {None} :
  StartForm(Only(u, [user[u] EXCEPT !.primary = IF p = @ THEN None ELSE p]), Only(u, gs), NoRows, {})

\* deactivate_user
LeaveGroups(u) == StartForm(Only(u, [user[u] EXCEPT !.primary = None]), Only(u, {}), NoRows, {})

\* group_edit empties the cache of the group's members if permissions changed.
MembersSpared(g) == {u \in People : user[u].primary = g}
Members(g) == {u \in People : g \in member[u]}

EditGroup(g) == \E ps \in SUBSET Perms :
  StartForm(NoRows, NoRows, Only(g, ps), IF ps # group[g] THEN Members(g) ELSE {})

Written(table, rows) == [x \in DOMAIN table |-> IF x \in DOMAIN rows THEN rows[x] ELSE table[x]]

CommitRights(t) ==
  /\ pending' = pending \ {t}
  /\ user' = Written(user, t.user)
  /\ member' = Written(member, t.member)
  /\ group' = Written(group, t.group)
  /\ moved' = moved \union {u \in DOMAIN t.member : cachedPerms[u] # None}
  /\ overlapped' = IF pending' = {} THEN overlapped ELSE overlapped \union People
  /\ UNCHANGED cachedPerms

AbortRights(t) == /\ pending' = pending \ {t}
                  /\ UNCHANGED <<user, member, group, cachedPerms, moved, overlapped>>

RightsExpire(u) == /\ cachedPerms[u] # None
                   /\ cachedPerms' = [cachedPerms EXCEPT ![u] = None]
                   /\ moved' = moved \ {u}
                   /\ overlapped' = IF pending = {} THEN overlapped \ {u} ELSE overlapped
                   /\ UNCHANGED <<user, member, group, pending>>

RightsNext == \/ \E u \in People : \/ Can(u) \/ RightsExpire(u)
                                 \/ EditPrivileges(u) \/ EditGroups(u) \/ LeaveGroups(u)
              \/ \E g \in Groups : EditGroup(g)
              \/ \E t \in pending : CommitRights(t) \/ AbortRights(t)

RightsSpec == RightsInit /\ [][RightsNext]_rightVars

-----------------------------------------------------------------------------

RightsTypeOK == /\ user \in [People -> UserRow]
                /\ member \in [People -> SUBSET Groups]
                /\ group \in [Groups -> SUBSET Perms]
                /\ cachedPerms \in [People -> (SUBSET Perms) \union {None}]

\* The cached permissions of a user are those of the tables, unless his groups
\* have been changed since (no handler that does so empties the cache) or
\* requests overlapped.
CopiesCurrent ==
  \A u \in People \ (moved \union overlapped) : cachedPerms[u] \in {None, Granted(u)}
=============================================================================
