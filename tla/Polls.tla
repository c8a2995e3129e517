------------------------------- MODULE Polls -------------------------------
(***************************************************************************)
(* The polls of one topic: added and deleted in the form that edits its    *)
(* first post (forum/views.py edit), voted in while reading it (viewtopic).*)
(* A request reads in one step and commits in another.                     *)
(***************************************************************************)
EXTENDS Naturals, FiniteSets

CONSTANTS PollIds, Options, Voters, NoPoll, DeletedPoll,
          NoOption,              \* an id in a vote that is of no option of the poll
          MaxBallots, MaxVotes   \* bounds: requests at a time, votes per option

VARIABLES saved,      \* the topic exists
          hasPoll,    \* its has_poll column
          pollRow,    \* id -> a PollRow, NoPoll before, DeletedPoll after
          voted,      \* id -> voter -> his rows in forum_voter
          blank,      \* history: id -> rows of voters who named no option of the poll
          ballots,    \* requests that have read and not committed
          votedTwice, \* history: <<poll, voter>> with votes in two requests at a time
          crossed     \* history: forms that changed the polls overlapped

pollVars == <<saved, hasPoll, pollRow, voted, blank, ballots, votedTwice, crossed>>

PollRow == [bound : BOOLEAN, open : BOOLEAN, multiple : BOOLEAN,
            votes : [Options -> 0..MaxVotes]]

\* A poll has finitely many options.
PollsAssumption ==
  /\ IsFiniteSet(Options) /\ MaxVotes \in Nat
  /\ NoOption \notin Options
  /\ NoPoll # DeletedPoll /\ NoPoll \notin PollRow /\ DeletedPoll \notin PollRow

PollsInit == /\ saved \in BOOLEAN /\ hasPoll = FALSE
             /\ pollRow = [q \in PollIds |-> NoPoll]
             /\ voted = [q \in PollIds |-> [v \in Voters |-> 0]]
             /\ blank = [q \in PollIds |-> 0]
             /\ ballots = {} /\ votedTwice = {} /\ crossed = FALSE

PollThere(q) == pollRow[q] \notin {NoPoll, DeletedPoll}
Bound == {q \in PollIds : PollThere(q) /\ pollRow[q].bound}

\* The votes counted for each option, and the rows of each voter, one by one.
Counts(f, S) == UNION {{x} \X (1..f[x]) : x \in S}
Total(q) == Cardinality(Counts(pollRow[q].votes, Options))
Voted(q) == Cardinality(Counts(voted[q], Voters))

Forms == {r \in ballots : r.kind # "vote"}

Rivals(r) == {p \in ballots : /\ p.kind = "vote" /\ r.kind = "vote"
                              /\ p.poll = r.poll /\ p.voter = r.voter}

FreeId == CHOOSE i \in 1..MaxBallots : \A p \in ballots : p.id # i

BeginPoll(r) == /\ Cardinality(ballots) < MaxBallots
                /\ ballots' = ballots \union {r}
                /\ crossed' = (crossed \/ (r.kind # "vote" /\ Forms # {}))
                /\ votedTwice' = IF Rivals(r) = {} THEN votedTwice
                                 ELSE votedTwice \union {<<r.poll, r.voter>>}
                /\ UNCHANGED <<saved, hasPoll, pollRow, voted, blank>>

-----------------------------------------------------------------------------
(* The form: polls are saved as they are added, and bound to a new topic when *)
(* it is sent.                                                              *)

AddPoll(q) ==
  /\ pollRow[q] = NoPoll
  /\ \E multiple \in BOOLEAN :
       pollRow' = [pollRow EXCEPT ![q] = [bound |-> saved, open |-> TRUE,
                                          multiple |-> multiple,
                                          votes |-> [o \in Options |-> 0]]]
  /\ hasPoll' = (hasPoll \/ saved)
  /\ crossed' = (crossed \/ Forms # {})
  /\ UNCHANGED <<saved, voted, blank, ballots, votedTwice>>

OtherPolls(q) == Bound \ {q}

DeletePoll(q) ==
  /\ saved /\ q \in Bound
  /\ BeginPoll([kind |-> "delete", id |-> FreeId, poll |-> q, has |-> OtherPolls(q) # {}])

\* The polls of the topic and those the form has added.
Send(added) ==
  /\ added \subseteq {q \in PollIds : PollThere(q)}
  /\ BeginPoll([kind |-> "send", id |-> FreeId, polls |-> Bound \union added])

Removed(q) == /\ pollRow' = [pollRow EXCEPT ![q] = DeletedPoll]
              /\ voted' = [voted EXCEPT ![q] = [v \in Voters |-> 0]]
              /\ blank' = [blank EXCEPT ![q] = 0]

CommitForm(r) ==
  /\ r.kind \in {"delete", "send"}
  /\ ballots' = ballots \ {r}
  /\ IF r.kind = "delete"
     THEN /\ PollThere(r.poll) /\ Removed(r.poll)
          /\ hasPoll' = r.has
          /\ UNCHANGED saved
     ELSE /\ saved' = TRUE
          /\ hasPoll' = (r.polls # {})
          /\ pollRow' = [q \in PollIds |-> IF q \in r.polls /\ PollThere(q)
                                           THEN [pollRow[q] EXCEPT !.bound = TRUE]
                                           ELSE pollRow[q]]
          /\ UNCHANGED <<voted, blank>>
  /\ UNCHANGED <<votedTwice, crossed>>

-----------------------------------------------------------------------------
(* Votes                                                                    *)

\* has_participated
NeverVoted(q, v) == FALSE
Participated(q, v) == voted[q][v] > 0

\* One request votes in one poll here; viewtopic takes those of a topic in turn.
\* It takes whatever ids the request names, those of no option of the poll too.
Vote(q, v) ==
  /\ hasPoll /\ q \in Bound /\ pollRow[q].open /\ ~Participated(q, v)
  /\ \E os \in (SUBSET (Options \union {NoOption})) \ {{}} :
       /\ pollRow[q].multiple \/ Cardinality(os) = 1
       /\ BeginPoll([kind |-> "vote", id |-> FreeId, poll |-> q, voter |-> v, options |-> os])

\* The counters of the options that are of the poll are increased in the database,
\* from the values they have there.
Counted(votes, os) == [o \in Options |-> IF o \in os THEN votes[o] + 1 ELSE votes[o]]

Known(r) == r.options \intersect Options

CommitVote(r) ==
  /\ r.kind = "vote" /\ PollThere(r.poll)
  /\ \A o \in Known(r) : pollRow[r.poll].votes[o] < MaxVotes
  /\ ballots' = ballots \ {r}
  /\ voted' = [voted EXCEPT ![r.poll][r.voter] = @ + 1]
  /\ pollRow' = [pollRow EXCEPT ![r.poll].votes = Counted(@, Known(r))]
  /\ blank' = [blank EXCEPT ![r.poll] = IF Known(r) = {} THEN @ + 1 ELSE @]
  /\ UNCHANGED <<saved, hasPoll, votedTwice, crossed>>

Close(q) == /\ PollThere(q) /\ pollRow[q].open
            /\ pollRow' = [pollRow EXCEPT ![q].open = FALSE]
            /\ UNCHANGED <<saved, hasPoll, voted, blank, ballots, votedTwice, crossed>>

\* A request fails, as one does whose poll has been deleted meanwhile.
RollbackPoll(r) == /\ ballots' = ballots \ {r}
                   /\ UNCHANGED <<saved, hasPoll, pollRow, voted, blank, votedTwice, crossed>>

PollsNext == \/ \E q \in PollIds : AddPoll(q) \/ DeletePoll(q) \/ Close(q)
             \/ \E added \in SUBSET PollIds : Send(added)
             \/ \E q \in PollIds, v \in Voters : Vote(q, v)
             \/ \E r \in ballots : CommitForm(r) \/ CommitVote(r) \/ RollbackPoll(r)

PollsSpec == PollsInit /\ [][PollsNext]_pollVars

-----------------------------------------------------------------------------

PollsTypeOK == /\ hasPoll \in BOOLEAN
               /\ pollRow \in [PollIds -> PollRow \union {NoPoll, DeletedPoll}]
               /\ voted \in [PollIds -> [Voters -> Nat]]
               /\ blank \in [PollIds -> Nat]

\* Nobody votes twice in a poll, except by two requests at a time; and the votes
\* shown are those that were cast: one for each voter who named an option of the
\* poll, or more where a vote may name several.  (The row of one who named none is
\* written all the same: he has voted, and no counter shows it.)
OneVoteEach ==
  \A q \in PollIds : PollThere(q) =>
    /\ \A v \in Voters : <<q, v>> \notin votedTwice => voted[q][v] <= 1
    /\ Total(q) + blank[q] >= Voted(q)
    /\ ~pollRow[q].multiple => Total(q) + blank[q] = Voted(q)

\* A topic with polls says that it has some, and one without does not, unless two
\* of the forms that change them overlapped.  (Without the flag nobody could vote.)
HasPollIsTrue == ~crossed /\ saved => (hasPoll <=> Bound # {})

\* A voter counts once, and has_poll says whether the topic has polls.
PollsAreTrue == OneVoteEach /\ HasPollIsTrue

=============================================================================
