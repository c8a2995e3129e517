----------------------------- MODULE JabberBot -----------------------------
(***************************************************************************)
(* The jabber bot (scripts/jabber_bot.py), a process of its own that takes *)
(* messages from the portal by XML-RPC (utils/jabber.py), queues them in   *)
(* memory and passes them to the jabber server.  It does one thing at a    *)
(* time: handle a call, then empty the queue.                              *)
(***************************************************************************)
EXTENDS Naturals, Sequences, SequencesExt

CONSTANTS Messages,      \* calls of the portal, one for each message
          To(_),         \* the addresses of a message, in order
          Broken,        \* messages whose XHTML cannot be parsed
          AutoReload,    \* --auto-reload
          None,
          MaxFailures    \* bound: connections lost

VARIABLES bot,        \* "up", "failed" (between two connections) or "stopped"
          queue,      \* <<message, address>> accepted and not sent
          call,       \* message -> None, "waiting", or what send() returned
          delivered,  \* <<message, address>> passed to the jabber server
          lost,       \* history: what the bot has forgotten when its connection broke
          failures

botVars == <<bot, queue, call, delivered, lost, failures>>

Init == /\ bot = "up" /\ queue = <<>>
        /\ call = [m \in Messages |-> None]
        /\ delivered = <<>> /\ lost = {} /\ failures = 0

FirstCopy(m) == <<<<m, To(m)[1]>>>>
Copies(m) == [i \in DOMAIN To(m) |-> <<m, To(m)[i]>>]

\* send: without a bot it returns False, else it waits for an answer.
Send(m) == /\ call[m] = None
           /\ call' = [call EXCEPT ![m] = IF bot = "up" THEN "waiting" ELSE "False"]
           /\ UNCHANGED <<bot, queue, delivered, lost, failures>>

\* handle_request: send_message queues a copy for every address.
Handle(m) == /\ bot = "up" /\ queue = <<>> /\ call[m] = "waiting"
             /\ IF m \in Broken
                THEN /\ call' = [call EXCEPT ![m] = "ValueError"]
                     /\ UNCHANGED queue
                ELSE /\ call' = [call EXCEPT ![m] = "True"]
                     /\ queue' = queue \o Copies(m)
             /\ UNCHANGED <<bot, delivered, lost, failures>>

Deliver == /\ bot = "up" /\ queue # <<>>
           /\ delivered' = Append(delivered, Head(queue))
           /\ queue' = Tail(queue)
           /\ UNCHANGED <<bot, call, lost, failures>>

\* The connection is lost while a message is sent: the queue goes with the bot,
\* and who waits for an answer gets a socket error.
Fail == /\ bot = "up" /\ queue # <<>> /\ failures < MaxFailures
        /\ bot' = IF AutoReload THEN "failed" ELSE "stopped"
        /\ lost' = lost \union ToSet(queue)
        /\ queue' = <<>>
        /\ call' = [m \in Messages |-> IF call[m] = "waiting" THEN "False" ELSE call[m]]
        /\ failures' = failures + 1
        /\ UNCHANGED delivered

\* main: a bot that cannot connect stops for good, reloading or not.
Restart == /\ bot = "failed"
           /\ bot' \in {"up", "stopped"}
           /\ UNCHANGED <<queue, call, delivered, lost, failures>>

Bot == Deliver \/ Restart \/ \E m \in Messages : Handle(m)

Next == Bot \/ Fail \/ \E m \in Messages : Send(m)

\* The bot is a loop that waits for nothing but its socket.
Spec == Init /\ [][Next]_botVars /\ WF_botVars(Bot)

-----------------------------------------------------------------------------

TypeOK == /\ bot \in {"up", "failed", "stopped"}
          /\ call \in [Messages -> {None, "waiting", "True", "False", "ValueError"}]
          /\ failures \in 0..MaxFailures

\* What send() returned True for reaches the jabber server, in every copy, unless
\* the connection broke while it was in the queue; and every call gets an answer.
AcceptedArrives ==
  \A m \in Messages :
    /\ call[m] = "waiting" ~> call[m] # "waiting"
    /\ call[m] = "True" ~> {m} \X ToSet(To(m)) \subseteq ToSet(delivered) \union lost
=============================================================================
