-------------------------------- MODULE Chat --------------------------------
(***************************************************************************)
(* 05-websockets: the chat server.  A socket joins with a name, may join   *)
(* again, and hears what is said from then on; what one that never joined  *)
(* says is said by "anonymous".                                            *)
(***************************************************************************)
EXTENDS Naturals, Sequences

CONSTANTS
    Sockets,
    Names,
    MaxSaid     \* bound: broadcasts

ASSUME ChatAssumption == MaxSaid \in Nat

VARIABLES
    readyState,      \* readyState: "none" (not connected), "open" or "closing"
    names,      \* clients: socket -> username
    said,       \* the broadcasts so far: [kind, by]
    sent,       \* per socket, sent and not yet arrived
    heard,      \* per socket, arrived
    joinedAt    \* per socket, how much had been said when it first joined

chatVars == <<readyState, names, said, sent, heard, joinedAt>>

Anonymous == "anonymous"

ChatInit ==
    /\ readyState = [s \in Sockets |-> "none"]
    /\ names = <<>>
    /\ said = <<>>
    /\ sent = [s \in Sockets |-> <<>>]
    /\ heard = [s \in Sockets |-> <<>>]
    /\ joinedAt = [s \in Sockets |-> 0]

NameOf(s) == IF s \in DOMAIN names THEN names[s] ELSE Anonymous

\* broadcast() to the sockets of `to'.
Say(kind, by, to) ==
    /\ Len(said) < MaxSaid
    /\ said' = Append(said, [kind |-> kind, by |-> by])
    /\ sent' = [s \in Sockets |-> IF s \in to /\ readyState[s] = "open"
                                    THEN Append(sent[s], [kind |-> kind, by |-> by]) ELSE sent[s]]

\* Welcome and error messages, which go to one socket, are left out.
ConnectSocket(s) ==
    /\ readyState[s] = "none"
    /\ readyState' = [readyState EXCEPT ![s] = "open"]
    /\ UNCHANGED <<names, said, sent, heard, joinedAt>>

JoinChat(s, name) ==
    /\ readyState[s] = "open"
    /\ names' = [t \in DOMAIN names \cup {s} |-> IF t = s THEN name ELSE names[t]]
    /\ Say("joined", name, DOMAIN names \cup {s})
    /\ joinedAt' = [joinedAt EXCEPT ![s] = IF s \in DOMAIN names THEN @ ELSE Len(said)]
    /\ UNCHANGED <<readyState, heard>>

ChatMessage(s) ==
    /\ readyState[s] = "open"
    /\ Say("chat", NameOf(s), DOMAIN names)
    /\ UNCHANGED <<readyState, names, heard, joinedAt>>

\* The connection breaks or its client closes it: send() is not tried any more.
SocketCloses(s) ==
    /\ readyState[s] = "open"
    /\ readyState' = [readyState EXCEPT ![s] = "closing"]
    /\ UNCHANGED <<names, said, sent, heard, joinedAt>>

\* The close event: the name is given up and the others are told.
SocketClosed(s) ==
    /\ readyState[s] = "closing"
    /\ readyState' = [readyState EXCEPT ![s] = "none"]
    /\ names' = [t \in DOMAIN names \ {s} |-> names[t]]
    /\ Len(said) < MaxSaid
    /\ said' = Append(said, [kind |-> "left", by |-> NameOf(s)])
    /\ sent' = [t \in Sockets |-> IF t = s THEN <<>>
                                  ELSE IF t \in DOMAIN names /\ readyState[t] = "open"
                                    THEN Append(sent[t], [kind |-> "left", by |-> NameOf(s)])
                                  ELSE sent[t]]
    /\ heard' = [heard EXCEPT ![s] = <<>>]
    /\ joinedAt' = [joinedAt EXCEPT ![s] = 0]

MessageArrives(s) ==
    /\ readyState[s] = "open" /\ sent[s] # <<>>
    /\ heard' = [heard EXCEPT ![s] = Append(@, Head(sent[s]))]
    /\ sent' = [sent EXCEPT ![s] = Tail(@)]
    /\ UNCHANGED <<readyState, names, said, joinedAt>>

ChatNext ==
    \E s \in Sockets :
        \/ ConnectSocket(s) \/ ChatMessage(s) \/ SocketCloses(s) \/ SocketClosed(s) \/ MessageArrives(s)
        \/ \E name \in Names : JoinChat(s, name)

ChatSpec == ChatInit /\ [][ChatNext]_chatVars

-----------------------------------------------------------------------------

\* A socket that has joined hears all that is said from its own joining on, in
\* the order it was said, and one that has not hears nothing: those who talk see
\* one conversation, whoever joins, joins again, breaks off or leaves meanwhile.
OneConversation ==
    \A s \in Sockets :
        readyState[s] = "open" =>
          heard[s] \o sent[s] =
            IF s \in DOMAIN names THEN SubSeq(said, joinedAt[s] + 1, Len(said)) ELSE <<>>
=============================================================================
