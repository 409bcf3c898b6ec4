------------------------------- MODULE Pushes -------------------------------
(***************************************************************************)
(* What the two servers that push to others (03-webhooks, 05-websockets)   *)
(* promise those they push to.  They share no state.                       *)
(***************************************************************************)
EXTENDS Webhooks, Chat

PushSpec == HookSpec /\ ChatSpec

\* Webhooks announce what has happened to a task once, and are processed once
\* (sender.ts:97, receiver.ts:68); those in a chat hear one conversation
\* (05-websockets/server.ts:114).
PushesTellWhatHappens == WebhookPromises /\ OneConversation
=============================================================================
