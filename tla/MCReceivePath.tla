--------------------------- MODULE MCReceivePath ---------------------------
(***************************************************************************)
(* ReceivePath implements Inbox.                                           *)
(***************************************************************************)
EXTENDS ReceivePath

CallOpen == m_receive_callback.kind = "lambda"

\* What the open call would return: a packet counts from the moment its
\* callback begins, before the lambda has written all of it.
Pending ==
    CASE ~CallOpen -> 0
      [] CallOpen /\ loop \in BodyPcs -> heard
      [] CallOpen /\ loop \notin BodyPcs -> locals.msg

\* Reception seen as an Inbox.
Promise == INSTANCE Inbox WITH
    offered  <- IF loop = "lock" THEN heard - 1 ELSE heard,
    open     <- CallOpen,
    patient  <- ~limited,
    got      <- Pending,
    returned <- IF app = "return" THEN locals.msg ELSE result.msg

\* Every step of the two threads is a step of the inbox, or one it cannot see.
ImplementsInbox == Promise!Spec
=============================================================================
