----------------------------- MODULE MCWebhookHost -----------------------------
EXTENDS WebhookHost

\* Two instances; one that is named twice; three, the last named twice.
Mounting(session, path) == [session |-> session, path |-> path]
Lists == {<<Mounting(1, "a"), Mounting(2, "b")>>,
          <<Mounting(1, "a"), Mounting(2, "a")>>,
          <<Mounting(1, "a"), Mounting(2, "b"), Mounting(3, "b")>>}
================================================================================
