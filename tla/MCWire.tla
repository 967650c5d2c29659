------------------------------- MODULE MCWire -------------------------------
(* Sessions of one client, with the codec of Messages. *)
EXTENDS Wire, Messages

Message(type, present, items, boot) ==
    [type |-> type, present |-> present, items |-> items, boot |-> boot]

\* Nothing optional but the boot, and everything.
Slim(type, boot) == Message(type, {<<"authority", "boot">>}, 1, boot)
Full(type, boot) == Message(type, optional_paths(Encoders[type], <<>>), 1, boot)

Hello == Full("Hello", "b1")
Register(boot) == Full("Register", boot)

\* Every request of a registered session, slim and full, and one beyond the limit
\* on collections; requests of a session that has not registered, that does not
\* name its boot, registers again under another boot, or starts with the wrong
\* message; and requests that follow one another.
MCConversations ==
    {<<Hello, Register("b1"), Slim(t, "b1")>> : t \in Mutations}
    \cup {<<Hello, Register("b1"), Full(t, "b1")>> : t \in Mutations}
    \cup {<<Hello, Register("b1"), Message("Revalidate", optional_paths(Encoders.Revalidate, <<>>), 2, "b1"), Slim("Heartbeat", "b1")>>,
          <<Hello, Register("b1"), Register("b2"), Slim("Withdraw", "b2")>>,
          <<Hello, Register("b1"), Slim("SnapshotRequest", "b1"), Slim("Heartbeat", "b1")>>,
          <<Hello, Message("Heartbeat", {}, 0, "b1")>>,
          <<Hello, Message("Register", {<<"rack">>}, 0, "b1")>>,
          <<Hello, Full("Query", "b1")>>, <<Hello, Message("Query", {}, 0, "b1")>>,
          <<Hello, Full("HelloAck", "b1")>>, <<Register("b1")>>}
=============================================================================
