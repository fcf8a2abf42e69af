------------------------------ MODULE MCActionCall -----------------------------
EXTENDS ActionCall, Sequences

Bunny     == INSTANCE BunnyActions
Files     == INSTANCE FileActions
Infisical == INSTANCE InfisicalActions
Lexoffice == INSTANCE LexofficeActions
Llm       == INSTANCE LlmActions
Matrix    == INSTANCE MatrixActions
Paperless == INSTANCE PaperlessActions
Synapse   == INSTANCE SynapseActions
Telegram  == INSTANCE TelegramActions
YouTrack  == INSTANCE YouTrackActions

\* Things of two connectors are two kinds, though both may be called "room".
Of(connector, rows) == {[a EXCEPT !.kind = connector \o "/" \o @] : a \in rows}

AllActions ==
    UNION {Of("bunny", Bunny!Rows), Of("file", Files!Rows),
           Of("infisical", Infisical!Rows), Of("lexoffice", Lexoffice!Rows),
           Of("llm", Llm!Rows), Of("matrix", Matrix!Rows),
           Of("paperless", Paperless!Rows), Of("synapse", Synapse!Rows),
           Of("telegram", Telegram!Rows), Of("youtrack", YouTrack!Rows)}
================================================================================
