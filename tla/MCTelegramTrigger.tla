--------------------------- MODULE MCTelegramTrigger ---------------------------
EXTENDS TelegramTrigger

\* start_offset values: default, drain, an explicit offset, a stray negative.
AllStarts == {0, -1, 2, -3}
Acks      == {3}
================================================================================
