------------------------------ MODULE EmailSession -----------------------------
(***************************************************************************)
(* One session of the email connector (connectors/email), as pgf serve     *)
(* keeps it: requests run its actions side by side, each by IMAP commands  *)
(* on the one client that the session dials when it first needs it.  What  *)
(* SEARCH and FETCH work on is the mailbox that was selected last on that  *)
(* connection, by whichever request.  Nothing is locked, and a connection  *)
(* that has broken is not replaced.                                        *)
(*                                                                         *)
(* External: the IMAP server, which keeps a selected mailbox for each      *)
(* connection, and the SMTP server.                                        *)
(***************************************************************************)
EXTENDS Naturals, FiniteSets

CONSTANTS Runs,         \* runs of its actions, one for each request
          Folders,
          MaxInFlight,  \* how many run at a time
          MaxDials      \* bound: connections that are opened

\* What the theorems about it assume.
EmailAssumption ==
    IsFiniteSet(Runs) /\ "none" \notin Folders /\ MaxInFlight \in Nat /\ MaxDials \in Nat

Reading == {"read-emails", "search-emails", "get-email", "download-attachment"}
Actions == Reading \cup {"list-folders", "save-draft", "send-email"}

\* The mailbox "none" is none; so is connection 0.
Mailboxes == Folders \cup {"none"}
Conns == 1..MaxDials

VARIABLES imap,      \* session.imap
          dialled,   \* connections opened so far are 1..dialled
          alive,     \* those that work
          selected,  \* [Conns -> Mailboxes]
          action, folder,  \* [Runs -> what it asks for]
          at,        \* [Runs -> where it is]
          conn,      \* [Runs -> the client it got from imapClient]
          found,     \* [Runs -> mailbox its numbers are of]
          from       \* [Runs -> mailbox the messages it returned are of]

asked == <<action, folder>>
emailVars == <<imap, dialled, alive, selected, asked, at, conn, found, from>>

EmailInit ==
    /\ imap = 0 /\ dialled = 0 /\ alive = {}
    /\ selected = [c \in Conns |-> "none"]
    /\ action \in [Runs -> Actions] /\ folder \in [Runs -> Folders]
    /\ at = [r \in Runs |-> "new"] /\ conn = [r \in Runs |-> 0]
    /\ found = [r \in Runs |-> "none"] /\ from = [r \in Runs |-> "none"]

Busy == {r \in Runs : at[r] \notin {"new", "done", "failed"}}

Goes(r, l) == at' = [at EXCEPT ![r] = l]

\* The parameters are read; a required one that is missing ends the request.
Begin(r) == /\ at[r] = "new" /\ Cardinality(Busy) < MaxInFlight
            /\ at' \in {[at EXCEPT ![r] = IF action[r] = "send-email" THEN "smtp" ELSE "client"],
                        [at EXCEPT ![r] = "failed"]}
            /\ UNCHANGED <<imap, dialled, alive, selected, asked, conn, found, from>>

\* smtp.Send has a connection of its own.
SendEmail(r) == /\ at[r] = "smtp"
                /\ \/ Goes(r, "done") \/ Goes(r, "failed")
                /\ UNCHANGED <<imap, dialled, alive, selected, asked, conn, found, from>>

(***************************************************************************)
(* imapClient.                                                             *)
(***************************************************************************)
FirstCommand(r) == CASE action[r] \in Reading       -> "select"
                     [] action[r] = "list-folders"  -> "list"
                     [] action[r] = "save-draft"    -> "append"
                     [] action[r] = "send-email"    -> "smtp"

HaveClient(r) == /\ at[r] = "client" /\ imap # 0
                 /\ Goes(r, "take")
                 /\ UNCHANGED <<imap, dialled, alive, selected, asked, conn, found, from>>

\* s.imap is read again to be returned.
TakeClient(r) == /\ at[r] = "take" /\ imap # 0
                 /\ conn' = [conn EXCEPT ![r] = imap]
                 /\ Goes(r, FirstCommand(r))
                 /\ UNCHANGED <<imap, dialled, alive, selected, asked, found, from>>

\* Close has set it to nil meanwhile: the first command panics, which ends the
\* request.
TakesNil(r) == /\ at[r] = "take" /\ imap = 0
               /\ Goes(r, "failed")
               /\ UNCHANGED <<imap, dialled, alive, selected, asked, conn, found, from>>

NoClient(r) == /\ at[r] = "client" /\ imap = 0
               /\ Goes(r, "dial")
               /\ UNCHANGED <<imap, dialled, alive, selected, asked, conn, found, from>>

\* Whoever dials last leaves its client in the session; another one that was
\* there is no longer closed by anybody.
Dial(r) == /\ at[r] = "dial" /\ dialled < MaxDials
           /\ dialled' = dialled + 1
           /\ alive' = alive \cup {dialled'}
           /\ imap' = dialled'
           /\ conn' = [conn EXCEPT ![r] = dialled']
           /\ Goes(r, FirstCommand(r))
           /\ UNCHANGED <<selected, asked, found, from>>

DialFails(r) == /\ at[r] = "dial"
                /\ Goes(r, "failed")
                /\ UNCHANGED <<imap, dialled, alive, selected, asked, conn, found, from>>

(***************************************************************************)
(* Commands.                                                               *)
(***************************************************************************)
Works(r) == conn[r] \in alive
Mailbox(r) == selected[conn[r]]

\* read-emails returns at once when the mailbox is empty.
Select(r) == /\ at[r] = "select" /\ Works(r)
             /\ selected' = [selected EXCEPT ![conn[r]] = folder[r]]
             /\ IF action[r] = "search-emails" THEN Goes(r, "search") /\ UNCHANGED found
                ELSE /\ found' = [found EXCEPT ![r] = folder[r]]
                     /\ Goes(r, "fetch") \/ (action[r] = "read-emails" /\ Goes(r, "done"))
             /\ UNCHANGED <<imap, dialled, alive, asked, conn, from>>

\* A mailbox that cannot be selected leaves none selected.
SelectFails(r) == /\ at[r] = "select" /\ Works(r)
                  /\ selected' = [selected EXCEPT ![conn[r]] = "none"]
                  /\ Goes(r, "failed")
                  /\ UNCHANGED <<imap, dialled, alive, asked, conn, found, from>>

\* Sequence numbers in the mailbox selected now; nothing more when there are none.
Search(r) == /\ at[r] = "search" /\ Works(r) /\ Mailbox(r) # "none"
             /\ found' = [found EXCEPT ![r] = Mailbox(r)]
             /\ Goes(r, "fetch") \/ Goes(r, "done")
             /\ UNCHANGED <<imap, dialled, alive, selected, asked, conn, from>>

Fetch(r) == /\ at[r] = "fetch" /\ Works(r) /\ Mailbox(r) # "none"
            /\ from' = [from EXCEPT ![r] = Mailbox(r)]
            /\ Goes(r, "done")
            /\ UNCHANGED <<imap, dialled, alive, selected, asked, conn, found>>

ListFolders(r) == /\ at[r] = "list" /\ Works(r)
                  /\ Goes(r, "done")
                  /\ UNCHANGED <<imap, dialled, alive, selected, asked, conn, found, from>>

\* APPEND names its folder and leaves the selected mailbox alone.
SaveDraft(r) == /\ at[r] = "append" /\ Works(r)
                /\ found' = [found EXCEPT ![r] = folder[r]]
                /\ Goes(r, "done")
                /\ UNCHANGED <<imap, dialled, alive, selected, asked, conn, from>>

\* A query that names no field, a message that is not there, a file that
\* cannot be written, a connection that is broken, no mailbox to work on.
CommandFails(r) == /\ at[r] \in {"select", "search", "fetch", "list", "append"}
                   /\ Goes(r, "failed")
                   /\ UNCHANGED <<imap, dialled, alive, selected, asked, conn, found, from>>

Drop(c) == /\ c \in alive
           /\ alive' = alive \ {c}
           /\ UNCHANGED <<imap, dialled, selected, asked, at, conn, found, from>>

\* closeAll of the daemon, which may not wait for requests in flight.
Close == /\ imap # 0
         /\ alive' = alive \ {imap}
         /\ imap' = 0
         /\ UNCHANGED <<dialled, selected, asked, at, conn, found, from>>

Step(r) == \/ Begin(r) \/ SendEmail(r)
           \/ HaveClient(r) \/ TakeClient(r) \/ TakesNil(r)
           \/ NoClient(r) \/ Dial(r) \/ DialFails(r)
           \/ Select(r) \/ SelectFails(r) \/ Search(r) \/ Fetch(r)
           \/ ListFolders(r) \/ SaveDraft(r) \/ CommandFails(r)

EmailNext == \/ \E r \in Runs : Step(r)
        \/ \E c \in Conns : Drop(c)
        \/ Close

EmailSpec == EmailInit /\ [][EmailNext]_emailVars

(***************************************************************************)
(* Properties.                                                             *)
(***************************************************************************)

\* Messages are returned from, and numbers were found in, the folder that the
\* request names, whatever else runs on the session ("connectors are expected
\* to be concurrent-safe ... they wrap HTTP/IMAP clients that handle
\* concurrency themselves", sessionFor of cmd/pgf/serve.go).
RightFolder == \A r \in Runs :
                  at[r] = "done" => /\ from[r] \in {"none", folder[r]}
                                    /\ found[r] \in {"none", folder[r]}
================================================================================
