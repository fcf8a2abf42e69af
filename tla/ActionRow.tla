------------------------------- MODULE ActionRow -------------------------------
(***************************************************************************)
(* What the Run of one connector action does, as data.  Every connector    *)
(* has a module of such rows; ActionCall gives them their meaning.         *)
(*                                                                         *)
(*   kind      the sort of thing the action is about                       *)
(*   effect    what the service does with the request:                     *)
(*             "read"     returns the thing                                *)
(*             "create"   makes one                                        *)
(*             "update"   changes the fields in the body, and no other     *)
(*             "upsert"   does either                                      *)
(*             "replace"  makes the body the whole thing                   *)
(*             "delete"   removes it                                       *)
(*             "send"     passes the body on (a message, a command)        *)
(*   needs     parameters Run refuses to find zero                         *)
(*   scope     parameters that fall back on a default of the credential    *)
(*   oneOf     parameters of which exactly one must be there, if any       *)
(*   always    parameters the body carries whatever they are,              *)
(*   set       those it carries when they are not zero,                    *)
(*   has       and those it carries when the caller passed them            *)
(*   pairs     <<p, q>>: the body carries p when q is not zero             *)
(*   defaults  parameters the schema has a default for                     *)
(*   refills   parameters for which Run has a default in place of zero     *)
(*   nonempty  Run refuses to send what the body always carries and no more *)
(*   lookup    requests that only read come before the one with the effect *)
(*   followUp  parameters that ask for a second change afterwards; when it *)
(*             fails the call is still reported done, with a note          *)
(*   retries   the request is repeated while the service says 429          *)
(*   async     the service answers before it has done the work             *)
(*   saves     what comes back is written to a local file                  *)
(*                                                                         *)
(* Parameters that only filter, page or format what is read are left out,  *)
(* and so are those that name the thing when Run does not look at them.    *)
(* What a body says of how the service is to go about it (whether to log    *)
(* devices out, to purge, to erase) is a field like the others.             *)
(***************************************************************************)

Action(kind, effect, needs) ==
    [kind |-> kind, effect |-> effect, needs |-> needs,
     scope |-> {}, oneOf |-> {}, always |-> {}, set |-> {}, has |-> {},
     pairs |-> {}, defaults |-> {}, refills |-> {}, nonempty |-> FALSE, lookup |-> FALSE,
     followUp |-> {}, retries |-> FALSE, async |-> FALSE, saves |-> FALSE]

Read(kind, needs)    == Action(kind, "read", needs)
Create(kind, needs)  == Action(kind, "create", needs)
Update(kind, needs)  == Action(kind, "update", needs)
Upsert(kind, needs)  == Action(kind, "upsert", needs)
Replace(kind, needs) == Action(kind, "replace", needs)
Delete(kind, needs)  == Action(kind, "delete", needs)
Send(kind, needs)    == Action(kind, "send", needs)

Effects == {"read", "create", "update", "upsert", "replace", "delete", "send"}

Params(a) == a.needs \cup a.scope \cup a.oneOf \cup a.always \cup a.set
             \cup a.has \cup a.defaults \cup a.refills \cup a.followUp
             \cup {pq[1] : pq \in a.pairs}

\* The parameters a body can carry.
Carries(a) == a.always \cup a.set \cup a.has \cup {pq[1] : pq \in a.pairs}
================================================================================
