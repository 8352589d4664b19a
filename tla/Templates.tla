----------------------------- MODULE Templates -----------------------------
(***************************************************************************)
(* notification-template-service: the templates of one user for one        *)
(* channel and type, one of which may be the default.                      *)
(*                                                                         *)
(* An RPC reads the template and then writes it.  SetDefault writes in a   *)
(* transaction of PostgreSQL (external) at READ COMMITTED: a statement     *)
(* sees what was committed when it began, waits for the locks of the rows  *)
(* that it found, and looks again at each when it has the lock; what it    *)
(* writes is seen by others from the commit on.  Contents are left out,    *)
(* and so are names, whose unique index only refuses a creation.           *)
(***************************************************************************)
EXTENDS Naturals, FiniteSets

CONSTANTS
    TemplateIds,     \* ids of templates
    SystemTemplates, \* those that came with the service and belong to nobody
    Editors          \* RPCs, each served once

ASSUME TemplatesAssumption == SystemTemplates \subseteq TemplateIds /\ "none" \notin Editors

VARIABLES
    template,  \* the committed rows
    rowLock,   \* the transaction that has locked each row
    edit       \* what each RPC is doing

templateVars == <<template, rowLock, edit>>

Unlocked == "none"
NoTemplate == [status |-> "unused", isDefault |-> FALSE, version |-> 0]
NewTemplate == [status |-> "stored", isDefault |-> FALSE, version |-> 1]
Deleted == [status |-> "deleted", isDefault |-> FALSE, version |-> 0]
NotServed == [stage |-> "none"]
Served == [stage |-> "over"]

HasTemplate(t) == template[t].status = "stored"
Defaults == {t \in TemplateIds : template[t].isDefault}
Own == TemplateIds \ SystemTemplates

TemplatesTypeOK ==
    /\ template \in [TemplateIds -> [status : {"unused", "stored", "deleted"},
                                     isDefault : BOOLEAN, version : Nat]]
    /\ rowLock \in [TemplateIds -> Editors \cup {Unlocked}]
    /\ DOMAIN edit = Editors

\* System templates are there; of the user's own any, and at most one is default.
TemplatesInit ==
    /\ \E S \in SUBSET Own : \E D \in SUBSET S :
         /\ Cardinality(D) <= 1
         /\ template = [t \in TemplateIds |->
                          IF t \in S \cup SystemTemplates
                          THEN [NewTemplate EXCEPT !.isDefault = (t \in D)] ELSE NoTemplate]
    /\ rowLock = [t \in TemplateIds |-> Unlocked]
    /\ edit = [r \in Editors |-> NotServed]

Edit(r, e) == edit' = [edit EXCEPT ![r] = e]
WriteRow(t, row) == template' = [template EXCEPT ![t] = row]

-----------------------------------------------------------------------------
(* CreateTemplate, CloneTemplate, UpdateTemplate and DeleteTemplate *)

Insert(r) ==
    /\ \E t \in Own : template[t] = NoTemplate /\ WriteRow(t, NewTemplate)
    /\ Edit(r, Served) /\ UNCHANGED rowLock

CreateTemplate(r) == edit[r] = NotServed /\ Insert(r)

GetByID(r, t, stage) ==
    /\ edit[r] = NotServed /\ HasTemplate(t)
    /\ Edit(r, [stage |-> stage, id |-> t, row |-> template[t]])
    /\ UNCHANGED <<template, rowLock>>

CloneTemplate(r, t) == GetByID(r, t, "clone")
UpdateTemplate(r, t) == t \in Own /\ GetByID(r, t, "update")
DeleteTemplate(r, t) == t \in Own /\ GetByID(r, t, "delete")

\* The row of a clone refers to its original, which has to be there still.
CloneInsert(r) == edit[r].stage = "clone" /\ HasTemplate(edit[r].id) /\ Insert(r)

\* The statement leaves is_default alone; the version is that of the copy.
UpdateWrite(r) ==
    LET t == edit[r].id
    IN  /\ edit[r].stage = "update" /\ rowLock[t] = Unlocked
        /\ IF HasTemplate(t) THEN WriteRow(t, [template[t] EXCEPT !.version = edit[r].row.version + 1])
           ELSE UNCHANGED template
        /\ Edit(r, Served) /\ UNCHANGED rowLock

Delete(r) ==
    LET t == edit[r].id
    IN  /\ edit[r].stage = "delete" /\ rowLock[t] = Unlocked
        /\ WriteRow(t, Deleted)
        /\ Edit(r, Served) /\ UNCHANGED rowLock

-----------------------------------------------------------------------------
(* SetDefault *)

SetDefaultTemplate(r, t) == t \in Own /\ GetByID(r, t, "select")

SelectTemplate(r) ==
    /\ edit[r].stage = "select"
    /\ Edit(r, IF HasTemplate(edit[r].id) THEN [stage |-> "begin", id |-> edit[r].id] ELSE Served)
    /\ UNCHANGED <<template, rowLock>>

\* The reset begins with the rows that are default now, ...
ResetFinds(r) ==
    /\ edit[r].stage = "begin"
    /\ Edit(r, [stage |-> "reset", id |-> edit[r].id, todo |-> Defaults, off |-> {}])
    /\ UNCHANGED <<template, rowLock>>

\* Mutant: there is no transaction around the two statements.
ResetRowMutant(r, t) ==
    /\ edit[r].stage = "reset" /\ t \in edit[r].todo /\ rowLock[t] = Unlocked
    /\ Edit(r, [edit[r] EXCEPT !.todo = @ \ {t}])
    /\ WriteRow(t, [template[t] EXCEPT !.isDefault = FALSE])
    /\ UNCHANGED rowLock

\* ... takes the lock of each and leaves out those that are no longer default.
ResetRow(r, t) ==
    /\ edit[r].stage = "reset" /\ t \in edit[r].todo /\ rowLock[t] = Unlocked
    /\ IF t \in Defaults
       THEN /\ Edit(r, [edit[r] EXCEPT !.todo = @ \ {t}, !.off = @ \cup {t}])
            /\ rowLock' = [rowLock EXCEPT ![t] = r]
       ELSE Edit(r, [edit[r] EXCEPT !.todo = @ \ {t}]) /\ UNCHANGED rowLock
    /\ UNCHANGED template

\* A row that is gone is not updated, which is no error.
SetRow(r) ==
    LET t == edit[r].id
    IN  /\ edit[r].stage = "reset" /\ edit[r].todo = {}
        /\ rowLock[t] \in {Unlocked, r}
        /\ Edit(r, [stage |-> "commit", off |-> edit[r].off,
                    on |-> IF HasTemplate(t) THEN {t} ELSE {}])
        /\ rowLock' = [rowLock EXCEPT ![t] = IF HasTemplate(t) THEN r ELSE @]
        /\ UNCHANGED template

Release(r) == rowLock' = [t \in TemplateIds |-> IF rowLock[t] = r THEN Unlocked ELSE rowLock[t]]

Commit(r) ==
    LET e == edit[r]
    IN  /\ e.stage = "commit"
        /\ template' = [t \in TemplateIds |->
                          IF t \in e.off \cup e.on
                          THEN [template[t] EXCEPT !.isDefault = (t \in e.on)] ELSE template[t]]
        /\ Release(r) /\ Edit(r, Served)

\* A statement fails, the connection is lost, or PostgreSQL breaks a deadlock.
RollBack(r) ==
    /\ edit[r].stage \notin {"none", "over"}
    /\ Release(r) /\ Edit(r, Served) /\ UNCHANGED template

-----------------------------------------------------------------------------

TemplatesNext ==
    \E r \in Editors :
        \/ CreateTemplate(r) \/ CloneInsert(r) \/ UpdateWrite(r) \/ Delete(r)
        \/ SelectTemplate(r) \/ ResetFinds(r) \/ SetRow(r) \/ Commit(r) \/ RollBack(r)
        \/ \E t \in TemplateIds : \/ CloneTemplate(r, t) \/ UpdateTemplate(r, t)
                                  \/ DeleteTemplate(r, t) \/ SetDefaultTemplate(r, t)
                                  \/ ResetRow(r, t)

TemplatesSpec == TemplatesInit /\ [][TemplatesNext]_templateVars

-----------------------------------------------------------------------------
(* Properties *)

\* A user who has a default template keeps one as long as nobody deletes a
\* template: no reader, no other SetDefault and no failing statement ever meets
\* the state between the two statements of a SetDefault.
DefaultKept ==
    [][ Defaults # {} /\ (\A t \in TemplateIds : template'[t] # Deleted)
          => \E t \in TemplateIds : template'[t].isDefault ]_templateVars

\* A user has one default template ("the default template", GetDefault reads
\* LIMIT 1).  Two transactions that do not see each other's row violate it.
OneDefault == Cardinality(Defaults) <= 1
=============================================================================
