----------------------------- MODULE Publishing -----------------------------
(***************************************************************************)
(* The life of one outbox name (pg-tide-ext/src/outbox.rs): it is created, *)
(* enabled, disabled and dropped, roles are granted and denied publishing, *)
(* consumer groups come and go, while publishers and a relay work.  Every  *)
(* statement of a call reads what is committed when it starts, so a call   *)
(* acts on checks that may be stale.  What OutboxRelay leaves out is here: *)
(* the checks before the fence, and an outbox that is dropped and made     *)
(* anew under the same name, while the relay's checkpoint stays.           *)
(***************************************************************************)
EXTENDS Integers, FiniteSets, FiniteSetsExt

CONSTANTS
    Roles,        \* sessions that publish, each under a role of its own
    Superusers,   \* the roles that every check lets pass
    Admins,       \* sessions that manage the outbox
    Groups,       \* names of consumer groups
    NoOutbox,     \* no outbox has the name
    MaxId,        \* bound: ids that are drawn
    MaxChanges    \* bound: administrative calls

VARIABLES
    outbox,       \* NoOutbox, or whether it is enabled (tide.tide_outbox_config)
    publishers,   \* tide.outbox_publishers
    members,      \* the roles with the role tide_publisher
    groups,       \* tide.tide_consumer_groups
    offsets,      \* groups with a row in tide.tide_consumer_offsets
    messages,     \* committed rows of tide.tide_outbox_messages
    last_id,      \* the identity of that table
    call,         \* how far each publishing session is, with the row it wrote
    admin,        \* what each administrative session has checked and not yet done
    polled,       \* the last id of the batch the relay has read, or 0
    checkpoint,   \* tide.relay_consumer_offsets: no drop removes it
    delivered,    \* ghost: rows of the outbox there is now that the relay has read
    saw_enabled,  \* ghost: sessions whose call saw the outbox enabled at a moment
    saw_permitted,\* ghost: sessions whose call saw its role permitted at a moment
    changes

outbox_vars == <<outbox, publishers, members, groups, offsets>>
relay_vars == <<polled, checkpoint, delivered>>
vars == <<outbox_vars, messages, last_id, call, admin, relay_vars, saw_enabled, saw_permitted, changes>>

outbox_exists == outbox # NoOutbox
Enabled == outbox = "enabled"

-----------------------------------------------------------------------------
(* outbox_publish() *)

\* The rule before 0.40: an outbox without ACL rows is open to all.
OpenWithoutRows(role) ==
    role \in Superusers \/ publishers = {} \/ role \in members \cap publishers

acl_verdict(role) ==
    role \in Superusers \/ role \in members \cap publishers

\* What the documentation calls permitted (docs/src/guides/security-guide.md):
\* the outbox names the role, and the role may publish at all.
Permitted(role) == role \in Superusers \/ (role \in publishers /\ role \in members)

Stage(p, stage) == call' = [call EXCEPT ![p] = [stage |-> stage, id |-> 0]]

read_enabled(p) ==
    /\ call[p].stage = "idle"
    /\ last_id < MaxId
    /\ Enabled                               \* else OutboxNotFound, or disabled
    /\ Stage(p, "found")
    /\ UNCHANGED <<outbox_vars, messages, last_id, admin, relay_vars, changes>>

check_acl(p) ==
    /\ call[p].stage = "found"
    /\ Stage(p, IF acl_verdict(p) THEN "allowed" ELSE "idle")
    /\ UNCHANGED <<outbox_vars, messages, last_id, admin, relay_vars, changes>>

\* Sessions that hold the fence: shared from publish to the end of the
\* transaction.  The exclusive holders below take and release it in one step.
Sharing == {p \in Roles : call[p].stage \in {"fenced", "written"}}

lock_outbox(p) ==
    /\ call[p].stage = "allowed"
    /\ Stage(p, "fenced")
    /\ UNCHANGED <<outbox_vars, messages, last_id, admin, relay_vars, changes>>

\* A bug: a new outbox numbers its rows from the start.
RestartedId == IF messages = {} THEN 1 ELSE last_id + 1

NextId == last_id + 1

\* The row's outbox must exist now (the foreign key), or the transaction fails.
insert(p) ==
    /\ call[p].stage = "fenced"
    /\ NextId <= MaxId
    /\ IF outbox_exists
       THEN /\ call' = [call EXCEPT ![p] = [stage |-> "written", id |-> NextId]]
            /\ last_id' = NextId
       ELSE Stage(p, "idle") /\ UNCHANGED last_id
    /\ UNCHANGED <<outbox_vars, messages, admin, relay_vars, changes>>

commit(p) ==
    /\ call[p].stage = "written"
    /\ messages' = messages \cup
           {[id |-> call[p].id, checked |-> p \in saw_enabled /\ p \in saw_permitted]}
    /\ Stage(p, "idle")
    /\ UNCHANGED <<outbox_vars, last_id, admin, relay_vars, changes>>

rollback(p) ==
    /\ call[p].stage \in {"fenced", "written"}
    /\ Stage(p, "idle")
    /\ UNCHANGED <<outbox_vars, messages, last_id, admin, relay_vars, changes>>

-----------------------------------------------------------------------------
(* Calls that check first and write later: two statements, or a wait for the *)
(* fence, lie between.                                                       *)

Begin(a, what) ==
    /\ admin[a].op = "idle" /\ changes < MaxChanges
    /\ admin' = [admin EXCEPT ![a] = what]
    /\ changes' = changes + 1
    /\ UNCHANGED <<outbox_vars, messages, last_id, call, relay_vars>>

Done(a) ==
    /\ admin' = [admin EXCEPT ![a] = [op |-> "idle"]]
    /\ UNCHANGED <<messages, last_id, call, relay_vars, changes, members>>

\* Both forms of it look first; the one fails, the other is content when the
\* outbox is there, and the primary key fails a second insert of either.
outbox_create(a) == ~outbox_exists /\ Begin(a, [op |-> "create"])

create_insert(a) ==
    /\ admin[a].op = "create"
    /\ outbox' = IF outbox_exists THEN outbox ELSE "enabled"
    /\ Done(a)
    /\ UNCHANGED <<publishers, groups, offsets>>

outbox_drop(a) == outbox_exists /\ Begin(a, [op |-> "drop"])

\* The rows go with the configuration: what the code does not delete by name,
\* the foreign keys do.  What another session made meanwhile goes, too.
drop_delete(a) ==
    /\ admin[a].op = "drop"
    /\ Sharing = {}                           \* lock_outbox(name, false)
    /\ outbox' = NoOutbox
    /\ messages' = {} /\ publishers' = {} /\ groups' = {} /\ offsets' = {}
    /\ delivered' = {}
    /\ admin' = [admin EXCEPT ![a] = [op |-> "idle"]]
    /\ UNCHANGED <<members, last_id, call, polled, checkpoint, changes>>

outbox_grant_publish(a) ==
    outbox_exists /\ \E r \in Roles : Begin(a, [op |-> "grant", role |-> r])

\* A bug: the table has no foreign key.
GrantUnreferenced(a) ==
    /\ admin[a].op = "grant"
    /\ publishers' = publishers \cup {admin[a].role}
    /\ Done(a)
    /\ UNCHANGED <<outbox, groups, offsets>>

grant_insert(a) ==
    /\ admin[a].op = "grant"
    /\ publishers' = IF outbox_exists THEN publishers \cup {admin[a].role} ELSE publishers
    /\ Done(a)
    /\ UNCHANGED <<outbox, groups, offsets>>

create_consumer_group(a) ==
    outbox_exists /\ \E g \in Groups \ groups : Begin(a, [op |-> "group", group |-> g])

group_insert(a) ==
    /\ admin[a].op = "group"
    /\ groups' = IF outbox_exists THEN groups \cup {admin[a].group} ELSE groups
    /\ Done(a)
    /\ UNCHANGED <<outbox, publishers, offsets>>

\* One statement.  commit_offset() keeps the row of its consumer under the
\* group's key; the lease it clears afterwards, nothing ever takes.
commit_offset(g) ==
    /\ g \in groups
    /\ offsets' = offsets \cup {g}
    /\ UNCHANGED <<outbox, publishers, members, groups, messages, last_id, call, admin, relay_vars, changes>>

OneStatement ==
    /\ changes < MaxChanges /\ changes' = changes + 1
    /\ UNCHANGED <<messages, last_id, call, admin, relay_vars>>

drop_consumer_group(g) ==
    /\ g \in groups
    /\ groups' = groups \ {g} /\ offsets' = offsets \ {g}
    /\ OneStatement
    /\ UNCHANGED <<outbox, publishers, members>>

outbox_disable ==
    /\ outbox = "enabled" /\ outbox' = "disabled"
    /\ OneStatement
    /\ UNCHANGED <<publishers, members, groups, offsets>>

outbox_enable ==
    /\ outbox = "disabled" /\ outbox' = "enabled"
    /\ OneStatement
    /\ UNCHANGED <<publishers, members, groups, offsets>>

outbox_revoke_publish(r) ==
    /\ r \in publishers /\ publishers' = publishers \ {r}
    /\ OneStatement
    /\ UNCHANGED <<outbox, members, groups, offsets>>

\* GRANT and REVOKE tide_publisher, by the database's administrator.
membership(r) ==
    /\ members' = IF r \in members THEN members \ {r} ELSE members \cup {r}
    /\ OneStatement
    /\ UNCHANGED <<outbox, publishers, groups, offsets>>

-----------------------------------------------------------------------------
(* The relay: it reads under the exclusive fence, and its checkpoint rises  *)
(* when the batch is done.                                                  *)

Unread == {m \in messages : m.id > checkpoint}

poll ==
    /\ polled = 0
    /\ Sharing = {}
    /\ Unread # {}
    /\ polled' = Max({m.id : m \in Unread})
    /\ delivered' = delivered \cup {m.id : m \in Unread}
    /\ UNCHANGED <<outbox_vars, messages, last_id, call, admin, checkpoint, changes>>

acknowledge ==
    /\ polled # 0
    /\ checkpoint' = Max({checkpoint, polled})
    /\ polled' = 0
    /\ UNCHANGED <<outbox_vars, messages, last_id, call, admin, delivered, changes>>

-----------------------------------------------------------------------------

\* What each running call has seen, from its first statement to its end.
Watch ==
    LET running == {p \in Roles : call'[p].stage # "idle"} IN
    /\ saw_enabled' = {p \in running : p \in saw_enabled \/ Enabled'}
    /\ saw_permitted' = {p \in running : p \in saw_permitted \/ Permitted(p)'}

Init ==
    /\ outbox = NoOutbox /\ publishers = {} /\ groups = {} /\ offsets = {}
    /\ members \in SUBSET Roles
    /\ messages = {} /\ last_id = 0
    /\ call = [p \in Roles |-> [stage |-> "idle", id |-> 0]]
    /\ admin = [a \in Admins |-> [op |-> "idle"]]
    /\ polled = 0 /\ checkpoint = 0 /\ delivered = {}
    /\ saw_enabled = {} /\ saw_permitted = {}
    /\ changes = 0

Next ==
    /\ \/ \E p \in Roles : \/ read_enabled(p) \/ check_acl(p) \/ lock_outbox(p)
                           \/ insert(p) \/ commit(p) \/ rollback(p)
       \/ \E a \in Admins : \/ outbox_create(a) \/ create_insert(a)
                            \/ outbox_drop(a) \/ drop_delete(a)
                            \/ outbox_grant_publish(a) \/ grant_insert(a)
                            \/ create_consumer_group(a) \/ group_insert(a)
       \/ \E g \in Groups : commit_offset(g) \/ drop_consumer_group(g)
       \/ \E r \in Roles : outbox_revoke_publish(r) \/ membership(r)
       \/ outbox_disable \/ outbox_enable
       \/ poll \/ acknowledge
    /\ Watch

Spec == Init /\ [][Next]_vars

-----------------------------------------------------------------------------
(* Properties *)

\* outbox_publish() checks before it waits for the fence, so a disabled outbox
\* or a revoked role can still receive the row of a call that began before.
\* But never more than that: every row comes from a call during which the
\* outbox was enabled and the role was permitted, if not at the same moment.
CheckedWhilePermitted == \A m \in messages : m.checked

\* The relay's checkpoint outlives the outbox, and is even written for a batch
\* of an outbox that has been dropped.  It never hides a row of the outbox that
\* was created under the name afterwards.
NewOutboxIsSeen == \A m \in messages : m.id <= checkpoint => m.id \in delivered

\* A row never outlives its outbox: no grant, group, offset or message that was
\* checked against an outbox is there when no outbox is.
NothingOutlivesItsOutbox ==
    outbox = NoOutbox => messages = {} /\ publishers = {} /\ groups = {} /\ offsets = {}

-----------------------------------------------------------------------------
(* The inductive invariant.                                                 *)

Stages == {"idle", "found", "allowed", "fenced", "written"}

\* An administrative session remembers what it was asked for.
Jobs ==
    [op : {"idle", "create", "drop"}] \cup
    [op : {"grant"}, role : Roles] \cup [op : {"group"}, group : Groups]

TypeOK ==
    /\ outbox \in {NoOutbox, "enabled", "disabled"}
    /\ publishers \subseteq Roles /\ members \subseteq Roles
    /\ groups \subseteq Groups /\ offsets \subseteq groups
    /\ messages \subseteq [id : 1 .. last_id, checked : BOOLEAN]
    /\ last_id \in 0 .. MaxId /\ checkpoint \in 0 .. last_id /\ polled \in 0 .. last_id
    /\ call \in [Roles -> [stage : Stages, id : 0 .. last_id]]
    /\ admin \in [Admins -> Jobs]

Writing == {p \in Roles : call[p].stage = "written"}

\* Every id is of one row, to be seen or not yet.
IdsUnique ==
    /\ \A m, n \in messages : m.id = n.id => m = n
    /\ \A p \in Writing, m \in messages : m.id # call[p].id
    /\ \A p, q \in Writing : call[p].id = call[q].id => p = q

\* The checks that a call has behind it, and the row it is to leave.
ChecksPassed ==
    \A p \in Roles :
        /\ call[p].stage # "idle" => p \in saw_enabled
        /\ call[p].stage \in {"allowed", "fenced", "written"} => p \in saw_permitted

\* A row that is being written belongs to an outbox, and the relay has not read
\* so far, under the fence.
WritesAhead ==
    \A p \in Writing :
        /\ outbox_exists
        /\ call[p].id > checkpoint /\ call[p].id > polled

\* What the batch in hand covers was read, like what the checkpoint covers.
BatchRead == \A m \in messages : m.id <= polled => m.id \in delivered

PublishingInv ==
    /\ TypeOK
    /\ IdsUnique
    /\ ChecksPassed /\ CheckedWhilePermitted
    /\ WritesAhead /\ BatchRead /\ NewOutboxIsSeen
    /\ NothingOutlivesItsOutbox

=============================================================================
