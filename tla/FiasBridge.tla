----------------------------- MODULE FiasBridge -----------------------------
(***************************************************************************)
(* The hotel's FIAS bridge: fiasd.php, which speaks with the property      *)
(* management system (PMS), dispatcher.php, which runs a handler for each  *)
(* message received, the scripts that queue messages for the PMS, and the  *)
(* two tables between them.  The tables are MyISAM: every statement is one *)
(* step, and nothing ties two of them together.  supervisord starts the    *)
(* daemons again whenever they end.                                        *)
(***************************************************************************)
EXTENDS Naturals, Sequences, FiniteSets

CONSTANTS
    Scripts,    \* processes that queue messages for the PMS (re2pms.php, ...)
    MaxId,      \* bound: rows of messages
    MaxParams,  \* bound: parameters of a message
    MaxStops    \* bound: processes that end half way, and statements that fail

ASSUME FiasAssumption ==
    /\ MaxId \in Nat /\ MaxParams \in Nat /\ MaxStops \in Nat
    /\ MaxId > 0

(***************************************************************************)
(* GI stands for the commands fias.conf has a section for, XX for those it *)
(* has none for; RE for what scripts send, other than LE (link end).  BAD  *)
(* is a record insertFiasMessage refuses.                                  *)
(***************************************************************************)
LinkRecords == {"LS", "LA", "LD", "LE", "DS", "DE"}
FromPms == {"GI", "LR", "XX", "BAD"}
ToPmsCmds == {"RE", "LE"}
Ids == 1..MaxId

LinkStates == {"Start", "WaitForSincro", "WaitForLSLA", "WaitForLA", "WaitForData",
               "SendLS", "SendLA", "SendLDLRLA", "Disconnected",
               "ReadDB", "ReadParams", "SendData", "AckData", "AckLE",
               "WriteDB", "WriteParams"}

NoRow == [st |-> "none", dir |-> "PBX", cmd |-> "none", want |-> 0, has |-> 0]
NoRecord == [id |-> 0, cmd |-> "none", want |-> 0, has |-> 0]

VARIABLES
    msgs,    \* messages and messagesparameters: has of the want parameters are there
    last,    \* the last id given
    link,    \* fiasd's $state
    lock,    \* fiasd's $lock
    rec,     \* fiasd's $record and $record_id, while they are of use
    script,  \* what each script is inserting
    batch,   \* the messages dispatcher.php has read and not been through
    acking,  \* it has run, or failed to start, the handler of the first of them
    up,      \* the handshake is complete on the present connection
    ran,     \* history: the handlers started
    unrun,   \* history: the messages whose handler could not be started
    sent,    \* history: the messages written to the socket
    stops

vars == <<msgs, last, link, lock, rec, script, batch, acking, up, ran, unrun, sent, stops>>
tables == <<msgs, last>>
daemon == <<link, lock, rec, up>>
dispatcher == <<batch, acking>>
history == <<ran, unrun, sent>>

Init ==
    /\ msgs = [i \in Ids |-> NoRow] /\ last = 0
    /\ link = "Start" /\ lock = FALSE /\ rec = NoRecord /\ up = FALSE
    /\ script = [s \in Scripts |-> NoRecord]
    /\ batch = <<>> /\ acking = FALSE
    /\ ran = <<>> /\ unrun = {} /\ sent = <<>> /\ stops = 0

Pending(dir) == {i \in Ids : msgs[i].st = "pending" /\ msgs[i].dir = dir}
\* Mutant of Oldest: the last row of the result is sent first.
MutOldest(S) == CHOOSE i \in S : \A j \in S : i >= j
Oldest(S) == CHOOSE i \in S : \A j \in S : i <= j

-----------------------------------------------------------------------------
(* insertFiasMessage, statement by statement.                              *)

InsertRow(dir, cmd, want) ==
    /\ last < MaxId
    /\ last' = last + 1
    /\ msgs' = [msgs EXCEPT ![last + 1] =
                  [st |-> "pending", dir |-> dir, cmd |-> cmd, want |-> want, has |-> 0]]

InsertParameter(id) ==
    /\ msgs' = [msgs EXCEPT ![id].has = @ + 1]
    /\ UNCHANGED last

\* Mutant of Elaborated: the new state is not one of the table's.
MutElaborated(id) ==
    /\ msgs' = [msgs EXCEPT ![id].st = IF @ = "pending" THEN "elaborated" ELSE @]
    /\ UNCHANGED last

\* UPDATE messages SET elaborationtime: nothing happens when the row is gone.
Elaborated(id) ==
    /\ msgs' = [msgs EXCEPT ![id].st = IF @ = "pending" THEN "done" ELSE @]
    /\ UNCHANGED last

-----------------------------------------------------------------------------
(* fiasd.php: one action for each state.                                   *)

\* stStart: messages LE left over are deleted before a connection is tried.
Start ==
    /\ link = "Start"
    /\ msgs' = [i \in Ids |->
                  IF i \in Pending("PMS") /\ msgs[i].cmd = "LE"
                  THEN [msgs[i] EXCEPT !.st = "deleted"] ELSE msgs[i]]
    /\ \/ link' = "WaitForSincro" /\ lock' = FALSE
       \/ link' = "Disconnected" /\ UNCHANGED lock
    /\ UNCHANGED <<last, rec, script, dispatcher, up, history, stops>>

Disconnected ==
    /\ link = "Disconnected"
    /\ link' = "Start" /\ up' = FALSE /\ rec' = NoRecord
    /\ UNCHANGED <<tables, lock, script, dispatcher, history, stops>>

\* What readRecord gives: a record, the time limit, or a connection lost or out of step.
Heard == LinkRecords \cup {"data", "timeout", "broken"}

WaitForSincro ==
    /\ link = "WaitForSincro"
    /\ \E h \in Heard :
          link' = CASE h = "LS" -> "SendLDLRLA"
                    [] h = "timeout" -> "SendLS"
                    [] OTHER -> "Disconnected"
    /\ UNCHANGED <<tables, lock, rec, script, dispatcher, up, history, stops>>

WaitForLSLA ==
    /\ link = "WaitForLSLA"
    /\ \E h \in Heard :
          /\ link' = CASE h = "LS" -> "SendLDLRLA"
                       [] h = "LA" -> "WaitForData"
                       [] h = "LD" -> "SendLA"
                       [] OTHER -> "Disconnected"
          /\ up' = (h = "LA")
    /\ UNCHANGED <<tables, lock, rec, script, dispatcher, history, stops>>

WaitForLA ==
    /\ link = "WaitForLA"
    /\ \E h \in Heard :
          /\ link' = IF h = "LA" THEN "WaitForData" ELSE "Disconnected"
          /\ up' = (h = "LA")
    /\ UNCHANGED <<tables, lock, rec, script, dispatcher, history, stops>>

\* A PMS that starts the link again (LS) must finish the handshake first.
WaitForData ==
    /\ link = "WaitForData"
    /\ \E h \in Heard :
          /\ link' = CASE h = "LS" -> "SendLDLRLA"
                       [] h \in {"LA", "DS", "DE"} -> "WaitForData"
                       [] h = "timeout" -> "ReadDB"
                       [] h \in {"data", "LD"} -> "WriteDB"
                       [] h \in {"LE", "broken"} -> "Disconnected"
          /\ up' = (up /\ h # "LS")
          /\ lock' = CASE h = "DS" -> TRUE [] h = "DE" -> FALSE [] OTHER -> lock
          /\ \/ h = "data" /\ \E c \in FromPms, n \in 0..MaxParams :
                   /\ c = "BAD" => n = 0
                   /\ rec' = [id |-> 0, cmd |-> c, want |-> n, has |-> 0]
             \/ h = "LD" /\ rec' = [id |-> 0, cmd |-> "XX", want |-> MaxParams, has |-> 0]
             \/ h \notin {"data", "LD"} /\ UNCHANGED rec
    /\ UNCHANGED <<tables, script, dispatcher, history, stops>>

SendLA ==
    /\ link = "SendLA"
    /\ \E ok \in BOOLEAN :
          /\ link' = IF ok THEN "WaitForData" ELSE "Disconnected"
          /\ up' = ok
    /\ UNCHANGED <<tables, lock, rec, script, dispatcher, history, stops>>

SendLDLRLA ==
    /\ link = "SendLDLRLA"
    /\ link' \in {"WaitForLA", "Disconnected"}
    /\ UNCHANGED <<tables, lock, rec, script, dispatcher, up, history, stops>>

SendLS ==
    /\ link = "SendLS"
    /\ link' \in {"WaitForLSLA", "Disconnected"}
    /\ up' = FALSE
    /\ UNCHANGED <<tables, lock, rec, script, dispatcher, history, stops>>

\* Mutant of ReadDB: $lock is not looked at.
MutReadDB ==
    /\ link = "ReadDB"
    /\ \/ Pending("PMS") = {} /\ link' = "WaitForData" /\ UNCHANGED rec
       \/ Pending("PMS") = {} /\ link' = "SendLS" /\ UNCHANGED rec
       \/ /\ Pending("PMS") # {}
          /\ LET i == Oldest(Pending("PMS")) IN
             rec' = [id |-> i, cmd |-> msgs[i].cmd, want |-> msgs[i].want, has |-> 0]
          /\ link' = "ReadParams"
    /\ UNCHANGED <<tables, lock, script, dispatcher, up, history, stops>>

\* The oldest pending message, one at a time; an idle link is checked with LS.
ReadDB ==
    /\ link = "ReadDB"
    /\ \/ (lock \/ Pending("PMS") = {}) /\ link' = "WaitForData" /\ UNCHANGED rec
       \/ ~lock /\ Pending("PMS") = {} /\ link' = "SendLS" /\ UNCHANGED rec
       \/ /\ ~lock /\ Pending("PMS") # {}
          /\ LET i == Oldest(Pending("PMS")) IN
             rec' = [id |-> i, cmd |-> msgs[i].cmd, want |-> msgs[i].want, has |-> 0]
          /\ link' = "ReadParams"
    /\ UNCHANGED <<tables, lock, script, dispatcher, up, history, stops>>

\* The parameters are read by a statement of their own.  LE is sent at once,
\* and whether it was sent is not looked at.
ReadParams ==
    /\ link = "ReadParams"
    /\ LET r == [rec EXCEPT !.has = msgs[rec.id].has] IN
       \/ /\ rec.cmd # "LE"
          /\ rec' = r /\ link' = "SendData" /\ UNCHANGED sent
       \/ /\ rec.cmd = "LE"
          /\ rec' = r /\ link' = "AckLE"
          /\ sent' \in {sent, Append(sent, r)}
    /\ UNCHANGED <<tables, lock, script, dispatcher, up, ran, unrun, stops>>

SendData ==
    /\ link = "SendData"
    /\ \/ link' = "Disconnected" /\ UNCHANGED sent
       \/ link' = "AckData" /\ sent' = Append(sent, rec)
    /\ UNCHANGED <<tables, lock, rec, script, dispatcher, up, ran, unrun, stops>>

AckData ==
    /\ link = "AckData"
    /\ Elaborated(rec.id)
    /\ link' = "WaitForData" /\ rec' = NoRecord
    /\ UNCHANGED <<lock, script, dispatcher, up, history, stops>>

\* exit(0) after LE; supervisord starts the daemon again.
AckLE ==
    /\ link = "AckLE"
    /\ Elaborated(rec.id)
    /\ link' = "Start" /\ lock' = FALSE /\ rec' = NoRecord /\ up' = FALSE
    /\ UNCHANGED <<script, dispatcher, history, stops>>

WriteDB ==
    /\ link = "WriteDB"
    /\ \/ rec.cmd = "BAD" /\ link' = "Disconnected" /\ UNCHANGED <<tables, rec>>
       \/ /\ rec.cmd # "BAD"
          /\ InsertRow("PBX", rec.cmd, rec.want)
          /\ rec' = IF rec.want = 0 THEN NoRecord ELSE [rec EXCEPT !.id = last + 1]
          /\ link' = IF rec.want = 0 THEN "ReadDB" ELSE "WriteParams"
    /\ UNCHANGED <<lock, script, dispatcher, up, history, stops>>

WriteParams ==
    /\ link = "WriteParams"
    /\ InsertParameter(rec.id)
    /\ rec' = IF rec.has + 1 = rec.want THEN NoRecord ELSE [rec EXCEPT !.has = @ + 1]
    /\ link' = IF rec.has + 1 = rec.want THEN "ReadDB" ELSE "WriteParams"
    /\ UNCHANGED <<lock, script, dispatcher, up, history, stops>>

\* A statement of stReadDB or stWriteDB fails: what was written stays.
DaemonStatementFails ==
    /\ link \in {"ReadDB", "ReadParams", "WriteDB", "WriteParams"}
    /\ stops < MaxStops /\ stops' = stops + 1
    /\ link' = "Disconnected"
    /\ UNCHANGED <<tables, lock, rec, script, dispatcher, up, history>>

\* The daemon ends anywhere (an exception in stStart or stSendData, a signal).
DaemonStops ==
    /\ stops < MaxStops /\ stops' = stops + 1
    /\ link' = "Start" /\ lock' = FALSE /\ rec' = NoRecord /\ up' = FALSE
    /\ UNCHANGED <<tables, script, dispatcher, history>>

Daemon ==
    \/ Start \/ Disconnected \/ WaitForSincro \/ WaitForLSLA \/ WaitForLA \/ WaitForData
    \/ SendLA \/ SendLDLRLA \/ SendLS \/ ReadDB \/ ReadParams \/ SendData \/ AckData
    \/ AckLE \/ WriteDB \/ WriteParams \/ DaemonStatementFails \/ DaemonStops

-----------------------------------------------------------------------------
(* dispatcher.php.                                                         *)

\* SELECT ... INNER JOIN messagesparameters: a message without a parameter is not found.
Found == {i \in Pending("PBX") : msgs[i].has > 0}
\* Mutant of RowsInOrder: ORDER BY id DESC.
MutRowsInOrder(S) ==
    [k \in 1..Cardinality(S) |->
        LET i == CHOOSE j \in S : Cardinality({x \in S : x >= j}) = k
        IN  [id |-> i, cmd |-> msgs[i].cmd, has |-> msgs[i].has]]
RowsInOrder(S) ==
    [k \in 1..Cardinality(S) |->
        LET i == CHOOSE j \in S : Cardinality({x \in S : x <= j}) = k
        IN  [id |-> i, cmd |-> msgs[i].cmd, has |-> msgs[i].has]]

Poll ==
    /\ batch = <<>> /\ Found # {}
    /\ batch' = RowsInOrder(Found)
    /\ UNCHANGED <<tables, daemon, script, acking, history, stops>>

AcknowledgeLR ==
    /\ batch # <<>> /\ ~acking /\ batch[1].cmd = "LR"
    /\ Elaborated(batch[1].id)
    /\ batch' = Tail(batch)
    /\ UNCHANGED <<daemon, script, acking, history, stops>>

\* Mutant of SkipUndefined: the rest of the batch is given up.
MutSkipUndefined ==
    /\ batch # <<>> /\ ~acking /\ batch[1].cmd = "XX"
    /\ batch' = <<>>
    /\ UNCHANGED <<tables, daemon, script, acking, history, stops>>

\* No section in fias.conf: logged, and left as it is.
SkipUndefined ==
    /\ batch # <<>> /\ ~acking /\ batch[1].cmd = "XX"
    /\ batch' = Tail(batch)
    /\ UNCHANGED <<tables, daemon, script, acking, history, stops>>

\* fiasRunProcess; an exit code other than 0 is logged and changes nothing here.
RunHandler ==
    /\ batch # <<>> /\ ~acking /\ batch[1].cmd = "GI"
    /\ ran' = Append(ran, batch[1])
    /\ acking' = TRUE
    /\ UNCHANGED <<tables, daemon, script, batch, unrun, sent, stops>>

\* The command cannot be built or started: exit code -1, logged like any other.
HandlerNotStarted ==
    /\ batch # <<>> /\ ~acking /\ batch[1].cmd = "GI"
    /\ unrun' = unrun \cup {batch[1].id}
    /\ acking' = TRUE
    /\ UNCHANGED <<tables, daemon, script, batch, ran, sent, stops>>

AcknowledgeRun ==
    /\ acking
    /\ Elaborated(batch[1].id)
    /\ batch' = Tail(batch) /\ acking' = FALSE
    /\ UNCHANGED <<daemon, script, history, stops>>

DispatcherStops ==
    /\ batch # <<>>
    /\ stops < MaxStops /\ stops' = stops + 1
    /\ batch' = <<>> /\ acking' = FALSE
    /\ UNCHANGED <<tables, daemon, script, history>>

DispatcherRuns ==
    Poll \/ AcknowledgeLR \/ SkipUndefined \/ RunHandler \/ HandlerNotStarted \/ AcknowledgeRun
Dispatcher == DispatcherRuns \/ DispatcherStops

-----------------------------------------------------------------------------
(* The scripts that queue a message for the PMS (insertMessageIntoDB).     *)

Queue(s) ==
    /\ script[s] = NoRecord
    /\ \E c \in ToPmsCmds, n \in 0..MaxParams :
          /\ c = "LE" => n = 0
          /\ InsertRow("PMS", c, n)
          /\ script' = [script EXCEPT ![s] =
                IF n = 0 THEN NoRecord
                ELSE [id |-> last + 1, cmd |-> c, want |-> n, has |-> 0]]
    /\ UNCHANGED <<daemon, dispatcher, history, stops>>

QueueParameter(s) ==
    /\ script[s] # NoRecord
    /\ InsertParameter(script[s].id)
    /\ script' = [script EXCEPT ![s] =
          IF @.has + 1 = @.want THEN NoRecord ELSE [script[s] EXCEPT !.has = @ + 1]]
    /\ UNCHANGED <<daemon, dispatcher, history, stops>>

\* A statement fails or the script ends: the message stays as far as it got.
ScriptStops(s) ==
    /\ script[s] # NoRecord
    /\ stops < MaxStops /\ stops' = stops + 1
    /\ script' = [script EXCEPT ![s] = NoRecord]
    /\ UNCHANGED <<tables, daemon, dispatcher, history>>

Next ==
    \/ Daemon
    \/ Dispatcher
    \/ \E s \in Scripts : Queue(s) \/ QueueParameter(s) \/ ScriptStops(s)

Spec == Init /\ [][Next]_vars /\ WF_vars(DispatcherRuns)

-----------------------------------------------------------------------------
Row == [st: {"none", "pending", "done", "deleted"}, dir: {"PBX", "PMS"},
        cmd: FromPms \cup ToPmsCmds \cup {"none"}, want: Nat, has: Nat]
Record == [id: Nat, cmd: FromPms \cup ToPmsCmds \cup {"none"}, want: Nat, has: Nat]
Handed == [id: Nat, cmd: FromPms \cup ToPmsCmds \cup {"none"}, has: Nat]

\* The types of the tables, of the three kinds of processes and of the histories.
TypeOK ==
    /\ msgs \in [Ids -> Row] /\ last \in 0..MaxId
    /\ link \in LinkStates /\ lock \in BOOLEAN /\ up \in BOOLEAN /\ rec \in Record
    /\ script \in [Scripts -> Record]
    /\ batch \in Seq(Handed) /\ acking \in BOOLEAN
    /\ ran \in Seq(Handed) /\ unrun \subseteq Ids /\ sent \in Seq(Record)
    /\ stops \in 0..MaxStops

\* The PBX direction, between fiasd.php and dispatcher.php, as a FiasOrder.
ToPbx == INSTANCE FiasOrder WITH
    put   <- {i \in Ids : msgs[i].st # "none" /\ msgs[i].dir = "PBX"},
    quiet <- {i \in Ids : msgs[i].dir = "PBX" /\ msgs[i].cmd = "LR"} \cup unrun,
    out   <- [k \in DOMAIN ran |-> ran[k].id],
    acked <- {i \in Ids : msgs[i].st = "done" /\ msgs[i].dir = "PBX"}

\* The PMS direction, between the scripts and fiasd.php; LE may be dropped.
ToPms == INSTANCE FiasOrder WITH
    put   <- {i \in Ids : msgs[i].st # "none" /\ msgs[i].dir = "PMS"},
    quiet <- {i \in Ids : msgs[i].dir = "PMS" /\ msgs[i].cmd = "LE"},
    out   <- [k \in DOMAIN sent |-> sent[k].id],
    acked <- {i \in Ids : msgs[i].st \in {"done", "deleted"} /\ msgs[i].dir = "PMS"}

(***************************************************************************)
(* Handlers start in the order the PMS sent its messages, and a message is *)
(* acknowledged only when its handler was started, or could not be when    *)
(* its turn came (LR needs none).  One is started again only while it is   *)
(* the last one started and not acknowledged.  All of it survives the end  *)
(* of fiasd.php and of dispatcher.php at any point.                        *)
(***************************************************************************)
PbxInOrder == ToPbx!Spec

(***************************************************************************)
(* The same of the messages for the PMS: several scripts queue them, one   *)
(* at a time is read and sent, and a message is marked only after it was   *)
(* written to the socket, so a stop in between sends it again.             *)
(***************************************************************************)
PmsInOrder == ToPms!Spec

(***************************************************************************)
(* fiasd.php writes a message to the socket only on a connection whose     *)
(* handshake is complete, not started again by either side, and not while  *)
(* the PMS is resynchronising (between DS and DE).                         *)
(***************************************************************************)
DataOnlyOnLink == [][sent' # sent => up /\ ~lock]_vars

(***************************************************************************)
(* A message from the PMS that has a parameter and a section in fias.conf  *)
(* (or is LR) is acknowledged in the end, whatever lies in the queue       *)
(* before it: messages nobody will ever acknowledge too.                   *)
(***************************************************************************)
InboundElaborated ==
    \A i \in Ids :
        (/\ msgs[i].st = "pending" /\ msgs[i].dir = "PBX"
         /\ msgs[i].has > 0 /\ msgs[i].cmd \in {"GI", "LR"}) ~> msgs[i].st = "done"
=============================================================================
