--------------------------- MODULE FiasBridgeInv ----------------------------
(* The inductive invariant behind FiasBridge's safety properties.          *)
EXTENDS FiasBridge

\* Ids are given in order: a row for each up to the last, and none after it.
RowsInv ==
    \A i \in Ids : /\ i <= last => msgs[i].st # "none"
                   /\ i > last => msgs[i] = NoRow

\* $state tells of the handshake and of $lock.
OnLink == {"WaitForData", "ReadDB", "ReadParams", "SendData", "AckData", "WriteDB", "WriteParams"}
LinkInv ==
    /\ link \in OnLink => up
    /\ link \in {"ReadParams", "SendData"} => ~lock

\* Whoever inserts parameters inserts them into a row of their own direction;
\* fiasd.php has inserted no row after the one it is at.
InsertInv ==
    /\ \A s \in Scripts : script[s] # NoRecord =>
          script[s].id \in 1..last /\ msgs[script[s].id].dir = "PMS"
    /\ link = "WriteParams" =>
          /\ rec.id \in 1..last /\ msgs[rec.id].dir = "PBX"
          /\ \A i \in 1..last : msgs[i].dir = "PBX" => i <= rec.id

\* The message being sent is the oldest one pending; all sent before are older,
\* or it is the last one sent.
Sending == {"ReadParams", "SendData", "AckData", "AckLE"}
SendInv ==
    /\ link \in Sending => rec.id \in Pending("PMS") /\ rec.cmd = msgs[rec.id].cmd
    /\ link \in {"ReadParams", "SendData"} => \A i \in Pending("PMS") : rec.id <= i
    /\ link = "AckData" => \E k \in DOMAIN sent : sent[k].id = rec.id
    /\ link = "AckLE" => rec.cmd = "LE"
    /\ \A k \in DOMAIN sent : sent[k].id \in 1..last
    /\ \A k \in DOMAIN sent : \A i \in Pending("PMS") : sent[k].id <= i

\* Messages a handler waits for.
Waiting == {i \in Found : msgs[i].cmd = "GI"}

\* The batch is in order, nothing in it has been through, and a message that
\* waits is in it or came after it.
BatchInv ==
    /\ \A k \in DOMAIN batch : batch[k].id \in Found /\ batch[k].cmd = msgs[batch[k].id].cmd
    /\ \A k, l \in DOMAIN batch : k < l => batch[k].id < batch[l].id
    /\ \A i \in Waiting : \/ \E k \in DOMAIN batch : batch[k].id = i
                          \/ \A k \in DOMAIN batch : batch[k].id < i
    /\ acking => /\ batch # <<>>
                 /\ batch[1].id \in unrun \/ \E k \in DOMAIN ran : ran[k].id = batch[1].id

\* Handlers ran for messages of the PMS, none of them after one that waits.
RanInv ==
    /\ \A k \in DOMAIN ran : ran[k].id \in 1..last /\ msgs[ran[k].id].dir = "PBX"
    /\ \A k \in DOMAIN ran : \A i \in Waiting : ran[k].id <= i

\* All of it together: every statement of fiasd.php, dispatcher.php and the
\* scripts keeps it, in any interleaving and wherever one of them ends.
IInv ==
    /\ TypeOK
    /\ RowsInv
    /\ LinkInv
    /\ InsertInv
    /\ SendInv
    /\ BatchInv
    /\ RanInv
=============================================================================
