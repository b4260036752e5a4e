-------------------------- MODULE SmtpHandlerProofs --------------------------
(***************************************************************************)
(* The safety of the handler for any number of concurrent packets and any  *)
(* number of failures: at most one copy of a packet, one recovery at a     *)
(* time, no interface that is left offline, and who may bring it online.   *)
(***************************************************************************)
EXTENDS SmtpHandler, TLAPS

\* A packet that HandlePacket may still send has not been accepted, and one that waits for
\* another attempt has one left.
PacketInv ==
  \A s \in Senders :
    /\ copies[s] \in {0, 1}
    /\ pc[s] \in {"send", "backoff"} => copies[s] = 0
    /\ pc[s] = "backoff" => attempt[s] < maxRetries

\* h.recovering is held by one goroutine: by the one that won the CompareAndSwap until it has
\* started recover, then by recover.
Held == (\E t \in Threads : pc[t] = "offline") \/ (\E r \in Recoverers : rec[r] # "none")
FlagInv ==
  /\ recovering <=> Held
  /\ \A t, u \in Threads : pc[t] = "offline" /\ pc[u] = "offline" => t = u
  /\ \A t \in Threads, r \in Recoverers : ~(pc[t] = "offline" /\ rec[r] # "none")
  /\ SingleRecovery

\* recover ends with the interface online or the bridge stopping.
OutcomeInv == \A r \in Recoverers : rec[r] = "clear" => smtpOnline \/ ctxDone

IndInv == TypeOK /\ PacketInv /\ FlagInv /\ OutcomeInv /\ NeverAbandoned

\* The first delay of a recovery is one of its delays.
LEMMA FirstDelay == RecoveryDelay \in RecoveryDelay..MaxRecoveryDelay
  BY RecoveryAssumption

\* Types are kept.
LEMMA TypeStep ==
  ASSUME TypeOK, PacketInv, Next PROVE TypeOK'
<1>1. ASSUME NEW s \in Senders, StartPacket(s) PROVE TypeOK'
  BY <1>1 DEF StartPacket, Goto, TypeOK, maxRetries, Threads, sending, recovery
<1>2. ASSUME NEW s \in Senders, Expire(s) PROVE TypeOK'
  BY <1>2, FaultsAssumption DEF Expire, Fault, TypeOK, sending, recovery
<1>3. ASSUME NEW s \in Senders, SendOK(s) PROVE TypeOK'
  BY <1>3 DEF SendOK, SendOver, Goto, TypeOK, Threads, sending, recovery
<1>4. ASSUME NEW s \in Senders, SendFails(s) PROVE TypeOK'
  BY <1>4, FaultsAssumption DEF SendFails, NetFault, Fault, SendOver, Goto, TypeOK, Threads,
     sending, recovery
<1>5. ASSUME NEW s \in Senders, SendUnknown(s) PROVE TypeOK'
  BY <1>5, FaultsAssumption DEF SendUnknown, Fault, Goto, TypeOK, Threads, sending, recovery
<1>6. ASSUME NEW s \in Senders, BackoffElapsed(s) PROVE TypeOK'
  BY <1>6 DEF BackoffElapsed, Goto, TypeOK, PacketInv, maxRetries, Threads, sending,
     recovery
<1>7. ASSUME NEW s \in Senders, GiveUp(s) PROVE TypeOK'
  BY <1>7 DEF GiveUp, Goto, TypeOK, Threads, sending, recovery
<1>8. ASSUME NEW t \in Threads, BeginRecovery(t) PROVE TypeOK'
  BY <1>8 DEF BeginRecovery, Return, Goto, TypeOK, Threads, sending, recovery
<1>9. ASSUME NEW t \in Threads, SignalOffline(t) PROVE TypeOK'
  BY <1>9, FirstDelay DEF SignalOffline, Return, Goto, TypeOK, Threads, sending, recovery
<1>10. ASSUME StartupProbeOK PROVE TypeOK'
  BY <1>10 DEF StartupProbeOK, Goto, TypeOK, Threads, sending, recovery
<1>11. ASSUME StartupProbeFails PROVE TypeOK'
  BY <1>11, FaultsAssumption DEF StartupProbeFails, NetFault, Fault, Goto, TypeOK, Threads,
     sending, recovery
<1>12. ASSUME StartupOnline PROVE TypeOK'
  BY <1>12 DEF StartupOnline, Goto, TypeOK, Threads, sending, recovery
<1>13. ASSUME NEW r \in Recoverers, RecSleepOver(r) PROVE TypeOK'
  BY <1>13 DEF RecSleepOver, RecGoto, TypeOK, sending, recovery
<1>14. ASSUME NEW r \in Recoverers, RecCancelled(r) PROVE TypeOK'
  BY <1>14 DEF RecCancelled, RecGoto, TypeOK, sending, recovery
<1>15. ASSUME NEW r \in Recoverers, ProbeOK(r) PROVE TypeOK'
  BY <1>15 DEF ProbeOK, RecGoto, TypeOK, sending, recovery
<1>16. ASSUME NEW r \in Recoverers, ProbeFails(r) PROVE TypeOK'
  BY <1>16, FaultsAssumption, RecoveryAssumption DEF ProbeFails, RecGoto, NetFault, Fault,
     TypeOK, NextDelay, sending, recovery
<1>17. ASSUME NEW r \in Recoverers, RecOnline(r) PROVE TypeOK'
  BY <1>17 DEF RecOnline, RecGoto, TypeOK, sending, recovery
<1>18. ASSUME NEW r \in Recoverers, RecReturn(r) PROVE TypeOK'
  BY <1>18, FirstDelay DEF RecReturn, RecGoto, TypeOK, sending, recovery
<1>19. ASSUME ServerDown PROVE TypeOK'
  <2>1. faults' \in 0..MaxFaults
    BY <1>19, FaultsAssumption DEF ServerDown, Fault, TypeOK
  <2>2. {smtpOnline, up, ctxDone, owed}' \subseteq BOOLEAN
    BY <1>19, Zenon DEF ServerDown, TypeOK
  <2>3. QED
    BY <1>19, <2>1, <2>2 DEF ServerDown, TypeOK, sending, recovery
<1>20. ASSUME ServerUp PROVE TypeOK'
  BY <1>20 DEF ServerUp, TypeOK, sending, recovery
<1>21. ASSUME Cancel PROVE TypeOK'
  BY <1>21, FaultsAssumption DEF Cancel, Fault, TypeOK, sending, recovery
<1>22. QED
  BY <1>1, <1>2, <1>3, <1>4, <1>5, <1>6, <1>7, <1>8, <1>9, <1>10, <1>11, <1>12, <1>13,
     <1>14, <1>15, <1>16, <1>17, <1>18, <1>19, <1>20, <1>21 DEF Next, SenderStep,
     StartupStep, RecStep, Threads

\* A retry follows only an error that says the server does not have the packet.
LEMMA PacketStep ==
  ASSUME TypeOK, PacketInv, Next PROVE PacketInv'
<1>1. ASSUME NEW s \in Senders, StartPacket(s) PROVE PacketInv'
  BY <1>1, StartupAssumption DEF StartPacket, Goto, TypeOK, PacketInv, Threads, sending,
     recovery
<1>2. ASSUME NEW s \in Senders, Expire(s) PROVE PacketInv'
  BY <1>2 DEF Expire, Fault, TypeOK, PacketInv, sending, recovery
<1>3. ASSUME NEW s \in Senders, SendOK(s) PROVE PacketInv'
  BY <1>3, StartupAssumption DEF SendOK, SendOver, Goto, TypeOK, PacketInv, Threads,
     sending, recovery
<1>4. ASSUME NEW s \in Senders, SendFails(s) PROVE PacketInv'
  BY <1>4, StartupAssumption DEF SendFails, NetFault, Fault, SendOver, Goto, TypeOK,
     PacketInv, maxRetries, Threads, sending, recovery
<1>5. ASSUME NEW s \in Senders, SendUnknown(s) PROVE PacketInv'
  BY <1>5, StartupAssumption DEF SendUnknown, Fault, Goto, TypeOK, PacketInv, Threads,
     sending, recovery
<1>6. ASSUME NEW s \in Senders, BackoffElapsed(s) PROVE PacketInv'
  BY <1>6, StartupAssumption DEF BackoffElapsed, Goto, TypeOK, PacketInv, maxRetries,
     Threads, sending, recovery
<1>7. ASSUME NEW s \in Senders, GiveUp(s) PROVE PacketInv'
  BY <1>7, StartupAssumption DEF GiveUp, Goto, TypeOK, PacketInv, Threads, sending, recovery
<1>8. ASSUME NEW t \in Threads, BeginRecovery(t) PROVE PacketInv'
  BY <1>8, StartupAssumption DEF BeginRecovery, Return, Goto, TypeOK, PacketInv, Threads,
     sending, recovery
<1>9. ASSUME NEW t \in Threads, SignalOffline(t) PROVE PacketInv'
  BY <1>9, StartupAssumption DEF SignalOffline, Return, Goto, TypeOK, PacketInv, Threads,
     sending, recovery
<1>10. ASSUME StartupProbeOK PROVE PacketInv'
  BY <1>10, StartupAssumption DEF StartupProbeOK, Goto, TypeOK, PacketInv, Threads, sending,
     recovery
<1>11. ASSUME StartupProbeFails PROVE PacketInv'
  BY <1>11, StartupAssumption DEF StartupProbeFails, NetFault, Fault, Goto, TypeOK,
     PacketInv, Threads, sending, recovery
<1>12. ASSUME StartupOnline PROVE PacketInv'
  BY <1>12, StartupAssumption DEF StartupOnline, Goto, TypeOK, PacketInv, Threads, sending,
     recovery
<1>13. ASSUME NEW r \in Recoverers, RecSleepOver(r) PROVE PacketInv'
  BY <1>13 DEF RecSleepOver, RecGoto, TypeOK, PacketInv, sending, recovery
<1>14. ASSUME NEW r \in Recoverers, RecCancelled(r) PROVE PacketInv'
  BY <1>14 DEF RecCancelled, RecGoto, TypeOK, PacketInv, sending, recovery
<1>15. ASSUME NEW r \in Recoverers, ProbeOK(r) PROVE PacketInv'
  BY <1>15 DEF ProbeOK, RecGoto, TypeOK, PacketInv, sending, recovery
<1>16. ASSUME NEW r \in Recoverers, ProbeFails(r) PROVE PacketInv'
  BY <1>16 DEF ProbeFails, RecGoto, NetFault, Fault, TypeOK, PacketInv, sending, recovery
<1>17. ASSUME NEW r \in Recoverers, RecOnline(r) PROVE PacketInv'
  BY <1>17 DEF RecOnline, RecGoto, TypeOK, PacketInv, sending, recovery
<1>18. ASSUME NEW r \in Recoverers, RecReturn(r) PROVE PacketInv'
  BY <1>18 DEF RecReturn, RecGoto, TypeOK, PacketInv, sending, recovery
<1>19. ASSUME ServerDown PROVE PacketInv'
  BY <1>19 DEF ServerDown, Fault, TypeOK, PacketInv, sending, recovery
<1>20. ASSUME ServerUp PROVE PacketInv'
  BY <1>20 DEF ServerUp, TypeOK, PacketInv, sending, recovery
<1>21. ASSUME Cancel PROVE PacketInv'
  BY <1>21 DEF Cancel, Fault, TypeOK, PacketInv, sending, recovery
<1>22. QED
  BY <1>1, <1>2, <1>3, <1>4, <1>5, <1>6, <1>7, <1>8, <1>9, <1>10, <1>11, <1>12, <1>13,
     <1>14, <1>15, <1>16, <1>17, <1>18, <1>19, <1>20, <1>21 DEF Next, SenderStep,
     StartupStep, RecStep, Threads

\* The flag changes hands without being free.
LEMMA FlagStep ==
  ASSUME TypeOK, FlagInv, Next PROVE FlagInv'
<1>1. ASSUME NEW s \in Senders, StartPacket(s) PROVE FlagInv'
  BY <1>1, StartupAssumption DEF StartPacket, Goto, TypeOK, FlagInv, Held, SingleRecovery,
     Threads, sending, recovery
<1>2. ASSUME NEW s \in Senders, Expire(s) PROVE FlagInv'
  BY <1>2 DEF Expire, Fault, TypeOK, FlagInv, Held, SingleRecovery, sending, recovery
<1>3. ASSUME NEW s \in Senders, SendOK(s) PROVE FlagInv'
  BY <1>3, StartupAssumption DEF SendOK, SendOver, Goto, TypeOK, FlagInv, Held,
     SingleRecovery, Threads, sending, recovery
<1>4. ASSUME NEW s \in Senders, SendFails(s) PROVE FlagInv'
  BY <1>4, StartupAssumption DEF SendFails, NetFault, Fault, SendOver, Goto, TypeOK,
     FlagInv, Held, SingleRecovery, Threads, sending, recovery
<1>5. ASSUME NEW s \in Senders, SendUnknown(s) PROVE FlagInv'
  BY <1>5, StartupAssumption DEF SendUnknown, Fault, Goto, TypeOK, FlagInv, Held,
     SingleRecovery, Threads, sending, recovery
<1>6. ASSUME NEW s \in Senders, BackoffElapsed(s) PROVE FlagInv'
  BY <1>6, StartupAssumption DEF BackoffElapsed, Goto, TypeOK, FlagInv, Held,
     SingleRecovery, Threads, sending, recovery
<1>7. ASSUME NEW s \in Senders, GiveUp(s) PROVE FlagInv'
  BY <1>7, StartupAssumption DEF GiveUp, Goto, TypeOK, FlagInv, Held, SingleRecovery,
     Threads, sending, recovery
<1>8. ASSUME NEW t \in Threads, BeginRecovery(t) PROVE FlagInv'
  BY <1>8, StartupAssumption DEF BeginRecovery, Return, Goto, TypeOK, FlagInv, Held,
     SingleRecovery, Threads, sending, recovery
<1>9. ASSUME NEW t \in Threads, SignalOffline(t) PROVE FlagInv'
  BY <1>9, StartupAssumption DEF SignalOffline, Return, Goto, TypeOK, FlagInv, Held,
     SingleRecovery, Threads, sending, recovery
<1>10. ASSUME StartupProbeOK PROVE FlagInv'
  BY <1>10, StartupAssumption DEF StartupProbeOK, Goto, TypeOK, FlagInv, Held,
     SingleRecovery, Threads, sending, recovery
<1>11. ASSUME StartupProbeFails PROVE FlagInv'
  BY <1>11, StartupAssumption DEF StartupProbeFails, NetFault, Fault, Goto, TypeOK, FlagInv,
     Held, SingleRecovery, Threads, sending, recovery
<1>12. ASSUME StartupOnline PROVE FlagInv'
  BY <1>12, StartupAssumption DEF StartupOnline, Goto, TypeOK, FlagInv, Held,
     SingleRecovery, Threads, sending, recovery
<1>13. ASSUME NEW r \in Recoverers, RecSleepOver(r) PROVE FlagInv'
  BY <1>13 DEF RecSleepOver, RecGoto, TypeOK, FlagInv, Held, SingleRecovery, sending,
     recovery
<1>14. ASSUME NEW r \in Recoverers, RecCancelled(r) PROVE FlagInv'
  BY <1>14 DEF RecCancelled, RecGoto, TypeOK, FlagInv, Held, SingleRecovery, sending,
     recovery
<1>15. ASSUME NEW r \in Recoverers, ProbeOK(r) PROVE FlagInv'
  BY <1>15 DEF ProbeOK, RecGoto, TypeOK, FlagInv, Held, SingleRecovery, sending, recovery
<1>16. ASSUME NEW r \in Recoverers, ProbeFails(r) PROVE FlagInv'
  BY <1>16 DEF ProbeFails, RecGoto, NetFault, Fault, TypeOK, FlagInv, Held, SingleRecovery,
     sending, recovery
<1>17. ASSUME NEW r \in Recoverers, RecOnline(r) PROVE FlagInv'
  BY <1>17 DEF RecOnline, RecGoto, TypeOK, FlagInv, Held, SingleRecovery, sending, recovery
<1>18. ASSUME NEW r \in Recoverers, RecReturn(r) PROVE FlagInv'
  BY <1>18 DEF RecReturn, RecGoto, TypeOK, FlagInv, Held, SingleRecovery, sending, recovery
<1>19. ASSUME ServerDown PROVE FlagInv'
  BY <1>19 DEF ServerDown, Fault, TypeOK, FlagInv, Held, SingleRecovery, sending, recovery
<1>20. ASSUME ServerUp PROVE FlagInv'
  BY <1>20 DEF ServerUp, TypeOK, FlagInv, Held, SingleRecovery, sending, recovery
<1>21. ASSUME Cancel PROVE FlagInv'
  BY <1>21 DEF Cancel, Fault, TypeOK, FlagInv, Held, SingleRecovery, sending, recovery
<1>22. QED
  BY <1>1, <1>2, <1>3, <1>4, <1>5, <1>6, <1>7, <1>8, <1>9, <1>10, <1>11, <1>12, <1>13,
     <1>14, <1>15, <1>16, <1>17, <1>18, <1>19, <1>20, <1>21 DEF Next, SenderStep,
     StartupStep, RecStep, Threads

\* Nobody signals offline while a recovery ends.
LEMMA OutcomeStep ==
  ASSUME TypeOK, FlagInv, OutcomeInv, Next PROVE OutcomeInv'
<1>1. ASSUME NEW s \in Senders, StartPacket(s) PROVE OutcomeInv'
  BY <1>1 DEF StartPacket, Goto, TypeOK, FlagInv, OutcomeInv, Threads, sending, recovery
<1>2. ASSUME NEW s \in Senders, Expire(s) PROVE OutcomeInv'
  BY <1>2 DEF Expire, Fault, TypeOK, FlagInv, OutcomeInv, sending, recovery
<1>3. ASSUME NEW s \in Senders, SendOK(s) PROVE OutcomeInv'
  BY <1>3 DEF SendOK, SendOver, Goto, TypeOK, FlagInv, OutcomeInv, Threads, sending,
     recovery
<1>4. ASSUME NEW s \in Senders, SendFails(s) PROVE OutcomeInv'
  BY <1>4 DEF SendFails, NetFault, Fault, SendOver, Goto, TypeOK, FlagInv, OutcomeInv,
     Threads, sending, recovery
<1>5. ASSUME NEW s \in Senders, SendUnknown(s) PROVE OutcomeInv'
  BY <1>5 DEF SendUnknown, Fault, Goto, TypeOK, FlagInv, OutcomeInv, Threads, sending,
     recovery
<1>6. ASSUME NEW s \in Senders, BackoffElapsed(s) PROVE OutcomeInv'
  BY <1>6 DEF BackoffElapsed, Goto, TypeOK, FlagInv, OutcomeInv, Threads, sending, recovery
<1>7. ASSUME NEW s \in Senders, GiveUp(s) PROVE OutcomeInv'
  BY <1>7 DEF GiveUp, Goto, TypeOK, FlagInv, OutcomeInv, Threads, sending, recovery
<1>8. ASSUME NEW t \in Threads, BeginRecovery(t) PROVE OutcomeInv'
  BY <1>8 DEF BeginRecovery, Return, Goto, TypeOK, FlagInv, OutcomeInv, Threads, sending,
     recovery
<1>9. ASSUME NEW t \in Threads, SignalOffline(t) PROVE OutcomeInv'
  BY <1>9 DEF SignalOffline, Return, Goto, TypeOK, FlagInv, OutcomeInv, Threads, sending,
     recovery
<1>10. ASSUME StartupProbeOK PROVE OutcomeInv'
  BY <1>10 DEF StartupProbeOK, Goto, TypeOK, FlagInv, OutcomeInv, Threads, sending, recovery
<1>11. ASSUME StartupProbeFails PROVE OutcomeInv'
  BY <1>11 DEF StartupProbeFails, NetFault, Fault, Goto, TypeOK, FlagInv, OutcomeInv,
     Threads, sending, recovery
<1>12. ASSUME StartupOnline PROVE OutcomeInv'
  BY <1>12 DEF StartupOnline, Goto, TypeOK, FlagInv, OutcomeInv, Threads, sending, recovery
<1>13. ASSUME NEW r \in Recoverers, RecSleepOver(r) PROVE OutcomeInv'
  BY <1>13 DEF RecSleepOver, RecGoto, TypeOK, FlagInv, OutcomeInv, sending, recovery
<1>14. ASSUME NEW r \in Recoverers, RecCancelled(r) PROVE OutcomeInv'
  BY <1>14 DEF RecCancelled, RecGoto, TypeOK, FlagInv, OutcomeInv, sending, recovery
<1>15. ASSUME NEW r \in Recoverers, ProbeOK(r) PROVE OutcomeInv'
  BY <1>15 DEF ProbeOK, RecGoto, TypeOK, FlagInv, OutcomeInv, sending, recovery
<1>16. ASSUME NEW r \in Recoverers, ProbeFails(r) PROVE OutcomeInv'
  BY <1>16 DEF ProbeFails, RecGoto, NetFault, Fault, TypeOK, FlagInv, OutcomeInv, sending,
     recovery
<1>17. ASSUME NEW r \in Recoverers, RecOnline(r) PROVE OutcomeInv'
  BY <1>17 DEF RecOnline, RecGoto, TypeOK, FlagInv, OutcomeInv, sending, recovery
<1>18. ASSUME NEW r \in Recoverers, RecReturn(r) PROVE OutcomeInv'
  BY <1>18 DEF RecReturn, RecGoto, TypeOK, FlagInv, OutcomeInv, sending, recovery
<1>19. ASSUME ServerDown PROVE OutcomeInv'
  BY <1>19 DEF ServerDown, Fault, TypeOK, FlagInv, OutcomeInv, sending, recovery
<1>20. ASSUME ServerUp PROVE OutcomeInv'
  BY <1>20 DEF ServerUp, TypeOK, FlagInv, OutcomeInv, sending, recovery
<1>21. ASSUME Cancel PROVE OutcomeInv'
  BY <1>21 DEF Cancel, Fault, TypeOK, FlagInv, OutcomeInv, sending, recovery
<1>22. QED
  BY <1>1, <1>2, <1>3, <1>4, <1>5, <1>6, <1>7, <1>8, <1>9, <1>10, <1>11, <1>12, <1>13,
     <1>14, <1>15, <1>16, <1>17, <1>18, <1>19, <1>20, <1>21 DEF Next, SenderStep,
     StartupStep, RecStep, Threads

\* Whoever leaves the interface offline leaves somebody behind who will bring it back.
LEMMA AbandonStep ==
  ASSUME TypeOK, FlagInv, OutcomeInv, NeverAbandoned, Next PROVE NeverAbandoned'
<1>1. ASSUME NEW s \in Senders, StartPacket(s) PROVE NeverAbandoned'
  BY <1>1, StartupAssumption DEF StartPacket, Goto, TypeOK, NeverAbandoned, Recovering,
     Threads, sending, recovery
<1>2. ASSUME NEW s \in Senders, Expire(s) PROVE NeverAbandoned'
  BY <1>2 DEF Expire, Fault, TypeOK, NeverAbandoned, Recovering, sending, recovery
<1>3. ASSUME NEW s \in Senders, SendOK(s) PROVE NeverAbandoned'
  BY <1>3, StartupAssumption DEF SendOK, SendOver, Goto, TypeOK, NeverAbandoned,
     Recovering, Threads, sending, recovery
<1>4. ASSUME NEW s \in Senders, SendFails(s) PROVE NeverAbandoned'
  BY <1>4, StartupAssumption DEF SendFails, NetFault, Fault, SendOver, Goto, TypeOK,
     NeverAbandoned, Recovering, Threads, sending, recovery
<1>5. ASSUME NEW s \in Senders, SendUnknown(s) PROVE NeverAbandoned'
  BY <1>5, StartupAssumption DEF SendUnknown, Fault, Goto, TypeOK, NeverAbandoned,
     Recovering, Threads, sending, recovery
<1>6. ASSUME NEW s \in Senders, BackoffElapsed(s) PROVE NeverAbandoned'
  BY <1>6, StartupAssumption DEF BackoffElapsed, Goto, TypeOK, NeverAbandoned, Recovering,
     Threads, sending, recovery
<1>7. ASSUME NEW s \in Senders, GiveUp(s) PROVE NeverAbandoned'
  BY <1>7, StartupAssumption DEF GiveUp, Goto, TypeOK, NeverAbandoned, Recovering,
     Threads, sending, recovery
<1>8. ASSUME NEW t \in Threads, BeginRecovery(t) PROVE NeverAbandoned'
  BY <1>8, StartupAssumption DEF BeginRecovery, Return, Goto, TypeOK, NeverAbandoned,
     Recovering, FlagInv, Held, OutcomeInv, Threads, sending, recovery
<1>9. ASSUME NEW t \in Threads, SignalOffline(t) PROVE NeverAbandoned'
  BY <1>9, StartupAssumption DEF SignalOffline, Return, Goto, TypeOK, NeverAbandoned,
     Recovering, FlagInv, Held, OutcomeInv, Threads, sending, recovery
<1>10. ASSUME StartupProbeOK PROVE NeverAbandoned'
  BY <1>10, StartupAssumption DEF StartupProbeOK, Goto, TypeOK, NeverAbandoned,
     Recovering, Threads, sending, recovery
<1>11. ASSUME StartupProbeFails PROVE NeverAbandoned'
  BY <1>11, StartupAssumption DEF StartupProbeFails, NetFault, Fault, Goto, TypeOK,
     NeverAbandoned, Recovering, Threads, sending, recovery
<1>12. ASSUME StartupOnline PROVE NeverAbandoned'
  BY <1>12, StartupAssumption DEF StartupOnline, Goto, TypeOK, NeverAbandoned, Recovering,
     Threads, sending, recovery
<1>13. ASSUME NEW r \in Recoverers, RecSleepOver(r) PROVE NeverAbandoned'
  BY <1>13 DEF RecSleepOver, RecGoto, TypeOK, NeverAbandoned, Recovering, sending,
     recovery
<1>14. ASSUME NEW r \in Recoverers, RecCancelled(r) PROVE NeverAbandoned'
  BY <1>14 DEF RecCancelled, RecGoto, TypeOK, NeverAbandoned, Recovering, sending,
     recovery
<1>15. ASSUME NEW r \in Recoverers, ProbeOK(r) PROVE NeverAbandoned'
  BY <1>15 DEF ProbeOK, RecGoto, TypeOK, NeverAbandoned, Recovering, sending, recovery
<1>16. ASSUME NEW r \in Recoverers, ProbeFails(r) PROVE NeverAbandoned'
  BY <1>16 DEF ProbeFails, RecGoto, NetFault, Fault, TypeOK, NeverAbandoned, Recovering,
     sending, recovery
<1>17. ASSUME NEW r \in Recoverers, RecOnline(r) PROVE NeverAbandoned'
  BY <1>17 DEF RecOnline, RecGoto, TypeOK, NeverAbandoned, Recovering, sending, recovery
<1>18. ASSUME NEW r \in Recoverers, RecReturn(r) PROVE NeverAbandoned'
  BY <1>18 DEF RecReturn, RecGoto, TypeOK, NeverAbandoned, Recovering, FlagInv, Held,
     OutcomeInv, sending, recovery
<1>19. ASSUME ServerDown PROVE NeverAbandoned'
  BY <1>19 DEF ServerDown, Fault, TypeOK, NeverAbandoned, Recovering, sending, recovery
<1>20. ASSUME ServerUp PROVE NeverAbandoned'
  BY <1>20 DEF ServerUp, TypeOK, NeverAbandoned, Recovering, sending, recovery
<1>21. ASSUME Cancel PROVE NeverAbandoned'
  BY <1>21 DEF Cancel, Fault, TypeOK, NeverAbandoned, Recovering, sending, recovery
<1>22. QED
  BY <1>1, <1>2, <1>3, <1>4, <1>5, <1>6, <1>7, <1>8, <1>9, <1>10, <1>11, <1>12, <1>13,
     <1>14, <1>15, <1>16, <1>17, <1>18, <1>19, <1>20, <1>21 DEF Next, SenderStep,
     StartupStep, RecStep, Threads

LEMMA InitInd == ASSUME Init PROVE IndInv
<1>1. TypeOK
  <2>1. pc \in [Threads -> {"idle", "probe"}] /\ smtpOnline \in BOOLEAN
    BY DEF Init
  <2>2. delay \in [Recoverers -> RecoveryDelay..MaxRecoveryDelay]
    BY FirstDelay DEF Init
  <2>3. faults \in 0..MaxFaults
    BY FaultsAssumption DEF Init
  <2>4. {smtpOnline, up, ctxDone, owed} \subseteq BOOLEAN
    BY <2>1 DEF Init
  <2>5. attempt \in [Senders -> 1..maxRetries] /\ copies \in [Senders -> Nat]
    BY DEF Init, maxRetries
  <2>6. QED
    BY <2>1, <2>2, <2>3, <2>4, <2>5 DEF Init, TypeOK
<1>2. PacketInv /\ FlagInv /\ OutcomeInv
  BY StartupAssumption DEF Init, PacketInv, FlagInv, Held, SingleRecovery, OutcomeInv, Threads
<1>3. NeverAbandoned
  BY DEF Init, NeverAbandoned, Threads
<1>4. QED
  BY <1>1, <1>2, <1>3 DEF IndInv

LEMMA StutterInd == ASSUME IndInv, UNCHANGED vars PROVE IndInv'
  BY DEF IndInv, TypeOK, PacketInv, FlagInv, Held, SingleRecovery, OutcomeInv, NeverAbandoned,
         Recovering, vars, sending, recovery

\* The inductive invariant of the handler.
THEOREM Inductive == Spec => []IndInv
<1>1. IndInv /\ Next => IndInv'
  BY TypeStep, PacketStep, FlagStep, OutcomeStep, AbandonStep DEF IndInv
<1>2. QED
  BY <1>1, InitInd, StutterInd, PTL DEF Spec

\* Every variable of the handler keeps its type; the backoff keeps to its limit.
THEOREM TypeCorrect == Spec => []TypeOK
  BY Inductive, PTL DEF IndInv

\* The mail server accepts no packet twice, whichever answers are lost.
THEOREM AtMostOnceHolds == Spec => []AtMostOnce
<1>1. IndInv => AtMostOnce
  BY DEF IndInv, PacketInv, AtMostOnce
<1>2. QED
  BY <1>1, Inductive, PTL

\* h.recovering admits one recovery at a time, however many packets fail together.
THEOREM SingleRecoveryHolds == Spec => []SingleRecovery
<1>1. IndInv => SingleRecovery
  BY DEF IndInv, FlagInv
<1>2. QED
  BY <1>1, Inductive, PTL

\* An interface that is offline has somebody who will bring it back, unless the bridge stops.
THEOREM NeverAbandonedHolds == Spec => []NeverAbandoned
  BY Inductive, PTL DEF IndInv

\* Nothing but the late success of StartupProbe brings the interface online in a recovery that
\* has not succeeded: SignalOffline begins one offline, and when recover signals online
\* (RecOnline) no other recovery runs.
THEOREM OnlyStartupOverrulesHolds == Spec => OnlyStartupOverrules
<1> DEFINE Allowed == Recovering' /\ smtpOnline' => (Recovering /\ smtpOnline) \/ StartupOnline
<1>1. ASSUME NEW s \in Senders,
             \/ StartPacket(s) \/ Expire(s) \/ SendOK(s) \/ SendFails(s) \/ SendUnknown(s)
             \/ BackoffElapsed(s) \/ GiveUp(s)
      PROVE  Allowed
  <2>1. rec' = rec /\ smtpOnline' = smtpOnline
    BY <1>1 DEF StartPacket, Expire, SendOK, SendFails, SendUnknown, BackoffElapsed, GiveUp,
                recovery
  <2>2. QED
    BY <2>1 DEF Recovering
<1>2. ASSUME NEW t \in Threads, BeginRecovery(t) PROVE Allowed
  BY <1>2 DEF BeginRecovery, recovery, Recovering
<1>3. ASSUME NEW t \in Threads, SignalOffline(t) PROVE Allowed
  BY <1>3 DEF SignalOffline
<1>4. ASSUME StartupProbeOK \/ StartupProbeFails PROVE Allowed
  BY <1>4 DEF StartupProbeOK, StartupProbeFails, recovery, Recovering
<1>5. ASSUME StartupOnline PROVE Allowed
  BY <1>5
<1>6. ASSUME IndInv, NEW r \in Recoverers,
             RecSleepOver(r) \/ RecCancelled(r) \/ ProbeOK(r) \/ ProbeFails(r) \/ RecReturn(r)
      PROVE  Allowed
  <2>1. rec[r] \notin {"sleep", "probe", "online"} => rec'[r] = "none"
    BY <1>6 DEF RecSleepOver, RecCancelled, ProbeOK, ProbeFails, RecReturn, RecGoto, IndInv, TypeOK
  <2>2. smtpOnline' = smtpOnline /\ \A q \in Recoverers \ {r} : rec'[q] = rec[q]
    BY <1>6 DEF RecSleepOver, RecCancelled, ProbeOK, ProbeFails, RecReturn, RecGoto, IndInv, TypeOK
  <2>3. QED
    BY <1>6, <2>1, <2>2 DEF Recovering
<1>7. ASSUME IndInv, NEW r \in Recoverers, RecOnline(r) PROVE Allowed
  <2>1. \A q \in Recoverers : q # r => rec[q] = "none"
    BY <1>7 DEF IndInv, FlagInv, SingleRecovery, RecOnline
  <2>2. \A q \in Recoverers : rec'[q] \in {"none", "clear"}
    BY <1>7, <2>1 DEF RecOnline, RecGoto, IndInv, TypeOK
  <2>3. QED
    BY <2>2 DEF Recovering
<1>8. ASSUME ServerDown \/ ServerUp \/ Cancel PROVE Allowed
  BY <1>8 DEF ServerDown, ServerUp, Cancel, recovery, Recovering
<1>9. IndInv /\ [Next]_vars => [Allowed]_vars
  BY <1>1, <1>2, <1>3, <1>4, <1>5, <1>6, <1>7, <1>8 DEF Next, SenderStep, StartupStep, RecStep,
     Threads
<1>10. QED
  BY <1>9, Inductive, PTL DEF Spec, OnlyStartupOverrules
=============================================================================
