--------------------------- MODULE HandoverProofs ---------------------------
(* The safety properties of Handover, for any number of instances and        *)
(* sandboxes, when starts do not overlap.                                    *)
EXTENDS Handover, TLAPS

\* Instances that have started and were not told to stop.
Active(i) == pc[i] \in {"serving"} \cup Booting \cup Binding

OneActive == \A i, j \in Instance : Active(i) /\ Active(j) => i = j

\* A listener is open exactly between bind and close.
ListenersAreOpen == \A i \in Instance : i \in live <=> pc[i] \in {"chmod", "claim", "serving", "terminated"}

ClearHaveClaimed == \A i \in clear : pc[i] \in {"serving"} \cup Stopping \cup Removing \cup Gone

\* ReachableOnceClaimed with what keeps it: nobody else will touch the path.
ClearIsUndisturbed == \A i \in clear : pc[i] = "serving" => Undisturbed(i) /\ owner = i

ExclusiveIsAlone == \A i \in exclusive, j \in Instance : Up(i) /\ Up(j) => i = j

\* What an instance alone knows of the disk from stage to stage of Bootstrap.
ExclusiveIsExact ==
    \A i \in exclusive :
        /\ pc[i] \in {"vms", "sweep", "serving"} \cup Binding => known[i] = disk
        /\ pc[i] = "sweep" => vm \subseteq known[i] \cup listed[i] \cup spared[i]
        /\ pc[i] \in {"serving"} \cup Binding => vm \subseteq disk \cup spared[i]

IInv ==
    /\ TypeOK
    /\ OneActive
    /\ ListenersAreOpen
    /\ ClearHaveClaimed
    /\ MarkerIsNeverStale
    /\ ClearIsUndisturbed
    /\ ExclusiveIsAlone
    /\ ExclusiveIsExact

-----------------------------------------------------------------------------

\* Every step of an instance keeps the types.
LEMMA TypeStep ==
    ASSUME Concurrent = FALSE, TypeOK, Next
    PROVE  TypeOK'
PROOF
<1> PICK i \in Instance : Start(i) \/ Startup(i) \/ Serve(i) \/ Shutdown(i) \/ Kill(i)
    BY DEF Next
<1> USE NoOneIsNoInstance DEF Goto, TypeOK, Stages, Booting, Binding, Stopping, Removing, Gone
<1>1. CASE Start(i)
    BY <1>1 DEF Start, MayStart
<1>2. CASE ReadRecords(i)
    BY <1>2 DEF ReadRecords
<1>3. CASE ListVMs(i)
    BY <1>3 DEF ListVMs
<1>4. CASE Sweep(i)
    BY <1>4 DEF Sweep
<1>5. CASE StatSocket(i)
    BY <1>5 DEF StatSocket
<1>6. CASE DialSocket(i)
    BY <1>6 DEF DialSocket
<1>7. CASE UnlinkStale(i)
    BY <1>7 DEF UnlinkStale
<1>8. CASE UnlinkMarker(i)
    BY <1>8 DEF UnlinkMarker
<1>9. CASE Listen(i)
    BY <1>9 DEF Listen
<1>10. CASE ChmodSocket(i)
    BY <1>10 DEF ChmodSocket, CloseListener
<1>11. CASE Claim(i)
    BY <1>11 DEF Claim, Undisturbed, CloseListener
<1>12. CASE Terminate(i)
    BY <1>12 DEF Terminate
<1>13. CASE ServeFails(i)
    BY <1>13 DEF ServeFails, CloseListener
<1>14. ASSUME NEW s \in Sandbox, Accept(i, s) PROVE TypeOK'
    BY <1>14 DEF Accept, Answers
<1>15. ASSUME NEW s \in Sandbox, Boot(i, s) PROVE TypeOK'
    BY <1>15 DEF Boot, Answers
<1>16. ASSUME NEW s \in Sandbox, Delete(i, s) PROVE TypeOK'
    BY <1>16 DEF Delete, Answers
<1>17. CASE StopListening(i)
    BY <1>17 DEF StopListening, CloseListener
<1>18. CASE Drained(i)
    BY <1>18 DEF Drained
<1>19. CASE ReadMarker(i)
    BY <1>19 DEF ReadMarker
<1>20. CASE Disown(i)
    BY <1>20 DEF Disown
<1>21. CASE RemoveSocket(i)
    BY <1>21 DEF RemoveSocket
<1>22. CASE Kill(i)
    BY <1>22 DEF Kill, Up
<1> QED
    BY <1>1, <1>2, <1>3, <1>4, <1>5, <1>6, <1>7, <1>8, <1>9, <1>10, <1>11, <1>12, <1>13, <1>14, <1>15, <1>16, <1>17, <1>18, <1>19, <1>20, <1>21, <1>22 DEF Startup, Serve, Shutdown

\* Only Start makes an instance active, and it waits for the others to be told to stop.
LEMMA OneActiveStep ==
    ASSUME Concurrent = FALSE, TypeOK, OneActive, Next
    PROVE  OneActive'
PROOF
<1> PICK i \in Instance : Start(i) \/ Startup(i) \/ Serve(i) \/ Shutdown(i) \/ Kill(i)
    BY DEF Next
<1> USE NoOneIsNoInstance DEF Goto, TypeOK, OneActive, Active, Up, Booting, Binding, Stopping, Removing, Gone
<1>1. CASE Start(i)
    BY <1>1 DEF Start, MayStart
<1>2. CASE ReadRecords(i)
    BY <1>2 DEF ReadRecords
<1>3. CASE ListVMs(i)
    BY <1>3 DEF ListVMs
<1>4. CASE Sweep(i)
    BY <1>4 DEF Sweep
<1>5. CASE StatSocket(i)
    BY <1>5 DEF StatSocket
<1>6. CASE DialSocket(i)
    BY <1>6 DEF DialSocket
<1>7. CASE UnlinkStale(i)
    BY <1>7 DEF UnlinkStale
<1>8. CASE UnlinkMarker(i)
    BY <1>8 DEF UnlinkMarker
<1>9. CASE Listen(i)
    BY <1>9 DEF Listen
<1>10. CASE ChmodSocket(i)
    BY <1>10 DEF ChmodSocket, CloseListener
<1>11. CASE Claim(i)
    BY <1>11 DEF Claim, Undisturbed, CloseListener
<1>12. CASE Terminate(i)
    BY <1>12 DEF Terminate
<1>13. CASE ServeFails(i)
    BY <1>13 DEF ServeFails, CloseListener
<1>14. ASSUME NEW s \in Sandbox, Accept(i, s) PROVE OneActive'
    BY <1>14 DEF Accept, Answers
<1>15. ASSUME NEW s \in Sandbox, Boot(i, s) PROVE OneActive'
    BY <1>15 DEF Boot, Answers
<1>16. ASSUME NEW s \in Sandbox, Delete(i, s) PROVE OneActive'
    BY <1>16 DEF Delete, Answers
<1>17. CASE StopListening(i)
    BY <1>17 DEF StopListening, CloseListener
<1>18. CASE Drained(i)
    BY <1>18 DEF Drained
<1>19. CASE ReadMarker(i)
    BY <1>19 DEF ReadMarker
<1>20. CASE Disown(i)
    BY <1>20 DEF Disown
<1>21. CASE RemoveSocket(i)
    BY <1>21 DEF RemoveSocket
<1>22. CASE Kill(i)
    BY <1>22 DEF Kill
<1> QED
    BY <1>1, <1>2, <1>3, <1>4, <1>5, <1>6, <1>7, <1>8, <1>9, <1>10, <1>11, <1>12, <1>13, <1>14, <1>15, <1>16, <1>17, <1>18, <1>19, <1>20, <1>21, <1>22 DEF Startup, Serve, Shutdown

\* Listeners open with the bind and close with the instance or before.
LEMMA ListenersStep ==
    ASSUME Concurrent = FALSE, TypeOK, ListenersAreOpen, Next
    PROVE  ListenersAreOpen'
PROOF
<1> PICK i \in Instance : Start(i) \/ Startup(i) \/ Serve(i) \/ Shutdown(i) \/ Kill(i)
    BY DEF Next
<1> USE NoOneIsNoInstance DEF Goto, TypeOK, ListenersAreOpen, Up, Booting, Binding, Stopping, Removing, Gone
<1>1. CASE Start(i)
    BY <1>1 DEF Start, MayStart
<1>2. CASE ReadRecords(i)
    BY <1>2 DEF ReadRecords
<1>3. CASE ListVMs(i)
    BY <1>3 DEF ListVMs
<1>4. CASE Sweep(i)
    BY <1>4 DEF Sweep
<1>5. CASE StatSocket(i)
    BY <1>5 DEF StatSocket
<1>6. CASE DialSocket(i)
    BY <1>6 DEF DialSocket
<1>7. CASE UnlinkStale(i)
    BY <1>7 DEF UnlinkStale
<1>8. CASE UnlinkMarker(i)
    BY <1>8 DEF UnlinkMarker
<1>9. CASE Listen(i)
    BY <1>9 DEF Listen
<1>10. CASE ChmodSocket(i)
    BY <1>10 DEF ChmodSocket, CloseListener
<1>11. CASE Claim(i)
    BY <1>11 DEF Claim, Undisturbed, CloseListener
<1>12. CASE Terminate(i)
    BY <1>12 DEF Terminate
<1>13. CASE ServeFails(i)
    BY <1>13 DEF ServeFails, CloseListener
<1>14. ASSUME NEW s \in Sandbox, Accept(i, s) PROVE ListenersAreOpen'
    BY <1>14 DEF Accept, Answers
<1>15. ASSUME NEW s \in Sandbox, Boot(i, s) PROVE ListenersAreOpen'
    BY <1>15 DEF Boot, Answers
<1>16. ASSUME NEW s \in Sandbox, Delete(i, s) PROVE ListenersAreOpen'
    BY <1>16 DEF Delete, Answers
<1>17. CASE StopListening(i)
    BY <1>17 DEF StopListening, CloseListener
<1>18. CASE Drained(i)
    BY <1>18 DEF Drained
<1>19. CASE ReadMarker(i)
    BY <1>19 DEF ReadMarker
<1>20. CASE Disown(i)
    BY <1>20 DEF Disown
<1>21. CASE RemoveSocket(i)
    BY <1>21 DEF RemoveSocket
<1>22. CASE Kill(i)
    BY <1>22 DEF Kill
<1> QED
    BY <1>1, <1>2, <1>3, <1>4, <1>5, <1>6, <1>7, <1>8, <1>9, <1>10, <1>11, <1>12, <1>13, <1>14, <1>15, <1>16, <1>17, <1>18, <1>19, <1>20, <1>21, <1>22 DEF Startup, Serve, Shutdown

\* An instance enters clear as it claims.
LEMMA ClearHaveClaimedStep ==
    ASSUME Concurrent = FALSE, TypeOK, ClearHaveClaimed, Next
    PROVE  ClearHaveClaimed'
PROOF
<1> PICK i \in Instance : Start(i) \/ Startup(i) \/ Serve(i) \/ Shutdown(i) \/ Kill(i)
    BY DEF Next
<1> USE NoOneIsNoInstance DEF Goto, TypeOK, ClearHaveClaimed, Booting, Binding, Stopping, Removing, Gone
<1>1. CASE Start(i)
    BY <1>1 DEF Start, MayStart
<1>2. CASE ReadRecords(i)
    BY <1>2 DEF ReadRecords
<1>3. CASE ListVMs(i)
    BY <1>3 DEF ListVMs
<1>4. CASE Sweep(i)
    BY <1>4 DEF Sweep
<1>5. CASE StatSocket(i)
    BY <1>5 DEF StatSocket
<1>6. CASE DialSocket(i)
    BY <1>6 DEF DialSocket
<1>7. CASE UnlinkStale(i)
    BY <1>7 DEF UnlinkStale
<1>8. CASE UnlinkMarker(i)
    BY <1>8 DEF UnlinkMarker
<1>9. CASE Listen(i)
    BY <1>9 DEF Listen
<1>10. CASE ChmodSocket(i)
    BY <1>10 DEF ChmodSocket, CloseListener
<1>11. CASE Claim(i)
    BY <1>11 DEF Claim, Undisturbed, CloseListener
<1>12. CASE Terminate(i)
    BY <1>12 DEF Terminate
<1>13. CASE ServeFails(i)
    BY <1>13 DEF ServeFails, CloseListener
<1>14. ASSUME NEW s \in Sandbox, Accept(i, s) PROVE ClearHaveClaimed'
    BY <1>14 DEF Accept, Answers
<1>15. ASSUME NEW s \in Sandbox, Boot(i, s) PROVE ClearHaveClaimed'
    BY <1>15 DEF Boot, Answers
<1>16. ASSUME NEW s \in Sandbox, Delete(i, s) PROVE ClearHaveClaimed'
    BY <1>16 DEF Delete, Answers
<1>17. CASE StopListening(i)
    BY <1>17 DEF StopListening, CloseListener
<1>18. CASE Drained(i)
    BY <1>18 DEF Drained
<1>19. CASE ReadMarker(i)
    BY <1>19 DEF ReadMarker
<1>20. CASE Disown(i)
    BY <1>20 DEF Disown
<1>21. CASE RemoveSocket(i)
    BY <1>21 DEF RemoveSocket
<1>22. CASE Kill(i)
    BY <1>22 DEF Kill, Up
<1> QED
    BY <1>1, <1>2, <1>3, <1>4, <1>5, <1>6, <1>7, <1>8, <1>9, <1>10, <1>11, <1>12, <1>13, <1>14, <1>15, <1>16, <1>17, <1>18, <1>19, <1>20, <1>21, <1>22 DEF Startup, Serve, Shutdown

\* Only the active instance writes the marker.
LEMMA MarkerStep ==
    ASSUME Concurrent = FALSE, TypeOK, OneActive, MarkerIsNeverStale, Next
    PROVE  MarkerIsNeverStale'
PROOF
<1> PICK i \in Instance : Start(i) \/ Startup(i) \/ Serve(i) \/ Shutdown(i) \/ Kill(i)
    BY DEF Next
<1> USE NoOneIsNoInstance DEF Goto, TypeOK, OneActive, Active, MarkerIsNeverStale, Booting, Binding, Stopping, Removing, Gone
<1>1. CASE Start(i)
    BY <1>1 DEF Start, MayStart
<1>2. CASE ReadRecords(i)
    BY <1>2 DEF ReadRecords
<1>3. CASE ListVMs(i)
    BY <1>3 DEF ListVMs
<1>4. CASE Sweep(i)
    BY <1>4 DEF Sweep
<1>5. CASE StatSocket(i)
    BY <1>5 DEF StatSocket
<1>6. CASE DialSocket(i)
    BY <1>6 DEF DialSocket
<1>7. CASE UnlinkStale(i)
    BY <1>7 DEF UnlinkStale
<1>8. CASE UnlinkMarker(i)
    BY <1>8 DEF UnlinkMarker
<1>9. CASE Listen(i)
    BY <1>9 DEF Listen
<1>10. CASE ChmodSocket(i)
    BY <1>10 DEF ChmodSocket, CloseListener
<1>11. CASE Claim(i)
    BY <1>11 DEF Claim, Undisturbed, CloseListener
<1>12. CASE Terminate(i)
    BY <1>12 DEF Terminate
<1>13. CASE ServeFails(i)
    BY <1>13 DEF ServeFails, CloseListener
<1>14. ASSUME NEW s \in Sandbox, Accept(i, s) PROVE MarkerIsNeverStale'
    BY <1>14 DEF Accept, Answers
<1>15. ASSUME NEW s \in Sandbox, Boot(i, s) PROVE MarkerIsNeverStale'
    BY <1>15 DEF Boot, Answers
<1>16. ASSUME NEW s \in Sandbox, Delete(i, s) PROVE MarkerIsNeverStale'
    BY <1>16 DEF Delete, Answers
<1>17. CASE StopListening(i)
    BY <1>17 DEF StopListening, CloseListener
<1>18. CASE Drained(i)
    BY <1>18 DEF Drained
<1>19. CASE ReadMarker(i)
    BY <1>19 DEF ReadMarker
<1>20. CASE Disown(i)
    BY <1>20 DEF Disown
<1>21. CASE RemoveSocket(i)
    BY <1>21 DEF RemoveSocket
<1>22. CASE Kill(i)
    BY <1>22 DEF Kill, Up
<1> QED
    BY <1>1, <1>2, <1>3, <1>4, <1>5, <1>6, <1>7, <1>8, <1>9, <1>10, <1>11, <1>12, <1>13, <1>14, <1>15, <1>16, <1>17, <1>18, <1>19, <1>20, <1>21, <1>22 DEF Startup, Serve, Shutdown

\* Nobody but the instance itself can touch the path of an undisturbed one.
LEMMA ClearStep ==
    ASSUME Concurrent = FALSE, TypeOK, OneActive, ListenersAreOpen, ClearHaveClaimed, ClearIsUndisturbed, Next
    PROVE  ClearIsUndisturbed'
PROOF
<1> PICK i \in Instance : Start(i) \/ Startup(i) \/ Serve(i) \/ Shutdown(i) \/ Kill(i)
    BY DEF Next
<1> USE NoOneIsNoInstance DEF Goto, TypeOK, OneActive, Active, ListenersAreOpen, ClearHaveClaimed, ClearIsUndisturbed, Undisturbed, Booting, Binding, Stopping, Removing, Gone
<1>1. CASE Start(i)
    BY <1>1 DEF Start, MayStart
<1>2. CASE ReadRecords(i)
    BY <1>2 DEF ReadRecords
<1>3. CASE ListVMs(i)
    BY <1>3 DEF ListVMs
<1>4. CASE Sweep(i)
    BY <1>4 DEF Sweep
<1>5. CASE StatSocket(i)
    BY <1>5 DEF StatSocket
<1>6. CASE DialSocket(i)
    BY <1>6 DEF DialSocket
<1>7. CASE UnlinkStale(i)
    BY <1>7 DEF UnlinkStale
<1>8. CASE UnlinkMarker(i)
    BY <1>8 DEF UnlinkMarker
<1>9. CASE Listen(i)
    BY <1>9 DEF Listen
<1>10. CASE ChmodSocket(i)
    BY <1>10 DEF ChmodSocket, CloseListener
<1>11. CASE Claim(i)
    BY <1>11 DEF Claim, CloseListener
<1>12. CASE Terminate(i)
    BY <1>12 DEF Terminate
<1>13. CASE ServeFails(i)
    BY <1>13 DEF ServeFails, CloseListener
<1>14. ASSUME NEW s \in Sandbox, Accept(i, s) PROVE ClearIsUndisturbed'
    BY <1>14 DEF Accept, Answers
<1>15. ASSUME NEW s \in Sandbox, Boot(i, s) PROVE ClearIsUndisturbed'
    BY <1>15 DEF Boot, Answers
<1>16. ASSUME NEW s \in Sandbox, Delete(i, s) PROVE ClearIsUndisturbed'
    BY <1>16 DEF Delete, Answers
<1>17. CASE StopListening(i)
    BY <1>17 DEF StopListening, CloseListener
<1>18. CASE Drained(i)
    BY <1>18 DEF Drained
<1>19. CASE ReadMarker(i)
    BY <1>19 DEF ReadMarker
<1>20. CASE Disown(i)
    BY <1>20 DEF Disown
<1>21. CASE RemoveSocket(i)
    BY <1>21 DEF RemoveSocket
<1>22. CASE Kill(i)
    BY <1>22 DEF Kill, Up
<1> QED
    BY <1>1, <1>2, <1>3, <1>4, <1>5, <1>6, <1>7, <1>8, <1>9, <1>10, <1>11, <1>12, <1>13, <1>14, <1>15, <1>16, <1>17, <1>18, <1>19, <1>20, <1>21, <1>22 DEF Startup, Serve, Shutdown

\* A start ends the exclusiveness of others.
LEMMA AloneStep ==
    ASSUME Concurrent = FALSE, TypeOK, ExclusiveIsAlone, Next
    PROVE  ExclusiveIsAlone'
PROOF
<1> PICK i \in Instance : Start(i) \/ Startup(i) \/ Serve(i) \/ Shutdown(i) \/ Kill(i)
    BY DEF Next
<1> USE NoOneIsNoInstance DEF Goto, TypeOK, ExclusiveIsAlone, Up, Booting, Binding, Stopping, Removing, Gone
<1>1. CASE Start(i)
    BY <1>1 DEF Start, MayStart
<1>2. CASE ReadRecords(i)
    BY <1>2 DEF ReadRecords
<1>3. CASE ListVMs(i)
    BY <1>3 DEF ListVMs
<1>4. CASE Sweep(i)
    BY <1>4 DEF Sweep
<1>5. CASE StatSocket(i)
    BY <1>5 DEF StatSocket
<1>6. CASE DialSocket(i)
    BY <1>6 DEF DialSocket
<1>7. CASE UnlinkStale(i)
    BY <1>7 DEF UnlinkStale
<1>8. CASE UnlinkMarker(i)
    BY <1>8 DEF UnlinkMarker
<1>9. CASE Listen(i)
    BY <1>9 DEF Listen
<1>10. CASE ChmodSocket(i)
    BY <1>10 DEF ChmodSocket, CloseListener
<1>11. CASE Claim(i)
    BY <1>11 DEF Claim, Undisturbed, CloseListener
<1>12. CASE Terminate(i)
    BY <1>12 DEF Terminate
<1>13. CASE ServeFails(i)
    BY <1>13 DEF ServeFails, CloseListener
<1>14. ASSUME NEW s \in Sandbox, Accept(i, s) PROVE ExclusiveIsAlone'
    BY <1>14 DEF Accept, Answers
<1>15. ASSUME NEW s \in Sandbox, Boot(i, s) PROVE ExclusiveIsAlone'
    BY <1>15 DEF Boot, Answers
<1>16. ASSUME NEW s \in Sandbox, Delete(i, s) PROVE ExclusiveIsAlone'
    BY <1>16 DEF Delete, Answers
<1>17. CASE StopListening(i)
    BY <1>17 DEF StopListening, CloseListener
<1>18. CASE Drained(i)
    BY <1>18 DEF Drained
<1>19. CASE ReadMarker(i)
    BY <1>19 DEF ReadMarker
<1>20. CASE Disown(i)
    BY <1>20 DEF Disown
<1>21. CASE RemoveSocket(i)
    BY <1>21 DEF RemoveSocket
<1>22. CASE Kill(i)
    BY <1>22 DEF Kill
<1> QED
    BY <1>1, <1>2, <1>3, <1>4, <1>5, <1>6, <1>7, <1>8, <1>9, <1>10, <1>11, <1>12, <1>13, <1>14, <1>15, <1>16, <1>17, <1>18, <1>19, <1>20, <1>21, <1>22 DEF Startup, Serve, Shutdown

\* Nobody but the instance itself changes disk and VMs of an exclusive one.
LEMMA ExactStep ==
    ASSUME Concurrent = FALSE, TypeOK, ExclusiveIsAlone, ExclusiveIsExact, Next
    PROVE  ExclusiveIsExact'
PROOF
<1> PICK i \in Instance : Start(i) \/ Startup(i) \/ Serve(i) \/ Shutdown(i) \/ Kill(i)
    BY DEF Next
<1> USE NoOneIsNoInstance DEF Goto, TypeOK, ExclusiveIsAlone, ExclusiveIsExact, Up, Booting, Binding, Stopping, Removing, Gone
<1>1. CASE Start(i)
    BY <1>1 DEF Start, MayStart
<1>2. CASE ReadRecords(i)
    BY <1>2 DEF ReadRecords
<1>3. CASE ListVMs(i)
    BY <1>3 DEF ListVMs
<1>4. CASE Sweep(i)
    BY <1>4 DEF Sweep
<1>5. CASE StatSocket(i)
    BY <1>5 DEF StatSocket
<1>6. CASE DialSocket(i)
    BY <1>6 DEF DialSocket
<1>7. CASE UnlinkStale(i)
    BY <1>7 DEF UnlinkStale
<1>8. CASE UnlinkMarker(i)
    BY <1>8 DEF UnlinkMarker
<1>9. CASE Listen(i)
    BY <1>9 DEF Listen
<1>10. CASE ChmodSocket(i)
    BY <1>10 DEF ChmodSocket, CloseListener
<1>11. CASE Claim(i)
    BY <1>11 DEF Claim, Undisturbed, CloseListener
<1>12. CASE Terminate(i)
    BY <1>12 DEF Terminate
<1>13. CASE ServeFails(i)
    BY <1>13 DEF ServeFails, CloseListener
<1>14. ASSUME NEW s \in Sandbox, Accept(i, s) PROVE ExclusiveIsExact'
    BY <1>14 DEF Accept, Answers
<1>15. ASSUME NEW s \in Sandbox, Boot(i, s) PROVE ExclusiveIsExact'
    BY <1>15 DEF Boot, Answers
<1>16. ASSUME NEW s \in Sandbox, Delete(i, s) PROVE ExclusiveIsExact'
    <2>1. /\ vm' = vm \ {s} /\ UNCHANGED <<pc, listed, spared, exclusive>>
          /\ \/ disk' = disk \ {s} /\ known' = [known EXCEPT ![i] = @ \ {s}]
             \/ UNCHANGED <<disk, known>>
        BY <1>16 DEF Delete
    <2>2. \A j \in exclusive : j \in Instance /\ (Up(j) => j = i)
        BY <1>16 DEF Delete, Answers
    <2>3. ASSUME NEW j \in exclusive, j # i PROVE pc[j] \notin {"vms", "sweep", "serving"} \cup Binding
        BY <2>2, <2>3
    <2>4. ASSUME i \in exclusive PROVE /\ pc[i] \notin {"vms", "sweep"} \cup Binding
                                       /\ pc[i] = "serving" => known'[i] = disk' /\ vm' \subseteq disk' \cup spared[i]
        <3>1. pc[i] \notin {"vms", "sweep"} \cup Binding
            BY <1>16 DEF Delete, Answers
        <3>2. ASSUME pc[i] = "serving" PROVE known[i] = disk /\ vm \subseteq disk \cup spared[i]
            BY <2>4, <3>2
        <3> QED
            BY <2>1, <3>1, <3>2
    <2> QED
        BY <2>1, <2>3, <2>4
<1>17. CASE StopListening(i)
    BY <1>17 DEF StopListening, CloseListener
<1>18. CASE Drained(i)
    BY <1>18 DEF Drained
<1>19. CASE ReadMarker(i)
    BY <1>19 DEF ReadMarker
<1>20. CASE Disown(i)
    BY <1>20 DEF Disown
<1>21. CASE RemoveSocket(i)
    BY <1>21 DEF RemoveSocket
<1>22. CASE Kill(i)
    BY <1>22 DEF Kill
<1> QED
    BY <1>1, <1>2, <1>3, <1>4, <1>5, <1>6, <1>7, <1>8, <1>9, <1>10, <1>11, <1>12, <1>13, <1>14, <1>15, <1>16, <1>17, <1>18, <1>19, <1>20, <1>21, <1>22 DEF Startup, Serve, Shutdown

-----------------------------------------------------------------------------

\* The conjunction of the above is an inductive invariant.
THEOREM Inductive ==
    ASSUME Concurrent = FALSE
    PROVE  Spec => []IInv
PROOF
<1>1. Init => IInv
    BY NoOneIsNoInstance
    DEF Init, IInv, TypeOK, OneActive, Active, ListenersAreOpen, ClearHaveClaimed, MarkerIsNeverStale,
        ClearIsUndisturbed, ExclusiveIsAlone, ExclusiveIsExact, Stages, Booting, Binding
<1>2. IInv /\ [Next]_vars => IInv'
    <2> SUFFICES ASSUME IInv, [Next]_vars PROVE IInv'
        OBVIOUS
    <2>1. CASE Next
        BY <2>1, TypeStep, OneActiveStep, ListenersStep, ClearHaveClaimedStep, MarkerStep, ClearStep,
           AloneStep, ExactStep
        DEF IInv
    <2>2. CASE UNCHANGED vars
        BY <2>2
        DEF vars, IInv, TypeOK, OneActive, Active, ListenersAreOpen, ClearHaveClaimed,
            MarkerIsNeverStale, ClearIsUndisturbed, Undisturbed, ExclusiveIsAlone, ExclusiveIsExact, Up
    <2> QED
        BY <2>1, <2>2
<1> QED
    BY <1>1, <1>2, PTL DEF Spec

\* No instance that drains finds its own token while another one serves.
THEOREM MarkerCorrect ==
    ASSUME Concurrent = FALSE
    PROVE  Spec => []MarkerIsNeverStale
PROOF
<1>1. IInv => MarkerIsNeverStale
    BY DEF IInv
<1> QED
    BY <1>1, Inductive, PTL

\* An instance that claimed the socket undisturbed stays reachable while it serves.
THEOREM ReachableCorrect ==
    ASSUME Concurrent = FALSE
    PROVE  Spec => []ReachableOnceClaimed
PROOF
<1>1. IInv => ReachableOnceClaimed
    BY DEF IInv, TypeOK, ClearIsUndisturbed, Undisturbed, ReachableOnceClaimed
<1> QED
    BY <1>1, Inductive, PTL

\* An instance alone on the host knows every record, and every VM has one, but those that
\* its sweep failed to remove.
THEOREM ExactCorrect ==
    ASSUME Concurrent = FALSE
    PROVE  Spec => []SoleInstanceIsExact
PROOF
<1>1. IInv => SoleInstanceIsExact
    BY DEF IInv, TypeOK, ExclusiveIsExact, SoleInstanceIsExact
<1> QED
    BY <1>1, Inductive, PTL
=============================================================================
