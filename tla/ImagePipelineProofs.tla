------------------------- MODULE ImagePipelineProofs -------------------------
(***************************************************************************)
(* What holds of a project's images for every set of images, every world,  *)
(* every size of batches, waves and requests and every bound of the        *)
(* faults: the types, that a verdict rests on a finished table, that an    *)
(* ordinary image becomes an error only by strikes or by a failure to      *)
(* store its faces, and that the progress shown at rest is exact.          *)
(***************************************************************************)
EXTENDS ImagePipeline, FiniteSetTheorems, TLAPS

\* The parts of the type invariant depend on their own variables only.
LEMMA Frames ==
    ASSUME TypeOK
    PROVE  /\ UNCHANGED <<world, tableVars>> => TablesOK'
           /\ UNCHANGED faceVars => FacesOK'
           /\ UNCHANGED projectVars => ProjectOK'
           /\ UNCHANGED <<serviceVars, processVars>> => ServicesOK'
           /\ UNCHANGED <<at, image>> => PlaceOK'
           /\ UNCHANGED <<todo, batch, waveVars, before, some, first>> => WaveOK'
           /\ UNCHANGED history => HistoryOK'
<1>1. UNCHANGED <<world, tableVars>> => TablesOK'
  BY DEF TypeOK, TablesOK, tableVars
<1>2. UNCHANGED faceVars => FacesOK'
  BY DEF TypeOK, FacesOK, faceVars
<1>3. UNCHANGED projectVars => ProjectOK'
  BY DEF TypeOK, ProjectOK, projectVars
<1>4. UNCHANGED <<serviceVars, processVars>> => ServicesOK'
  BY DEF TypeOK, ServicesOK, serviceVars, processVars
<1>5. UNCHANGED <<at, image>> => PlaceOK'
  BY DEF TypeOK, PlaceOK
<1>6. UNCHANGED <<todo, batch, waveVars, before, some, first>> => WaveOK'
  BY DEF TypeOK, WaveOK, waveVars
<1>7. UNCHANGED history => HistoryOK'
  BY DEF TypeOK, HistoryOK, history, faultVars
<1> QED
  BY <1>1, <1>2, <1>3, <1>4, <1>5, <1>6, <1>7

\* Numbers of images are numbers.
LEMMA Counts ==
    Cardinality(Pending) \in Nat /\ Cardinality(Finished) \in Nat
<1>1. Pending \subseteq Images /\ Finished \subseteq Images
  BY DEF Pending, Finished, Known
<1> QED
  BY <1>1, ImagesAssumption, FS_Subset, FS_CardinalityType

\* The answers to a request of some images give every image an outcome.
LEMMA NotedType ==
    ASSUME TypeOK, NEW request \in SUBSET Images
    PROVE  Noted(Replies(request)) \in [Images -> Outcomes]
<1>1. \A i \in request : Replies(request)[i] \in Outcomes
  BY DEF Replies, Outcomes
<1>2. DOMAIN Replies(request) = request
  BY DEF Replies
<1> QED
  BY <1>1, <1>2 DEF Noted, TypeOK, WaveOK

\* Every action keeps the types.
LEMMA StepType ==
    ASSUME TypeOK, Next
    PROVE  TypeOK'
<1>1. CASE Claim
  <2>1. TablesOK' /\ FacesOK' /\ ProjectOK' /\ ServicesOK' /\ WaveOK' /\ HistoryOK'
    BY <1>1, Frames DEF Claim, jobVars
  <2>2. PlaceOK'
    BY <1>1 DEF Claim, TypeOK, PlaceOK, jobVars, waveVars, Places, UsesImage
  <2> QED
    BY <2>1, <2>2 DEF TypeOK
<1>2. CASE Begin
  <2>1. TablesOK' /\ FacesOK' /\ ProjectOK' /\ ServicesOK'
    BY <1>2, Frames DEF Begin, jobVars
  <2>2. PlaceOK'
    BY <1>2 DEF Begin, TypeOK, PlaceOK, Places, UsesImage, StillActive, NoFault, Fault
  <2>3. WaveOK'
    BY <1>2
    DEF Begin, TypeOK, WaveOK, waveVars, Outcomes, NoReplies, StillActive, NoFault, Fault
  <2>4. HistoryOK'
    BY <1>2, BoundsAssumption
    DEF Begin, TypeOK, HistoryOK, faultVars, StillActive, NoFault, Fault, Mishap, Trouble
  <2> QED
    BY <2>1, <2>2, <2>3, <2>4 DEF TypeOK
<1>3. CASE CrawlPage
  <2>1. FacesOK' /\ ProjectOK' /\ ServicesOK' /\ PlaceOK' /\ HistoryOK'
    BY <1>3, Frames DEF CrawlPage, jobVars
  <2>2. TablesOK'
    BY <1>3 DEF CrawlPage, TypeOK, TablesOK, Statuses
  <2>3. WaveOK'
    BY <1>3 DEF CrawlPage, TypeOK, WaveOK, waveVars, Outcomes, NoReplies
  <2> QED
    BY <2>1, <2>2, <2>3 DEF TypeOK
<1>4. CASE CrawlFails
  <2>1. TablesOK' /\ FacesOK' /\ ProjectOK' /\ ServicesOK' /\ PlaceOK'
    BY <1>4, Frames DEF CrawlFails, jobVars
  <2>2. WaveOK'
    BY <1>4 DEF CrawlFails, TypeOK, WaveOK, waveVars, Outcomes, NoReplies, NoFault, Fault
  <2>3. HistoryOK'
    BY <1>4, BoundsAssumption
    DEF CrawlFails, TypeOK, HistoryOK, faultVars, NoFault, Fault, Mishap, Trouble
  <2> QED
    BY <2>1, <2>2, <2>3 DEF TypeOK
<1>5. CASE CrawlEnds
  <2>1. TablesOK' /\ FacesOK' /\ ProjectOK' /\ ServicesOK' /\ HistoryOK'
    BY <1>5, Frames DEF CrawlEnds, jobVars
  <2>2. PlaceOK'
    BY <1>5 DEF CrawlEnds, TypeOK, PlaceOK, Places, UsesImage
  <2>3. WaveOK'
    BY <1>5 DEF CrawlEnds, TypeOK, WaveOK, waveVars, Outcomes, NoReplies
  <2> QED
    BY <2>1, <2>2, <2>3 DEF TypeOK
<1>6. CASE BetweenStages
  <2>1. TablesOK' /\ FacesOK' /\ ProjectOK' /\ ServicesOK'
    BY <1>6, Frames DEF BetweenStages, jobVars
  <2>2. PlaceOK'
    BY <1>6 DEF BetweenStages, TypeOK, PlaceOK, Places, UsesImage, NoFault, StillActive, Fault
  <2>3. WaveOK'
    <3>1. todo' \subseteq Images
      BY <1>6, WorldsAssumption DEF BetweenStages, TypeOK, TablesOK
    <3> QED
      BY <1>6, <3>1 DEF BetweenStages, TypeOK, WaveOK, waveVars
  <2>4. HistoryOK'
    BY <1>6, BoundsAssumption
    DEF BetweenStages, TypeOK, HistoryOK, faultVars, NoFault, StillActive, Fault, Mishap,
        Trouble
  <2> QED
    BY <2>1, <2>2, <2>3, <2>4 DEF TypeOK
<1>7. ASSUME NEW i \in Images, Found(i) PROVE TypeOK'
  <2>1. FacesOK' /\ ProjectOK' /\ ServicesOK' /\ HistoryOK'
    BY <1>7, Frames DEF Found, jobVars
  <2>2. TablesOK'
    BY <1>7 DEF Found, TypeOK, TablesOK, Statuses
  <2>3. PlaceOK'
    BY <1>7 DEF Found, TypeOK, PlaceOK, Places, UsesImage
  <2>4. WaveOK'
    BY <1>7 DEF Found, TypeOK, WaveOK, waveVars, Outcomes, NoReplies
  <2> QED
    BY <2>1, <2>2, <2>3, <2>4 DEF TypeOK
<1>8. CASE Reconcile
  <2>1. TablesOK' /\ ProjectOK' /\ ServicesOK' /\ WaveOK' /\ HistoryOK'
    BY <1>8, Frames DEF Reconcile, jobVars
  <2>2. FacesOK'
    BY <1>8 DEF Reconcile, TypeOK, FacesOK
  <2>3. PlaceOK'
    BY <1>8 DEF Reconcile, TypeOK, PlaceOK, jobVars, waveVars, Places, UsesImage
  <2> QED
    BY <2>1, <2>2, <2>3 DEF TypeOK
<1>9. CASE Adopt
  <2>1. TablesOK' /\ ProjectOK' /\ ServicesOK' /\ WaveOK'
    BY <1>9, Frames DEF Adopt, jobVars
  <2>2. FacesOK'
    <3>1. CASE OneOpenFace
      <4>1. targets' \in [Images -> Nat] /\ rows' \in [Images -> Nat]
        BY <1>9, <3>1, SMT DEF Adopt, TypeOK, FacesOK
      <4>2. queued' = [queued EXCEPT ![image] = TRUE]
        BY <1>9, <3>1 DEF Adopt
      <4>3. queued' \in [Images -> BOOLEAN]
        BY <4>2, Zenon DEF TypeOK, FacesOK
      <4> QED
        BY <4>1, <4>3 DEF FacesOK
    <3>2. CASE ~OneOpenFace
      BY <1>9, <3>2 DEF Adopt, TypeOK, FacesOK
    <3> QED
      BY <3>1, <3>2
  <2>3. PlaceOK'
    BY <1>9
    DEF Adopt, TypeOK, PlaceOK, jobVars, waveVars, Places, UsesImage, NoFault, Repeat, Fault
  <2>4. HistoryOK'
    BY <1>9, BoundsAssumption
    DEF Adopt, TypeOK, HistoryOK, faultVars, NoFault, Repeat, Fault, Mishap, Trouble
  <2> QED
    BY <2>1, <2>2, <2>3, <2>4 DEF TypeOK
<1>10. CASE Adopted
  <2>1. TablesOK' /\ FacesOK' /\ ServicesOK' /\ WaveOK'
    BY <1>10, Frames DEF Adopted, jobVars
  <2>2. ProjectOK'
    BY <1>10 DEF Adopted, TypeOK, ProjectOK, NoFault, Repeat, Fault
  <2>3. PlaceOK'
    BY <1>10
    DEF Adopted, TypeOK, PlaceOK, jobVars, waveVars, Places, UsesImage, NoFault, Repeat,
        Fault
  <2>4. HistoryOK'
    BY <1>10, BoundsAssumption
    DEF Adopted, TypeOK, HistoryOK, faultVars, NoFault, Repeat, Fault, Mishap, Trouble
  <2> QED
    BY <2>1, <2>2, <2>3, <2>4 DEF TypeOK
<1>11. CASE SearchFails
  <2>1. TablesOK' /\ FacesOK' /\ ProjectOK' /\ ServicesOK'
    BY <1>11, Frames DEF SearchFails, jobVars
  <2>2. PlaceOK'
    BY <1>11 DEF SearchFails, TypeOK, PlaceOK, Places, UsesImage, NoFault, Fault
  <2>3. WaveOK'
    BY <1>11 DEF SearchFails, TypeOK, WaveOK, waveVars, Outcomes, NoReplies, NoFault, Fault
  <2>4. HistoryOK'
    BY <1>11, BoundsAssumption
    DEF SearchFails, TypeOK, HistoryOK, faultVars, NoFault, Fault, Mishap, Trouble
  <2> QED
    BY <2>1, <2>2, <2>3, <2>4 DEF TypeOK
<1>12. CASE SearchEnds
  <2>1. TablesOK' /\ FacesOK' /\ ProjectOK' /\ ServicesOK' /\ HistoryOK'
    BY <1>12, Frames DEF SearchEnds, jobVars
  <2>2. PlaceOK'
    BY <1>12 DEF SearchEnds, TypeOK, PlaceOK, Places, UsesImage
  <2>3. WaveOK'
    BY <1>12 DEF SearchEnds, TypeOK, WaveOK, waveVars, Outcomes, NoReplies
  <2> QED
    BY <2>1, <2>2, <2>3 DEF TypeOK
<1>13. CASE Count
  <2>1. TablesOK' /\ FacesOK' /\ ProjectOK' /\ ServicesOK'
    BY <1>13, Frames DEF Count, jobVars
  <2>2. PlaceOK'
    BY <1>13 DEF Count, TypeOK, PlaceOK, Places, UsesImage, NoFault, Fault
  <2>3. WaveOK'
    <3>1. before' \in Nat
      BY <1>13, Counts DEF Count, TypeOK, WaveOK
    <3> QED
      BY <1>13, <3>1 DEF Count, TypeOK, WaveOK, waveVars
  <2>4. HistoryOK'
    BY <1>13, BoundsAssumption
    DEF Count, TypeOK, HistoryOK, faultVars, NoFault, Fault, Mishap, Trouble
  <2> QED
    BY <2>1, <2>2, <2>3, <2>4 DEF TypeOK
<1>14. CASE Pick
  <2>1. TablesOK' /\ FacesOK' /\ ProjectOK' /\ ServicesOK' /\ HistoryOK'
    BY <1>14, Frames DEF Pick, jobVars
  <2>2. PlaceOK'
    BY <1>14 DEF Pick, TypeOK, PlaceOK, Places, UsesImage
  <2>3. WaveOK'
    <3>1. batch' \subseteq Images
      BY <1>14 DEF Pick, NewBatch, Limit, Pending, Flagged, Known
    <3> QED
      BY <1>14, <3>1 DEF Pick, TypeOK, WaveOK, waveVars
  <2> QED
    BY <2>1, <2>2, <2>3 DEF TypeOK
<1>15. CASE Skip
  <2>1. FacesOK' /\ ProjectOK' /\ ServicesOK' /\ WaveOK' /\ HistoryOK'
    BY <1>15, Frames DEF Skip, jobVars
  <2>2. TablesOK'
    BY <1>15 DEF Skip, TypeOK, TablesOK, Statuses
  <2>3. PlaceOK'
    BY <1>15 DEF Skip, TypeOK, PlaceOK, jobVars, waveVars, Places, UsesImage
  <2> QED
    BY <2>1, <2>2, <2>3 DEF TypeOK
<1>16. CASE StartWave
  <2>1. TablesOK' /\ FacesOK' /\ ProjectOK' /\ ServicesOK' /\ HistoryOK'
    BY <1>16, Frames DEF StartWave, jobVars
  <2>2. PlaceOK'
    BY <1>16 DEF StartWave, TypeOK, PlaceOK, Places, UsesImage
  <2>3. WaveOK'
    BY <1>16 DEF StartWave, NextWave, TypeOK, WaveOK
  <2> QED
    BY <2>1, <2>2, <2>3 DEF TypeOK
<1>17. CASE Recount
  <2>1. TablesOK' /\ FacesOK' /\ ServicesOK' /\ WaveOK' /\ HistoryOK'
    BY <1>17, Frames DEF Recount, jobVars
  <2>2. ProjectOK'
    BY <1>17, Counts DEF Recount, TypeOK, ProjectOK
  <2>3. PlaceOK'
    BY <1>17 DEF Recount, TypeOK, PlaceOK, jobVars, waveVars, Places, UsesImage
  <2> QED
    BY <2>1, <2>2, <2>3 DEF TypeOK
<1>18. CASE After
  <2>1. TablesOK' /\ FacesOK' /\ ProjectOK' /\ ServicesOK'
    BY <1>18, Frames DEF After, jobVars
  <2>2. PlaceOK'
    BY <1>18 DEF After, TypeOK, PlaceOK, Places, UsesImage, NoFault, Fault
  <2>3. WaveOK'
    BY <1>18 DEF After, TypeOK, WaveOK, waveVars, Outcomes, NoReplies, NoFault, Fault
  <2>4. HistoryOK'
    BY <1>18, BoundsAssumption
    DEF After, TypeOK, HistoryOK, faultVars, NoFault, Fault, Mishap, Trouble
  <2> QED
    BY <2>1, <2>2, <2>3, <2>4 DEF TypeOK
<1>19. CASE BetweenBatches
  <2>1. TablesOK' /\ FacesOK' /\ ProjectOK' /\ ServicesOK' /\ WaveOK'
    BY <1>19, Frames DEF BetweenBatches, jobVars
  <2>2. PlaceOK'
    BY <1>19
    DEF BetweenBatches, TypeOK, PlaceOK, jobVars, waveVars, Places, UsesImage, StillActive,
        NoFault, Fault
  <2>3. HistoryOK'
    BY <1>19, BoundsAssumption
    DEF BetweenBatches, TypeOK, HistoryOK, faultVars, StillActive, NoFault, Fault, Mishap,
        Trouble
  <2> QED
    BY <2>1, <2>2, <2>3 DEF TypeOK
<1>20. ASSUME NEW i \in Images, Download(i) PROVE TypeOK'
  <2>1. FacesOK' /\ ProjectOK' /\ ServicesOK' /\ PlaceOK'
    BY <1>20, Frames DEF Download, jobVars
  <2>2. TablesOK'
    BY <1>20 DEF Download, TypeOK, TablesOK, Statuses, NoFault, Fault
  <2>3. WaveOK'
    BY <1>20 DEF Download, TypeOK, WaveOK, Outcomes, NoReplies, NoFault, Fault
  <2>4. HistoryOK'
    BY <1>20, BoundsAssumption
    DEF Download, TypeOK, HistoryOK, faultVars, NoFault, Fault, Mishap, Trouble
  <2> QED
    BY <2>1, <2>2, <2>3, <2>4 DEF TypeOK
<1>21. CASE Downloaded
  <2>1. TablesOK' /\ FacesOK' /\ ProjectOK' /\ ServicesOK' /\ HistoryOK'
    BY <1>21, Frames DEF Downloaded, jobVars
  <2>2. PlaceOK'
    BY <1>21 DEF Downloaded, TypeOK, PlaceOK, Places, UsesImage
  <2>3. WaveOK'
    BY <1>21 DEF Downloaded, TypeOK, WaveOK, Outcomes, NoReplies
  <2> QED
    BY <2>1, <2>2, <2>3 DEF TypeOK
<1>22. CASE Proof
  <2>1. TablesOK' /\ FacesOK' /\ ProjectOK'
    BY <1>22, Frames DEF Proof, jobVars
  <2>2. ServicesOK'
    BY <1>22 DEF Proof, TypeOK, ServicesOK, serviceVars
  <2>3. PlaceOK'
    BY <1>22 DEF Proof, TypeOK, PlaceOK, Places, UsesImage
  <2>4. WaveOK'
    BY <1>22 DEF Proof, TypeOK, WaveOK, Outcomes, NoReplies
  <2>5. HistoryOK'
    BY <1>22, BoundsAssumption DEF Proof, TypeOK, HistoryOK, faultVars
  <2> QED
    BY <2>1, <2>2, <2>3, <2>4, <2>5 DEF TypeOK
<1>23. ASSUME NEW i \in Images, Strike(i) PROVE TypeOK'
  <2>1. FacesOK' /\ ProjectOK' /\ ServicesOK'
    BY <1>23, Frames DEF Strike, jobVars
  <2>2. TablesOK'
    BY <1>23 DEF Strike, TypeOK, TablesOK, Statuses, NoFault, Fault, Repeat
  <2>3. PlaceOK'
    BY <1>23 DEF Strike, TypeOK, PlaceOK, Places, UsesImage, NoFault, Fault, Repeat
  <2>4. WaveOK'
    BY <1>23 DEF Strike, TypeOK, WaveOK, waveVars, Outcomes, NoReplies, NoFault, Fault, Repeat
  <2>5. HistoryOK'
    BY <1>23, BoundsAssumption
    DEF Strike, TypeOK, HistoryOK, faultVars, NoFault, Fault, Repeat, Mishap, Trouble
  <2> QED
    BY <2>1, <2>2, <2>3, <2>4, <2>5 DEF TypeOK
<1>24. CASE Judge
  <2>1. FacesOK' /\ ProjectOK' /\ ServicesOK' /\ WaveOK'
    BY <1>24, Frames DEF Judge, jobVars
  <2>2. TablesOK'
    BY <1>24 DEF Judge, TypeOK, TablesOK, Statuses, NoFault, Fault
  <2>3. PlaceOK'
    BY <1>24 DEF Judge, TypeOK, PlaceOK, Places, UsesImage, NoFault, Fault
  <2>4. HistoryOK'
    BY <1>24, BoundsAssumption
    DEF Judge, TypeOK, HistoryOK, faultVars, NoFault, Fault, Mishap, Trouble
  <2> QED
    BY <2>1, <2>2, <2>3, <2>4 DEF TypeOK
<1>25. CASE Struck
  <2>1. TablesOK' /\ FacesOK' /\ ProjectOK' /\ ServicesOK' /\ HistoryOK'
    BY <1>25, Frames DEF Struck, jobVars
  <2>2. PlaceOK'
    BY <1>25 DEF Struck, TypeOK, PlaceOK, Places, UsesImage
  <2>3. WaveOK'
    BY <1>25 DEF Struck, TypeOK, WaveOK, Outcomes, NoReplies
  <2> QED
    BY <2>1, <2>2, <2>3 DEF TypeOK
<1>26. ASSUME NEW request \in SUBSET got, Send(request) PROVE TypeOK'
  <2>1. TablesOK' /\ FacesOK' /\ ProjectOK' /\ PlaceOK' /\ HistoryOK'
    BY <1>26, Frames DEF Send, jobVars
  <2>2. ServicesOK'
    BY <1>26 DEF Send, TypeOK, ServicesOK, processVars, Noted, Replies, ServiceAfter
  <2>3. WaveOK'
    <3>1. out' \in [Images -> Outcomes]
      BY <1>26, NotedType DEF Send, TypeOK, WaveOK
    <3> QED
      BY <1>26, <3>1 DEF Send, TypeOK, WaveOK
  <2> QED
    BY <2>1, <2>2, <2>3 DEF TypeOK
<1>27. CASE Sent
  <2>1. TablesOK' /\ FacesOK' /\ ProjectOK' /\ ServicesOK' /\ HistoryOK'
    BY <1>27, Frames DEF Sent, jobVars
  <2>2. PlaceOK'
    BY <1>27 DEF Sent, TypeOK, PlaceOK, Places, UsesImage
  <2>3. WaveOK'
    BY <1>27 DEF Sent, TypeOK, WaveOK, Outcomes, NoReplies
  <2> QED
    BY <2>1, <2>2, <2>3 DEF TypeOK
<1>28. ASSUME NEW i \in Images, TryAlone(i) PROVE TypeOK'
  <2>1. TablesOK' /\ FacesOK' /\ ProjectOK' /\ ServicesOK' /\ WaveOK' /\ HistoryOK'
    BY <1>28, Frames DEF TryAlone, jobVars
  <2>2. PlaceOK'
    BY <1>28 DEF TryAlone, TypeOK, PlaceOK, Places, UsesImage
  <2> QED
    BY <2>1, <2>2 DEF TypeOK
<1>29. CASE TryAgain
  <2>1. TablesOK' /\ FacesOK' /\ ProjectOK' /\ ServicesOK' /\ WaveOK' /\ HistoryOK'
    BY <1>29, Frames DEF TryAgain, jobVars
  <2>2. PlaceOK'
    BY <1>29 DEF TryAgain, TypeOK, PlaceOK, jobVars, waveVars, Places, UsesImage
  <2> QED
    BY <2>1, <2>2 DEF TypeOK
<1>30. CASE GiveUp
  <2>1. TablesOK' /\ FacesOK' /\ ProjectOK'
    BY <1>30, Frames DEF GiveUp, jobVars
  <2>2. ServicesOK'
    BY <1>30 DEF GiveUp, TypeOK, ServicesOK, serviceVars
  <2>3. PlaceOK'
    BY <1>30 DEF GiveUp, TypeOK, PlaceOK, Places, UsesImage
  <2>4. WaveOK'
    BY <1>30 DEF GiveUp, TypeOK, WaveOK, Outcomes, NoReplies
  <2>5. HistoryOK'
    BY <1>30, BoundsAssumption DEF GiveUp, TypeOK, HistoryOK, faultVars
  <2> QED
    BY <2>1, <2>2, <2>3, <2>4, <2>5 DEF TypeOK
<1>31. CASE Solo
  <2>1. TablesOK' /\ FacesOK' /\ ProjectOK' /\ HistoryOK'
    BY <1>31, Frames DEF Solo, jobVars
  <2>2. ServicesOK'
    BY <1>31 DEF Solo, TypeOK, ServicesOK, processVars, Noted, Replies, ServiceAfter
  <2>3. PlaceOK'
    BY <1>31 DEF Solo, TypeOK, PlaceOK, Places, UsesImage, Noted, Replies, ServiceAfter
  <2>4. WaveOK'
    <3>1. out' \in [Images -> Outcomes]
      BY <1>31, NotedType DEF Solo, TypeOK, PlaceOK, UsesImage
    <3>2. alone' \subseteq Images /\ blamed' \subseteq Images
      BY <1>31 DEF Solo, TypeOK, WaveOK, PlaceOK, UsesImage
    <3> QED
      BY <1>31, <3>1, <3>2 DEF Solo, TypeOK, WaveOK
  <2> QED
    BY <2>1, <2>2, <2>3, <2>4 DEF TypeOK
<1>32. CASE Isolated
  <2>1. TablesOK' /\ FacesOK' /\ ProjectOK' /\ ServicesOK' /\ WaveOK' /\ HistoryOK'
    BY <1>32, Frames DEF Isolated, jobVars
  <2>2. PlaceOK'
    BY <1>32 DEF Isolated, TypeOK, PlaceOK, jobVars, waveVars, Places, UsesImage
  <2> QED
    BY <2>1, <2>2 DEF TypeOK
<1>33. ASSUME NEW i \in Images, Result(i) PROVE TypeOK'
  <2>1. FacesOK' /\ ProjectOK' /\ ServicesOK' /\ HistoryOK'
    BY <1>33, Frames DEF Result, jobVars
  <2>2. TablesOK'
    BY <1>33 DEF Result, TypeOK, TablesOK, Statuses
  <2>3. PlaceOK'
    BY <1>33 DEF Result, TypeOK, PlaceOK, Places, UsesImage
  <2>4. WaveOK'
    BY <1>33 DEF Result, TypeOK, WaveOK, Outcomes, NoReplies
  <2> QED
    BY <2>1, <2>2, <2>3, <2>4 DEF TypeOK
<1>34. CASE Insert
  <2>1. TablesOK' /\ ProjectOK' /\ ServicesOK' /\ WaveOK'
    BY <1>34, Frames DEF Insert, jobVars
  <2>2. FacesOK'
    <3>1. FacesIn[image] \in Nat /\ rows[image] \in Nat
      BY <1>34, SizesAssumption DEF Insert, TypeOK, FacesOK, PlaceOK, UsesImage
    <3>2. rows' \in [Images -> Nat]
      BY <1>34, <3>1 DEF Insert, TypeOK, FacesOK, NoFault
    <3> QED
      BY <1>34, <3>2 DEF Insert, TypeOK, FacesOK
  <2>3. PlaceOK'
    BY <1>34
    DEF Insert, TypeOK, PlaceOK, jobVars, waveVars, Places, UsesImage, NoFault, Fault,
        Repeat
  <2>4. HistoryOK'
    BY <1>34, BoundsAssumption
    DEF Insert, TypeOK, HistoryOK, faultVars, NoFault, Fault, Repeat, Mishap, Trouble
  <2> QED
    BY <2>1, <2>2, <2>3, <2>4 DEF TypeOK
<1>35. CASE Finish
  <2>1. FacesOK' /\ ProjectOK' /\ ServicesOK'
    BY <1>35, Frames DEF Finish, jobVars
  <2>2. TablesOK'
    BY <1>35 DEF Finish, TypeOK, TablesOK, Statuses, NoFault, Stored, StoreFails, Fault
  <2>3. PlaceOK'
    BY <1>35 DEF Finish, TypeOK, PlaceOK, Places, UsesImage, NoFault, Stored, StoreFails, Fault
  <2>4. WaveOK'
    BY <1>35
    DEF Finish, TypeOK, WaveOK, Outcomes, NoReplies, NoFault, Stored, StoreFails, Fault
  <2>5. HistoryOK'
    BY <1>35, BoundsAssumption
    DEF Finish, TypeOK, HistoryOK, faultVars, NoFault, Stored, StoreFails, Fault, Mishap,
        Trouble
  <2> QED
    BY <2>1, <2>2, <2>3, <2>4, <2>5 DEF TypeOK
<1>36. CASE Classify
  <2>1. TablesOK' /\ ProjectOK' /\ ServicesOK'
    BY <1>36, Frames DEF Classify, jobVars
  <2>2. FacesOK'
    BY <1>36 DEF Classify, TypeOK, FacesOK, NoFault, Repeat, Stored, StoreFails, Fault
  <2>3. PlaceOK'
    BY <1>36
    DEF Classify, TypeOK, PlaceOK, Places, UsesImage, NoFault, Repeat, Stored, StoreFails,
        Fault
  <2>4. WaveOK'
    BY <1>36
    DEF Classify, TypeOK, WaveOK, Outcomes, NoReplies, NoFault, Repeat, Stored, StoreFails,
        Fault
  <2>5. HistoryOK'
    BY <1>36, BoundsAssumption
    DEF Classify, TypeOK, HistoryOK, faultVars, NoFault, Repeat, Stored, StoreFails, Fault,
        Mishap, Trouble
  <2> QED
    BY <2>1, <2>2, <2>3, <2>4, <2>5 DEF TypeOK
<1>37. CASE Confirm
  <2>1. TablesOK' /\ FacesOK' /\ ServicesOK' /\ WaveOK'
    BY <1>37, Frames DEF Confirm, jobVars
  <2>2. ProjectOK'
    <3>1. targets[image] \in Nat
      BY <1>37 DEF Confirm, TypeOK, FacesOK, PlaceOK, UsesImage
    <3> QED
      BY <1>37, <3>1 DEF Confirm, TypeOK, ProjectOK
  <2>3. PlaceOK'
    BY <1>37
    DEF Confirm, TypeOK, PlaceOK, jobVars, waveVars, Places, UsesImage, NoFault, Repeat,
        StoreFails, Fault
  <2>4. HistoryOK'
    BY <1>37, BoundsAssumption
    DEF Confirm, TypeOK, HistoryOK, faultVars, NoFault, Repeat, StoreFails, Fault, Mishap,
        Trouble
  <2> QED
    BY <2>1, <2>2, <2>3, <2>4 DEF TypeOK
<1>38. CASE Mark
  <2>1. TablesOK' /\ ProjectOK' /\ ServicesOK'
    BY <1>38, Frames DEF Mark, jobVars
  <2>2. FacesOK'
    BY <1>38 DEF Mark, TypeOK, FacesOK, NoFault, Stored, StoreFails, Fault
  <2>3. PlaceOK'
    BY <1>38 DEF Mark, TypeOK, PlaceOK, Places, UsesImage, NoFault, Stored, StoreFails, Fault
  <2>4. WaveOK'
    BY <1>38 DEF Mark, TypeOK, WaveOK, Outcomes, NoReplies, NoFault, Stored, StoreFails, Fault
  <2>5. HistoryOK'
    BY <1>38, BoundsAssumption
    DEF Mark, TypeOK, HistoryOK, faultVars, NoFault, Stored, StoreFails, Fault, Mishap,
        Trouble
  <2> QED
    BY <2>1, <2>2, <2>3, <2>4, <2>5 DEF TypeOK
<1>39. CASE StoreError
  <2>1. FacesOK' /\ ProjectOK' /\ ServicesOK' /\ HistoryOK'
    BY <1>39, Frames DEF StoreError, jobVars
  <2>2. TablesOK'
    BY <1>39 DEF StoreError, TypeOK, TablesOK, Statuses
  <2>3. PlaceOK'
    BY <1>39 DEF StoreError, TypeOK, PlaceOK, Places, UsesImage
  <2>4. WaveOK'
    BY <1>39 DEF StoreError, TypeOK, WaveOK, Outcomes, NoReplies
  <2> QED
    BY <2>1, <2>2, <2>3, <2>4 DEF TypeOK
<1>40. CASE Recorded
  <2>1. TablesOK' /\ FacesOK' /\ ProjectOK' /\ ServicesOK' /\ HistoryOK'
    BY <1>40, Frames DEF Recorded, jobVars
  <2>2. PlaceOK'
    BY <1>40 DEF Recorded, TypeOK, PlaceOK, Places, UsesImage
  <2>3. WaveOK'
    BY <1>40 DEF Recorded, TypeOK, WaveOK, Outcomes, NoReplies
  <2> QED
    BY <2>1, <2>2, <2>3 DEF TypeOK
<1>41. CASE Flag
  <2>1. FacesOK' /\ ProjectOK' /\ ServicesOK'
    BY <1>41, Frames DEF Flag, jobVars
  <2>2. TablesOK'
    BY <1>41 DEF Flag, TypeOK, TablesOK, Statuses, NoFault, Fault
  <2>3. PlaceOK'
    BY <1>41 DEF Flag, TypeOK, PlaceOK, Places, UsesImage, NoFault, Fault
  <2>4. WaveOK'
    BY <1>41 DEF Flag, TypeOK, WaveOK, Outcomes, NoReplies, NoFault, Fault
  <2>5. HistoryOK'
    BY <1>41, BoundsAssumption
    DEF Flag, TypeOK, HistoryOK, faultVars, NoFault, Fault, Mishap, Trouble
  <2> QED
    BY <2>1, <2>2, <2>3, <2>4, <2>5 DEF TypeOK
<1>42. CASE Filter
  <2>1. TablesOK' /\ FacesOK' /\ ProjectOK' /\ ServicesOK' /\ WaveOK'
    BY <1>42, Frames DEF Filter, jobVars
  <2>2. PlaceOK'
    BY <1>42
    DEF Filter, TypeOK, PlaceOK, jobVars, waveVars, Places, UsesImage, NoFault, StillActive,
        Fault
  <2>3. HistoryOK'
    BY <1>42, BoundsAssumption
    DEF Filter, TypeOK, HistoryOK, faultVars, NoFault, StillActive, Fault, Mishap, Trouble
  <2> QED
    BY <2>1, <2>2, <2>3 DEF TypeOK
<1>43. CASE Verdict
  <2>1. TablesOK' /\ FacesOK' /\ ProjectOK' /\ ServicesOK' /\ WaveOK' /\ HistoryOK'
    BY <1>43, Frames DEF Verdict, jobVars
  <2>2. PlaceOK'
    BY <1>43 DEF Verdict, TypeOK, PlaceOK, jobVars, waveVars, Places, UsesImage
  <2> QED
    BY <2>1, <2>2 DEF TypeOK
<1>44. CASE Complete
  <2>1. TablesOK' /\ FacesOK' /\ ServicesOK' /\ WaveOK' /\ HistoryOK'
    BY <1>44, Frames DEF Complete, jobVars
  <2>2. ProjectOK'
    BY <1>44 DEF Complete, TypeOK, ProjectOK
  <2>3. PlaceOK'
    BY <1>44 DEF Complete, TypeOK, PlaceOK, jobVars, waveVars, Places, UsesImage
  <2> QED
    BY <2>1, <2>2, <2>3 DEF TypeOK
<1>45. CASE Raises
  <2>1. TablesOK' /\ FacesOK' /\ ProjectOK' /\ ServicesOK'
    BY <1>45, Frames DEF Raises, jobVars
  <2>2. PlaceOK'
    BY <1>45 DEF Raises, TypeOK, PlaceOK, Places, UsesImage, Fault, EndJob
  <2>3. WaveOK'
    BY <1>45 DEF Raises, TypeOK, WaveOK, Outcomes, NoReplies, Fault, EndJob
  <2>4. HistoryOK'
    BY <1>45, BoundsAssumption
    DEF Raises, TypeOK, HistoryOK, faultVars, Fault, EndJob, Mishap, Trouble
  <2> QED
    BY <2>1, <2>2, <2>3, <2>4 DEF TypeOK
<1>46. CASE Restart
  <2>1. TablesOK' /\ FacesOK' /\ ProjectOK' /\ PlaceOK' /\ WaveOK' /\ HistoryOK'
    BY <1>46, Frames DEF Restart, jobVars
  <2>2. ServicesOK'
    BY <1>46 DEF Restart, TypeOK, ServicesOK, serviceVars, NewProcess
  <2> QED
    BY <2>1, <2>2 DEF TypeOK
<1>47. CASE Stop
  <2>1. TablesOK' /\ FacesOK' /\ ProjectOK' /\ PlaceOK' /\ WaveOK'
    BY <1>47, Frames DEF Stop, jobVars
  <2>2. ServicesOK'
    BY <1>47 DEF Stop, TypeOK, ServicesOK, serviceVars, Mishap
  <2>3. HistoryOK'
    BY <1>47, BoundsAssumption DEF Stop, TypeOK, HistoryOK, faultVars, Mishap, Trouble
  <2> QED
    BY <2>1, <2>2, <2>3 DEF TypeOK
<1>48. CASE Crash
  <2>1. TablesOK' /\ FacesOK' /\ ProjectOK'
    BY <1>48, Frames DEF Crash, jobVars
  <2>2. ServicesOK'
    BY <1>48 DEF Crash, TypeOK, ServicesOK, serviceVars, Mishap, EndJob, NewProcess
  <2>3. PlaceOK'
    BY <1>48 DEF Crash, TypeOK, PlaceOK, Places, UsesImage, Mishap, EndJob, NewProcess
  <2>4. WaveOK'
    BY <1>48 DEF Crash, TypeOK, WaveOK, Outcomes, NoReplies, Mishap, EndJob, NewProcess
  <2>5. HistoryOK'
    BY <1>48, BoundsAssumption
    DEF Crash, TypeOK, HistoryOK, faultVars, Mishap, EndJob, NewProcess, Trouble
  <2> QED
    BY <2>1, <2>2, <2>3, <2>4, <2>5 DEF TypeOK
<1>49. ASSUME NEW s \in {"active", "paused", "completed"}, SaveSettings(s) PROVE TypeOK'
  <2>1. TablesOK' /\ FacesOK' /\ ServicesOK' /\ PlaceOK' /\ WaveOK'
    BY <1>49, Frames DEF SaveSettings, jobVars
  <2>2. ProjectOK'
    BY <1>49 DEF SaveSettings, TypeOK, ProjectOK, Mishap
  <2>3. HistoryOK'
    BY <1>49, BoundsAssumption DEF SaveSettings, TypeOK, HistoryOK, faultVars, Mishap, Trouble
  <2> QED
    BY <2>1, <2>2, <2>3 DEF TypeOK
<1>50. CASE ServiceBreaks
  <2>1. TablesOK' /\ FacesOK' /\ ProjectOK' /\ PlaceOK' /\ WaveOK'
    BY <1>50, Frames DEF ServiceBreaks, jobVars
  <2>2. ServicesOK'
    BY <1>50 DEF ServiceBreaks, TypeOK, ServicesOK, processVars, Trouble
  <2>3. HistoryOK'
    <3>1. outages' \in 0..MaxTroubles
      <4>1. /\ outages \in Nat /\ commonsOutages \in Nat /\ faults \in Nat
            /\ stops \in Nat /\ edits \in Nat
        BY BoundsAssumption DEF TypeOK, HistoryOK
      <4>2. outages + commonsOutages + faults + stops + edits < MaxTroubles
        BY <1>50 DEF ServiceBreaks, Trouble
      <4>3. outages < MaxTroubles
        BY <4>1, <4>2, BoundsAssumption
      <4>4. outages' = outages + 1
        BY <1>50, Zenon DEF ServiceBreaks
      <4> QED
        BY <4>1, <4>3, <4>4, BoundsAssumption
    <3> QED
      BY <1>50, <3>1 DEF ServiceBreaks, TypeOK, HistoryOK, faultVars
  <2> QED
    BY <2>1, <2>2, <2>3 DEF TypeOK
<1>51. CASE ServiceRecovers
  <2>1. TablesOK' /\ FacesOK' /\ ProjectOK' /\ PlaceOK' /\ WaveOK' /\ HistoryOK'
    BY <1>51, Frames DEF ServiceRecovers, jobVars
  <2>2. ServicesOK'
    BY <1>51 DEF ServiceRecovers, TypeOK, ServicesOK, processVars
  <2> QED
    BY <2>1, <2>2 DEF TypeOK
<1>52. CASE CommonsBreaks
  <2>1. TablesOK' /\ FacesOK' /\ ProjectOK' /\ PlaceOK' /\ WaveOK'
    BY <1>52, Frames DEF CommonsBreaks, jobVars
  <2>2. ServicesOK'
    BY <1>52 DEF CommonsBreaks, TypeOK, ServicesOK, processVars, Trouble
  <2>3. HistoryOK'
    BY <1>52, BoundsAssumption DEF CommonsBreaks, TypeOK, HistoryOK, faultVars, Trouble
  <2> QED
    BY <2>1, <2>2, <2>3 DEF TypeOK
<1>53. CASE CommonsRecovers
  <2>1. TablesOK' /\ FacesOK' /\ ProjectOK' /\ PlaceOK' /\ WaveOK' /\ HistoryOK'
    BY <1>53, Frames DEF CommonsRecovers, jobVars
  <2>2. ServicesOK'
    BY <1>53 DEF CommonsRecovers, TypeOK, ServicesOK, processVars
  <2> QED
    BY <2>1, <2>2 DEF TypeOK
<1>54. CASE ForgetOutage
  <2>1. TablesOK' /\ FacesOK' /\ ProjectOK' /\ PlaceOK' /\ WaveOK' /\ HistoryOK'
    BY <1>54, Frames DEF ForgetOutage, jobVars
  <2>2. ServicesOK'
    BY <1>54 DEF ForgetOutage, TypeOK, ServicesOK, serviceVars
  <2> QED
    BY <2>1, <2>2 DEF TypeOK
<1>55. CASE ForgetCanary
  <2>1. TablesOK' /\ FacesOK' /\ ProjectOK' /\ PlaceOK' /\ WaveOK' /\ HistoryOK'
    BY <1>55, Frames DEF ForgetCanary, jobVars
  <2>2. ServicesOK'
    BY <1>55 DEF ForgetCanary, TypeOK, ServicesOK, serviceVars
  <2> QED
    BY <2>1, <2>2 DEF TypeOK
<1> QED
    BY <1>1, <1>2, <1>3, <1>4, <1>5, <1>6, <1>7, <1>8, <1>9, <1>10, <1>11, <1>12, <1>13,
       <1>14, <1>15, <1>16, <1>17, <1>18, <1>19, <1>20, <1>21, <1>22, <1>23, <1>24, <1>25,
       <1>26, <1>27, <1>28, <1>29, <1>30, <1>31, <1>32, <1>33, <1>34, <1>35, <1>36, <1>37,
       <1>38, <1>39, <1>40, <1>41, <1>42, <1>43, <1>44, <1>45, <1>46, <1>47, <1>48, <1>49,
       <1>50, <1>51, <1>52, <1>53, <1>54, <1>55
    DEF Next, Work

\* Every variable keeps its type: the tables, the local variables of the
\* pipeline wherever it is, and the counters within their bounds.
THEOREM TypeCorrect == Spec => []TypeOK
<1>1. ASSUME Init PROVE TypeOK
  <2>1. TablesOK /\ FacesOK
    BY <1>1 DEF Init, TablesOK, FacesOK, Statuses
  <2>2. ProjectOK /\ ServicesOK /\ PlaceOK
    BY <1>1 DEF Init, ProjectOK, ServicesOK, PlaceOK, Places, UsesImage
  <2>3. WaveOK
    BY <1>1 DEF Init, WaveOK, Outcomes, NoReplies
  <2>4. HistoryOK
    <3>1. 0 \in 0..MaxTroubles /\ 0 \in 0..MaxTimeouts /\ 0 \in 0..MaxMishaps
      BY BoundsAssumption
    <3>2. /\ outages = 0 /\ commonsOutages = 0 /\ timeouts = 0 /\ faults = 0
          /\ stops = 0 /\ edits = 0 /\ repeats = 0 /\ cuts = 0 /\ lateProof = FALSE
      BY <1>1, Zenon DEF Init
    <3> QED
      BY <3>1, <3>2 DEF HistoryOK
  <2> QED
    BY <2>1, <2>2, <2>3, <2>4 DEF TypeOK
<1>2. ASSUME TypeOK, UNCHANGED vars PROVE TypeOK'
  BY <1>2, Frames DEF vars, jobVars, TypeOK
<1>3. TypeOK /\ [Next]_vars => TypeOK'
  BY <1>2, StepType
<1> QED
  BY <1>1, <1>3, PTL DEF Spec

\* An image of nobody's fault has been written off by strikes, or by a failure
\* to store its faces; answers that refuse an image come for that image, and
\* the error path of _persist_detection is taken on a fault.
Earned ==
    /\ ErrorsAreEarned
    /\ \A i \in Images : out[i] = "refused" => Kind(i) = "refused"
    /\ at = "storeError" => faults > 0

\* What leaves the images, their strikes and the answers alone keeps it.
LEMMA EarnedFrame ==
    ASSUME TypeOK, Earned, UNCHANGED <<world, attempts>>,
           \A i \in Images : status'[i] = "error" => status[i] = "error",
           \A i \in Images : out'[i] = "refused" => out[i] = "refused",
           faults' \in {faults, faults + 1}, at' = "storeError" => faults' > 0
    PROVE  Earned'
  BY DEF Earned, ErrorsAreEarned, Innocent, Kind, TypeOK, HistoryOK

\* Every action leaves errors earned.
LEMMA StepEarned ==
    ASSUME TypeOK, Earned, Next
    PROVE  Earned'
<1>1. CASE Claim
  BY <1>1, EarnedFrame, BoundsAssumption
  DEF Claim, tableVars, history, faultVars, jobVars, waveVars, Earned, TypeOK, HistoryOK
<1>2. CASE Begin
  BY <1>2, EarnedFrame, BoundsAssumption
  DEF Begin, StillActive, NoFault, Fault, faultVars, tableVars, waveVars, Earned, TypeOK,
      HistoryOK
<1>3. CASE CrawlPage
  BY <1>3, BoundsAssumption
  DEF CrawlPage, Earned, ErrorsAreEarned, Innocent, Kind, TypeOK, TablesOK, HistoryOK,
      history, faultVars, waveVars
<1>4. CASE CrawlFails
  BY <1>4, EarnedFrame, BoundsAssumption
  DEF CrawlFails, NoFault, Fault, faultVars, tableVars, waveVars, Earned, TypeOK, HistoryOK
<1>5. CASE CrawlEnds
  BY <1>5, EarnedFrame, BoundsAssumption
  DEF CrawlEnds, tableVars, history, faultVars, waveVars, Earned, TypeOK, HistoryOK
<1>6. CASE BetweenStages
  BY <1>6, EarnedFrame, BoundsAssumption
  DEF BetweenStages, NoFault, StillActive, Fault, faultVars, tableVars, waveVars, Earned,
      TypeOK, HistoryOK
<1>7. ASSUME NEW i \in Images, Found(i) PROVE Earned'
  BY <1>7, BoundsAssumption
  DEF Found, Earned, ErrorsAreEarned, Innocent, Kind, TypeOK, TablesOK, HistoryOK, history,
      faultVars, waveVars
<1>8. CASE Reconcile
  BY <1>8, EarnedFrame, BoundsAssumption
  DEF Reconcile, tableVars, history, faultVars, jobVars, waveVars, Earned, TypeOK, HistoryOK
<1>9. CASE Adopt
  BY <1>9, EarnedFrame, BoundsAssumption
  DEF Adopt, NoFault, Repeat, Fault, faultVars, tableVars, jobVars, waveVars, Earned, TypeOK,
      HistoryOK
<1>10. CASE Adopted
  BY <1>10, EarnedFrame, BoundsAssumption
  DEF Adopted, NoFault, Repeat, Fault, faultVars, tableVars, jobVars, waveVars, Earned,
      TypeOK, HistoryOK
<1>11. CASE SearchFails
  BY <1>11, EarnedFrame, BoundsAssumption
  DEF SearchFails, NoFault, Fault, faultVars, tableVars, waveVars, Earned, TypeOK, HistoryOK
<1>12. CASE SearchEnds
  BY <1>12, EarnedFrame, BoundsAssumption
  DEF SearchEnds, tableVars, history, faultVars, waveVars, Earned, TypeOK, HistoryOK
<1>13. CASE Count
  BY <1>13, EarnedFrame, BoundsAssumption
  DEF Count, NoFault, Fault, faultVars, tableVars, waveVars, Earned, TypeOK, HistoryOK
<1>14. CASE Pick
  BY <1>14, EarnedFrame, BoundsAssumption
  DEF Pick, tableVars, history, faultVars, waveVars, Earned, TypeOK, HistoryOK
<1>15. CASE Skip
  BY <1>15, BoundsAssumption
  DEF Skip, Earned, ErrorsAreEarned, Innocent, Kind, TypeOK, TablesOK, HistoryOK, history,
      faultVars, jobVars, waveVars
<1>16. CASE StartWave
  BY <1>16, EarnedFrame, BoundsAssumption
  DEF StartWave, tableVars, history, faultVars, Earned, TypeOK, HistoryOK
<1>17. CASE Recount
  BY <1>17, EarnedFrame, BoundsAssumption
  DEF Recount, tableVars, history, faultVars, jobVars, waveVars, Earned, TypeOK, HistoryOK
<1>18. CASE After
  BY <1>18, EarnedFrame, BoundsAssumption
  DEF After, NoFault, Fault, faultVars, tableVars, waveVars, Earned, TypeOK, HistoryOK
<1>19. CASE BetweenBatches
  BY <1>19, EarnedFrame, BoundsAssumption
  DEF BetweenBatches, StillActive, NoFault, Fault, faultVars, tableVars, jobVars, waveVars,
      Earned, TypeOK, HistoryOK
<1>20. ASSUME NEW i \in Images, Download(i) PROVE Earned'
  BY <1>20, BoundsAssumption
  DEF Download, Earned, ErrorsAreEarned, Innocent, Kind, TypeOK, TablesOK, HistoryOK,
      NoFault, Fault, faultVars
<1>21. CASE Downloaded
  BY <1>21, EarnedFrame, BoundsAssumption
  DEF Downloaded, tableVars, history, faultVars, Earned, TypeOK, HistoryOK
<1>22. CASE Proof
  BY <1>22, EarnedFrame, BoundsAssumption
  DEF Proof, tableVars, faultVars, Earned, TypeOK, HistoryOK
<1>23. ASSUME NEW i \in Images, Strike(i) PROVE Earned'
  <2>1. UNCHANGED <<world, status, out>> /\ at' # "storeError"
    BY <1>23 DEF Strike, waveVars
  <2>2. faults' > 0 \/ (UNCHANGED faults /\ attempts' = [attempts EXCEPT ![i] = @ + 1])
    <3>1. Fault \/ (NoFault /\ attempts' = [attempts EXCEPT ![i] = @ + 1])
      BY <1>23 DEF Strike, Repeat
    <3>2. Fault => faults' > 0
      BY BoundsAssumption DEF Fault, TypeOK, HistoryOK
    <3>3. NoFault => UNCHANGED faults
      BY DEF NoFault, faultVars
    <3> QED
      BY <3>1, <3>2, <3>3
  <2>3. faults' > 0 \/ (UNCHANGED faults /\ \A j \in Images : attempts'[j] >= attempts[j])
    BY <2>2 DEF TypeOK, TablesOK, HistoryOK
  <2> QED
    BY <2>1, <2>2, <2>3, SizesAssumption
    DEF Earned, ErrorsAreEarned, Innocent, Kind, TypeOK, TablesOK, HistoryOK
<1>24. CASE Judge
  BY <1>24, BoundsAssumption
  DEF Judge, Earned, ErrorsAreEarned, Innocent, Kind, TypeOK, TablesOK, HistoryOK, NoFault,
      Fault, PlaceOK, UsesImage, faultVars, waveVars
<1>25. CASE Struck
  BY <1>25, EarnedFrame, BoundsAssumption
  DEF Struck, tableVars, history, faultVars, Earned, TypeOK, HistoryOK
<1>26. ASSUME NEW request \in SUBSET got, Send(request) PROVE Earned'
  BY <1>26, BoundsAssumption
  DEF Send, Earned, ErrorsAreEarned, Innocent, Kind, TypeOK, TablesOK, HistoryOK, Noted,
      Replies, tableVars, history, faultVars
<1>27. CASE Sent
  BY <1>27, EarnedFrame, BoundsAssumption
  DEF Sent, tableVars, history, faultVars, Earned, TypeOK, HistoryOK
<1>28. ASSUME NEW i \in Images, TryAlone(i) PROVE Earned'
  BY <1>28, EarnedFrame, BoundsAssumption
  DEF TryAlone, tableVars, history, faultVars, waveVars, Earned, TypeOK, HistoryOK
<1>29. CASE TryAgain
  BY <1>29, EarnedFrame, BoundsAssumption
  DEF TryAgain, tableVars, history, faultVars, jobVars, waveVars, Earned, TypeOK, HistoryOK
<1>30. CASE GiveUp
  BY <1>30, BoundsAssumption
  DEF GiveUp, Earned, ErrorsAreEarned, Innocent, Kind, TypeOK, TablesOK, HistoryOK,
      tableVars, faultVars
<1>31. CASE Solo
  BY <1>31, BoundsAssumption
  DEF Solo, Earned, ErrorsAreEarned, Innocent, Kind, TypeOK, TablesOK, HistoryOK, Noted,
      Replies, tableVars, history, faultVars
<1>32. CASE Isolated
  BY <1>32, EarnedFrame, BoundsAssumption
  DEF Isolated, tableVars, history, faultVars, jobVars, waveVars, Earned, TypeOK, HistoryOK
<1>33. ASSUME NEW i \in Images, Result(i) PROVE Earned'
  <2>1. (out[i] = "refused" /\ i \notin blamed) => ~Innocent(i)
    BY DEF Earned, Innocent
  <2>2. \A j \in Images : /\ status'[j] = "error" => status[j] = "error" \/ ~Innocent(j)
                          /\ out'[j] = "refused" => out[j] = "refused"
    BY <1>33, <2>1 DEF Result, TypeOK, TablesOK, WaveOK
  <2>3. UNCHANGED <<world, attempts, faults>> /\ at' # "storeError"
    BY <1>33 DEF Result, history, faultVars
  <2> QED
    BY <2>2, <2>3 DEF Earned, ErrorsAreEarned, Innocent, Kind
<1>34. CASE Insert
  BY <1>34, EarnedFrame, BoundsAssumption
  DEF Insert, NoFault, Fault, Repeat, faultVars, tableVars, jobVars, waveVars, Earned,
      TypeOK, HistoryOK
<1>35. CASE Finish
  <2>1. \A i \in Images : /\ status'[i] = "error" => status[i] = "error"
                          /\ out'[i] = "refused" => out[i] = "refused"
    BY <1>35 DEF Finish, Stored, StoreFails, TypeOK, TablesOK, WaveOK, tableVars
  <2>2. faults' \in {faults, faults + 1} /\ (at' = "storeError" => faults' > 0)
    BY <1>35, BoundsAssumption
    DEF Finish, Stored, StoreFails, NoFault, Repeat, Fault, faultVars, TypeOK, HistoryOK
  <2> QED
    BY <1>35, <2>1, <2>2, EarnedFrame DEF Finish, tableVars
<1>36. CASE Classify
  <2>1. \A i \in Images : /\ status'[i] = "error" => status[i] = "error"
                          /\ out'[i] = "refused" => out[i] = "refused"
    BY <1>36 DEF Classify, Stored, StoreFails, TypeOK, TablesOK, WaveOK, tableVars
  <2>2. faults' \in {faults, faults + 1} /\ (at' = "storeError" => faults' > 0)
    BY <1>36, BoundsAssumption
    DEF Classify, Stored, StoreFails, NoFault, Repeat, Fault, faultVars, TypeOK, HistoryOK
  <2> QED
    BY <1>36, <2>1, <2>2, EarnedFrame DEF Classify, tableVars
<1>37. CASE Confirm
  BY <1>37, EarnedFrame, BoundsAssumption
  DEF Confirm, NoFault, Repeat, StoreFails, Fault, faultVars, tableVars, jobVars, waveVars,
      Earned, TypeOK, HistoryOK
<1>38. CASE Mark
  <2>1. \A i \in Images : /\ status'[i] = "error" => status[i] = "error"
                          /\ out'[i] = "refused" => out[i] = "refused"
    BY <1>38 DEF Mark, Stored, StoreFails, TypeOK, TablesOK, WaveOK, tableVars
  <2>2. faults' \in {faults, faults + 1} /\ (at' = "storeError" => faults' > 0)
    BY <1>38, BoundsAssumption
    DEF Mark, Stored, StoreFails, NoFault, Repeat, Fault, faultVars, TypeOK, HistoryOK
  <2> QED
    BY <1>38, <2>1, <2>2, EarnedFrame DEF Mark, tableVars
<1>39. CASE StoreError
  BY <1>39, BoundsAssumption
  DEF StoreError, Earned, ErrorsAreEarned, Innocent, Kind, TypeOK, TablesOK, HistoryOK,
      history, faultVars
<1>40. CASE Recorded
  BY <1>40, BoundsAssumption
  DEF Recorded, Earned, ErrorsAreEarned, Innocent, Kind, TypeOK, TablesOK, HistoryOK,
      NoReplies, tableVars, history, faultVars
<1>41. CASE Flag
  BY <1>41, EarnedFrame, BoundsAssumption
  DEF Flag, NoFault, Fault, faultVars, Earned, TypeOK, HistoryOK
<1>42. CASE Filter
  BY <1>42, EarnedFrame, BoundsAssumption
  DEF Filter, NoFault, StillActive, Fault, faultVars, tableVars, jobVars, waveVars, Earned,
      TypeOK, HistoryOK
<1>43. CASE Verdict
  BY <1>43, EarnedFrame, BoundsAssumption
  DEF Verdict, tableVars, history, faultVars, jobVars, waveVars, Earned, TypeOK, HistoryOK
<1>44. CASE Complete
  BY <1>44, EarnedFrame, BoundsAssumption
  DEF Complete, tableVars, history, faultVars, jobVars, waveVars, Earned, TypeOK, HistoryOK
<1>45. CASE Raises
  BY <1>45, BoundsAssumption
  DEF Raises, Earned, ErrorsAreEarned, Innocent, Kind, TypeOK, TablesOK, HistoryOK, EndJob,
      NoReplies, Fault, tableVars
<1>46. CASE Restart
  BY <1>46, EarnedFrame, BoundsAssumption
  DEF Restart, NewProcess, tableVars, history, faultVars, jobVars, waveVars, Earned, TypeOK,
      HistoryOK
<1>47. CASE Stop
  BY <1>47, EarnedFrame, BoundsAssumption
  DEF Stop, Mishap, tableVars, faultVars, jobVars, waveVars, Earned, TypeOK, HistoryOK
<1>48. CASE Crash
  BY <1>48, BoundsAssumption
  DEF Crash, Earned, ErrorsAreEarned, Innocent, Kind, TypeOK, TablesOK, HistoryOK, EndJob,
      NoReplies, tableVars
<1>49. ASSUME NEW s \in {"active", "paused", "completed"}, SaveSettings(s) PROVE Earned'
  BY <1>49, EarnedFrame, BoundsAssumption
  DEF SaveSettings, Mishap, tableVars, faultVars, jobVars, waveVars, Earned, TypeOK,
      HistoryOK
<1>50. CASE ServiceBreaks
  BY <1>50, EarnedFrame, BoundsAssumption
  DEF ServiceBreaks, Trouble, tableVars, faultVars, jobVars, waveVars, Earned, TypeOK,
      HistoryOK
<1>51. CASE ServiceRecovers
  BY <1>51, EarnedFrame, BoundsAssumption
  DEF ServiceRecovers, tableVars, history, faultVars, jobVars, waveVars, Earned, TypeOK,
      HistoryOK
<1>52. CASE CommonsBreaks
  BY <1>52, EarnedFrame, BoundsAssumption
  DEF CommonsBreaks, Trouble, tableVars, faultVars, jobVars, waveVars, Earned, TypeOK,
      HistoryOK
<1>53. CASE CommonsRecovers
  BY <1>53, EarnedFrame, BoundsAssumption
  DEF CommonsRecovers, tableVars, history, faultVars, jobVars, waveVars, Earned, TypeOK,
      HistoryOK
<1>54. CASE ForgetOutage
  BY <1>54, EarnedFrame, BoundsAssumption
  DEF ForgetOutage, tableVars, history, faultVars, jobVars, waveVars, Earned, TypeOK,
      HistoryOK
<1>55. CASE ForgetCanary
  BY <1>55, EarnedFrame, BoundsAssumption
  DEF ForgetCanary, tableVars, history, faultVars, jobVars, waveVars, Earned, TypeOK,
      HistoryOK
<1> QED
  BY <1>1, <1>2, <1>3, <1>4, <1>5, <1>6, <1>7, <1>8, <1>9, <1>10, <1>11, <1>12, <1>13,
     <1>14, <1>15, <1>16, <1>17, <1>18, <1>19, <1>20, <1>21, <1>22, <1>23, <1>24, <1>25,
     <1>26, <1>27, <1>28, <1>29, <1>30, <1>31, <1>32, <1>33, <1>34, <1>35, <1>36, <1>37,
     <1>38, <1>39, <1>40, <1>41, <1>42, <1>43, <1>44, <1>45, <1>46, <1>47, <1>48, <1>49,
     <1>50, <1>51, <1>52, <1>53, <1>54, <1>55
  DEF Next, Work

\* An ordinary image becomes an error by strikes only, or when its faces could
\* not be stored.
THEOREM OnlyEarnedErrors == Spec => []ErrorsAreEarned
<1>1. Init => Earned
  BY DEF Init, Earned, ErrorsAreEarned, NoReplies
<1>2. TypeOK /\ Earned /\ [Next]_vars => Earned'
  <2>1. ASSUME TypeOK, Earned, UNCHANGED vars PROVE Earned'
    BY <2>1, EarnedFrame, BoundsAssumption
    DEF vars, tableVars, jobVars, waveVars, history, faultVars, Earned, TypeOK, HistoryOK
  <2> QED
    BY <2>1, StepEarned
<1> QED
  BY <1>1, <1>2, TypeCorrect, PTL DEF Spec, Earned

\* Where a run may have changed the outcome of images without having counted
\* them again.
Uncounted == {"wave", "download", "canary", "strike", "judge", "send", "isolate", "solo",
              "again", "soloAgain", "results", "insert", "finish", "classify", "confirm",
              "mark", "storeError", "flag", "recount"}
Counted ==
    at \notin Uncounted /\ stops = 0 /\ faults = 0 => processed = Cardinality(Finished)

\* What leaves the images as they are, or goes where they are uncounted, keeps it.
LEMMA CountedFrame ==
    ASSUME TypeOK, Counted, UNCHANGED processed, Finished' = Finished,
           at' \notin Uncounted /\ stops' = 0 /\ faults' = 0 =>
               at \notin Uncounted /\ stops = 0 /\ faults = 0
    PROVE  Counted'
  BY DEF Counted

\* Where the images have just been counted, the figure stays right.
LEMMA StepCounted ==
    ASSUME TypeOK, Counted, Next
    PROVE  Counted'
<1>1. CASE Claim
  BY <1>1, CountedFrame, BoundsAssumption
  DEF Claim, tableVars, projectVars, history, faultVars, Uncounted, TypeOK, HistoryOK,
      Finished, Known, Pending
<1>2. CASE Begin
  BY <1>2, CountedFrame, BoundsAssumption
  DEF Begin, StillActive, NoFault, Fault, faultVars, tableVars, projectVars, Uncounted,
      TypeOK, HistoryOK, Finished, Known, Pending
<1>3. CASE CrawlPage
  BY <1>3, CountedFrame, BoundsAssumption
  DEF CrawlPage, projectVars, history, faultVars, Uncounted, TypeOK, HistoryOK, Finished,
      Known, Pending
<1>4. CASE CrawlFails
  BY <1>4, CountedFrame, BoundsAssumption
  DEF CrawlFails, NoFault, Fault, faultVars, tableVars, projectVars, Uncounted, TypeOK,
      HistoryOK, Finished, Known, Pending
<1>5. CASE CrawlEnds
  BY <1>5, CountedFrame, BoundsAssumption
  DEF CrawlEnds, tableVars, projectVars, history, faultVars, Uncounted, TypeOK, HistoryOK,
      Finished, Known, Pending
<1>6. CASE BetweenStages
  BY <1>6, CountedFrame, BoundsAssumption
  DEF BetweenStages, NoFault, StillActive, Fault, faultVars, tableVars, projectVars,
      Uncounted, TypeOK, HistoryOK, Finished, Known, Pending
<1>7. ASSUME NEW i \in Images, Found(i) PROVE Counted'
  BY <1>7, CountedFrame, BoundsAssumption
  DEF Found, projectVars, history, faultVars, Uncounted, TypeOK, HistoryOK, Finished, Known,
      Pending
<1>8. CASE Reconcile
  BY <1>8, CountedFrame, BoundsAssumption
  DEF Reconcile, tableVars, projectVars, history, faultVars, Uncounted, TypeOK, HistoryOK,
      Finished, Known, Pending
<1>9. CASE Adopt
  BY <1>9, CountedFrame, BoundsAssumption
  DEF Adopt, NoFault, Repeat, Fault, faultVars, tableVars, projectVars, Uncounted, TypeOK,
      HistoryOK, Finished, Known, Pending
<1>10. CASE Adopted
  BY <1>10, CountedFrame, BoundsAssumption
  DEF Adopted, NoFault, Repeat, Fault, faultVars, tableVars, Uncounted, TypeOK, HistoryOK,
      Finished, Known, Pending
<1>11. CASE SearchFails
  BY <1>11, CountedFrame, BoundsAssumption
  DEF SearchFails, NoFault, Fault, faultVars, tableVars, projectVars, Uncounted, TypeOK,
      HistoryOK, Finished, Known, Pending
<1>12. CASE SearchEnds
  BY <1>12, CountedFrame, BoundsAssumption
  DEF SearchEnds, tableVars, projectVars, history, faultVars, Uncounted, TypeOK, HistoryOK,
      Finished, Known, Pending
<1>13. CASE Count
  BY <1>13, CountedFrame, BoundsAssumption
  DEF Count, NoFault, Fault, faultVars, tableVars, projectVars, Uncounted, TypeOK, HistoryOK,
      Finished, Known, Pending
<1>14. CASE Pick
  BY <1>14, CountedFrame, BoundsAssumption
  DEF Pick, tableVars, projectVars, history, faultVars, Uncounted, TypeOK, HistoryOK,
      Finished, Known, Pending
<1>15. CASE Skip
  <2>1. CASE status' = status
    BY <1>15, <2>1, CountedFrame
    DEF Skip, Finished, Known, Pending, projectVars, history, faultVars, Uncounted
  <2>2. CASE status' # status
    BY <1>15, <2>2 DEF Skip, Counted, Uncounted
  <2> QED
    BY <2>1, <2>2
<1>16. CASE StartWave
  BY <1>16, CountedFrame, BoundsAssumption
  DEF StartWave, tableVars, projectVars, history, faultVars, Uncounted, TypeOK, HistoryOK,
      Finished, Known, Pending
<1>17. CASE Recount
  <2>1. Finished' = Finished
    BY <1>17 DEF Recount, Finished, Known, Pending, tableVars
  <2> QED
    BY <1>17, <2>1 DEF Recount, Counted
<1>18. CASE After
  BY <1>18, CountedFrame, BoundsAssumption
  DEF After, NoFault, Fault, faultVars, tableVars, projectVars, Uncounted, TypeOK, HistoryOK,
      Finished, Known, Pending
<1>19. CASE BetweenBatches
  BY <1>19, CountedFrame, BoundsAssumption
  DEF BetweenBatches, StillActive, NoFault, Fault, faultVars, tableVars, projectVars,
      Uncounted, TypeOK, HistoryOK, Finished, Known, Pending
<1>20. ASSUME NEW i \in Images, Download(i) PROVE Counted'
  BY <1>20 DEF Download, Counted, Uncounted
<1>21. CASE Downloaded
  BY <1>21, CountedFrame, BoundsAssumption
  DEF Downloaded, tableVars, projectVars, history, faultVars, Uncounted, TypeOK, HistoryOK,
      Finished, Known, Pending
<1>22. CASE Proof
  BY <1>22, CountedFrame, BoundsAssumption
  DEF Proof, tableVars, projectVars, faultVars, Uncounted, TypeOK, HistoryOK, Finished,
      Known, Pending
<1>23. ASSUME NEW i \in Images, Strike(i) PROVE Counted'
  BY <1>23, CountedFrame, BoundsAssumption
  DEF Strike, NoFault, Fault, Repeat, faultVars, projectVars, Uncounted, TypeOK, HistoryOK,
      Finished, Known, Pending
<1>24. CASE Judge
  BY <1>24 DEF Judge, Counted, Uncounted
<1>25. CASE Struck
  BY <1>25, CountedFrame, BoundsAssumption
  DEF Struck, tableVars, projectVars, history, faultVars, Uncounted, TypeOK, HistoryOK,
      Finished, Known, Pending
<1>26. ASSUME NEW request \in SUBSET got, Send(request) PROVE Counted'
  BY <1>26, CountedFrame, BoundsAssumption
  DEF Send, tableVars, projectVars, history, faultVars, Uncounted, TypeOK, HistoryOK,
      Finished, Known, Pending
<1>27. CASE Sent
  BY <1>27, CountedFrame, BoundsAssumption
  DEF Sent, tableVars, projectVars, history, faultVars, Uncounted, TypeOK, HistoryOK,
      Finished, Known, Pending
<1>28. ASSUME NEW i \in Images, TryAlone(i) PROVE Counted'
  BY <1>28, CountedFrame, BoundsAssumption
  DEF TryAlone, tableVars, projectVars, history, faultVars, Uncounted, TypeOK, HistoryOK,
      Finished, Known, Pending
<1>29. CASE TryAgain
  BY <1>29, CountedFrame, BoundsAssumption
  DEF TryAgain, tableVars, projectVars, history, faultVars, Uncounted, TypeOK, HistoryOK,
      Finished, Known, Pending
<1>30. CASE GiveUp
  BY <1>30, CountedFrame, BoundsAssumption
  DEF GiveUp, tableVars, projectVars, faultVars, Uncounted, TypeOK, HistoryOK, Finished,
      Known, Pending
<1>31. CASE Solo
  BY <1>31, CountedFrame, BoundsAssumption
  DEF Solo, tableVars, projectVars, history, faultVars, Uncounted, TypeOK, HistoryOK,
      Finished, Known, Pending
<1>32. CASE Isolated
  BY <1>32, CountedFrame, BoundsAssumption
  DEF Isolated, tableVars, projectVars, history, faultVars, Uncounted, TypeOK, HistoryOK,
      Finished, Known, Pending
<1>33. ASSUME NEW i \in Images, Result(i) PROVE Counted'
  BY <1>33 DEF Result, Counted, Uncounted
<1>34. CASE Insert
  BY <1>34, CountedFrame, BoundsAssumption
  DEF Insert, NoFault, Fault, Repeat, faultVars, tableVars, projectVars, Uncounted, TypeOK,
      HistoryOK, Finished, Known, Pending
<1>35. CASE Finish
  BY <1>35 DEF Finish, Counted, Uncounted, Stored, StoreFails
<1>36. CASE Classify
  BY <1>36, CountedFrame, BoundsAssumption
  DEF Classify, NoFault, Repeat, Stored, StoreFails, Fault, faultVars, tableVars,
      projectVars, Uncounted, TypeOK, HistoryOK, Finished, Known, Pending
<1>37. CASE Confirm
  BY <1>37, CountedFrame, BoundsAssumption
  DEF Confirm, NoFault, Repeat, StoreFails, Fault, faultVars, tableVars, Uncounted, TypeOK,
      HistoryOK, Finished, Known, Pending
<1>38. CASE Mark
  BY <1>38, CountedFrame, BoundsAssumption
  DEF Mark, NoFault, Stored, StoreFails, Fault, faultVars, tableVars, projectVars, Uncounted,
      TypeOK, HistoryOK, Finished, Known, Pending
<1>39. CASE StoreError
  BY <1>39 DEF StoreError, Counted, Uncounted
<1>40. CASE Recorded
  BY <1>40, CountedFrame, BoundsAssumption
  DEF Recorded, tableVars, projectVars, history, faultVars, Uncounted, TypeOK, HistoryOK,
      Finished, Known, Pending
<1>41. CASE Flag
  BY <1>41, CountedFrame, BoundsAssumption
  DEF Flag, NoFault, Fault, faultVars, projectVars, Uncounted, TypeOK, HistoryOK, Finished,
      Known, Pending
<1>42. CASE Filter
  BY <1>42, CountedFrame, BoundsAssumption
  DEF Filter, NoFault, StillActive, Fault, faultVars, tableVars, projectVars, Uncounted,
      TypeOK, HistoryOK, Finished, Known, Pending
<1>43. CASE Verdict
  BY <1>43, CountedFrame, BoundsAssumption
  DEF Verdict, tableVars, projectVars, history, faultVars, Uncounted, TypeOK, HistoryOK,
      Finished, Known, Pending
<1>44. CASE Complete
  BY <1>44, CountedFrame, BoundsAssumption
  DEF Complete, tableVars, history, faultVars, Uncounted, TypeOK, HistoryOK, Finished, Known,
      Pending
<1>45. CASE Raises
  BY <1>45, CountedFrame, BoundsAssumption
  DEF Raises, Fault, EndJob, tableVars, projectVars, Uncounted, TypeOK, HistoryOK, Finished,
      Known, Pending
<1>46. CASE Restart
  BY <1>46, CountedFrame, BoundsAssumption
  DEF Restart, NewProcess, tableVars, projectVars, history, faultVars, Uncounted, TypeOK,
      HistoryOK, Finished, Known, Pending
<1>47. CASE Stop
  BY <1>47, CountedFrame, BoundsAssumption
  DEF Stop, Mishap, tableVars, projectVars, faultVars, Uncounted, TypeOK, HistoryOK,
      Finished, Known, Pending
<1>48. CASE Crash
  BY <1>48, CountedFrame, BoundsAssumption
  DEF Crash, Mishap, EndJob, NewProcess, tableVars, projectVars, Uncounted, TypeOK,
      HistoryOK, Finished, Known, Pending
<1>49. ASSUME NEW s \in {"active", "paused", "completed"}, SaveSettings(s) PROVE Counted'
  BY <1>49, CountedFrame, BoundsAssumption
  DEF SaveSettings, Mishap, tableVars, faultVars, Uncounted, TypeOK, HistoryOK, Finished,
      Known, Pending
<1>50. CASE ServiceBreaks
  BY <1>50, CountedFrame, BoundsAssumption
  DEF ServiceBreaks, Trouble, tableVars, projectVars, faultVars, Uncounted, TypeOK,
      HistoryOK, Finished, Known, Pending
<1>51. CASE ServiceRecovers
  BY <1>51, CountedFrame, BoundsAssumption
  DEF ServiceRecovers, tableVars, projectVars, history, faultVars, Uncounted, TypeOK,
      HistoryOK, Finished, Known, Pending
<1>52. CASE CommonsBreaks
  BY <1>52, CountedFrame, BoundsAssumption
  DEF CommonsBreaks, Trouble, tableVars, projectVars, faultVars, Uncounted, TypeOK,
      HistoryOK, Finished, Known, Pending
<1>53. CASE CommonsRecovers
  BY <1>53, CountedFrame, BoundsAssumption
  DEF CommonsRecovers, tableVars, projectVars, history, faultVars, Uncounted, TypeOK,
      HistoryOK, Finished, Known, Pending
<1>54. CASE ForgetOutage
  BY <1>54, CountedFrame, BoundsAssumption
  DEF ForgetOutage, tableVars, projectVars, history, faultVars, Uncounted, TypeOK, HistoryOK,
      Finished, Known, Pending
<1>55. CASE ForgetCanary
  BY <1>55, CountedFrame, BoundsAssumption
  DEF ForgetCanary, tableVars, projectVars, history, faultVars, Uncounted, TypeOK, HistoryOK,
      Finished, Known, Pending
<1> QED
  BY <1>1, <1>2, <1>3, <1>4, <1>5, <1>6, <1>7, <1>8, <1>9, <1>10, <1>11, <1>12, <1>13,
     <1>14, <1>15, <1>16, <1>17, <1>18, <1>19, <1>20, <1>21, <1>22, <1>23, <1>24, <1>25,
     <1>26, <1>27, <1>28, <1>29, <1>30, <1>31, <1>32, <1>33, <1>34, <1>35, <1>36, <1>37,
     <1>38, <1>39, <1>40, <1>41, <1>42, <1>43, <1>44, <1>45, <1>46, <1>47, <1>48, <1>49,
     <1>50, <1>51, <1>52, <1>53, <1>54, <1>55
  DEF Next, Work

\* The number of images processed is exact whenever the worker rests, unless a
\* run was cut short or a statement failed.
THEOREM ProgressIsCounted == Spec => []ProgressIsExact
<1>1. Init => Counted
  <2>1. ASSUME Init PROVE Finished = {}
    BY <2>1 DEF Init, Finished, Known
  <2> QED
    BY <2>1, FS_EmptySet DEF Init, Counted
<1>2. TypeOK /\ Counted /\ [Next]_vars => Counted'
  <2>1. ASSUME TypeOK, Counted, UNCHANGED vars PROVE Counted'
    BY <2>1
    DEF vars, tableVars, projectVars, history, faultVars, Counted, Finished, Known, Pending
  <2> QED
    BY <2>1, StepCounted
<1>3. Counted => ProgressIsExact
  BY DEF Counted, ProgressIsExact, Uncounted
<1> QED
  BY <1>1, <1>2, <1>3, TypeCorrect, PTL DEF Spec

\* A verdict about to be written rests on the table as it is.
VerdictStands ==
    /\ at \in {"no_faces", "insufficient_faces"} => Pending = {}
    /\ at = "no_faces" => SumOver(rows) = 0

\* Steps elsewhere, and steps that touch no image or face, keep it.
LEMMA VerdictFrame ==
    ASSUME VerdictStands,
           at' \in {"no_faces", "insufficient_faces"} => UNCHANGED <<at, status, rows>>
    PROVE  VerdictStands'
<1>1. CASE at' \in {"no_faces", "insufficient_faces"}
  BY <1>1 DEF VerdictStands, Pending
<1> QED
  BY <1>1 DEF VerdictStands

\* Every action leaves a verdict standing.
LEMMA StepVerdict ==
    ASSUME VerdictStands, Next
    PROVE  VerdictStands'
<1>1. CASE Claim
  BY <1>1, VerdictFrame DEF Claim
<1>2. CASE Begin
  BY <1>2, VerdictFrame DEF Begin, StillActive
<1>3. CASE CrawlPage
  BY <1>3, VerdictFrame DEF CrawlPage, faceVars
<1>4. CASE CrawlFails
  BY <1>4, VerdictFrame DEF CrawlFails, tableVars, faceVars
<1>5. CASE CrawlEnds
  BY <1>5, VerdictFrame DEF CrawlEnds
<1>6. CASE BetweenStages
  BY <1>6, VerdictFrame DEF BetweenStages, StillActive
<1>7. ASSUME NEW i \in Images, Found(i) PROVE VerdictStands'
  BY <1>7, VerdictFrame DEF Found
<1>8. CASE Reconcile
  BY <1>8, VerdictFrame DEF Reconcile
<1>9. CASE Adopt
  BY <1>9, VerdictFrame DEF Adopt
<1>10. CASE Adopted
  BY <1>10, VerdictFrame DEF Adopted
<1>11. CASE SearchFails
  BY <1>11, VerdictFrame DEF SearchFails
<1>12. CASE SearchEnds
  BY <1>12, VerdictFrame DEF SearchEnds
<1>13. CASE Count
  BY <1>13, VerdictFrame DEF Count
<1>14. CASE Pick
  BY <1>14, VerdictFrame DEF Pick
<1>15. CASE Skip
  BY <1>15, VerdictFrame DEF Skip
<1>16. CASE StartWave
  BY <1>16, VerdictFrame DEF StartWave
<1>17. CASE Recount
  BY <1>17, VerdictFrame DEF Recount
<1>18. CASE After
  BY <1>18, VerdictFrame DEF After
<1>19. CASE BetweenBatches
  BY <1>19, VerdictFrame DEF BetweenBatches, StillActive
<1>20. ASSUME NEW i \in Images, Download(i) PROVE VerdictStands'
  BY <1>20, VerdictFrame DEF Download, faceVars
<1>21. CASE Downloaded
  BY <1>21, VerdictFrame DEF Downloaded
<1>22. CASE Proof
  BY <1>22, VerdictFrame DEF Proof
<1>23. ASSUME NEW i \in Images, Strike(i) PROVE VerdictStands'
  BY <1>23, VerdictFrame DEF Strike
<1>24. CASE Judge
  BY <1>24, VerdictFrame DEF Judge
<1>25. CASE Struck
  BY <1>25, VerdictFrame DEF Struck
<1>26. ASSUME NEW request \in SUBSET got, Send(request) PROVE VerdictStands'
  BY <1>26, VerdictFrame DEF Send, tableVars, faceVars
<1>27. CASE Sent
  BY <1>27, VerdictFrame DEF Sent
<1>28. ASSUME NEW i \in Images, TryAlone(i) PROVE VerdictStands'
  BY <1>28, VerdictFrame DEF TryAlone
<1>29. CASE TryAgain
  BY <1>29, VerdictFrame DEF TryAgain
<1>30. CASE GiveUp
  BY <1>30, VerdictFrame DEF GiveUp
<1>31. CASE Solo
  BY <1>31, VerdictFrame DEF Solo
<1>32. CASE Isolated
  BY <1>32, VerdictFrame DEF Isolated
<1>33. ASSUME NEW i \in Images, Result(i) PROVE VerdictStands'
  BY <1>33, VerdictFrame DEF Result
<1>34. CASE Insert
  BY <1>34, VerdictFrame DEF Insert
<1>35. CASE Finish
  BY <1>35, VerdictFrame DEF Finish, Stored, StoreFails
<1>36. CASE Classify
  BY <1>36, VerdictFrame DEF Classify, Stored, StoreFails
<1>37. CASE Confirm
  BY <1>37, VerdictFrame DEF Confirm, StoreFails
<1>38. CASE Mark
  BY <1>38, VerdictFrame DEF Mark, Stored, StoreFails
<1>39. CASE StoreError
  BY <1>39, VerdictFrame DEF StoreError
<1>40. CASE Recorded
  BY <1>40, VerdictFrame DEF Recorded
<1>41. CASE Flag
  BY <1>41, VerdictFrame DEF Flag
<1>42. CASE Filter
  BY <1>42, VerdictFrame DEF Filter, StillActive
<1>43. CASE Verdict
  <2>1. at' \in {"no_faces", "insufficient_faces"} => Pending' = {}
    BY <1>43 DEF Verdict, Pending, tableVars
  <2>2. at' = "no_faces" => SumOver(rows)' = 0
    BY <1>43 DEF Verdict, faceVars
  <2> QED
    BY <2>1, <2>2 DEF VerdictStands
<1>44. CASE Complete
  BY <1>44, VerdictFrame DEF Complete
<1>45. CASE Raises
  BY <1>45, VerdictFrame DEF Raises, EndJob
<1>46. CASE Restart
  BY <1>46, VerdictFrame DEF Restart, tableVars, faceVars
<1>47. CASE Stop
  BY <1>47, VerdictFrame DEF Stop, tableVars, faceVars
<1>48. CASE Crash
  BY <1>48, VerdictFrame DEF Crash, EndJob
<1>49. ASSUME NEW s \in {"active", "paused", "completed"}, SaveSettings(s) PROVE VerdictStands'
  BY <1>49, VerdictFrame DEF SaveSettings, tableVars, faceVars
<1>50. CASE ServiceBreaks
  BY <1>50, VerdictFrame DEF ServiceBreaks, tableVars, faceVars
<1>51. CASE ServiceRecovers
  BY <1>51, VerdictFrame DEF ServiceRecovers, tableVars, faceVars
<1>52. CASE CommonsBreaks
  BY <1>52, VerdictFrame DEF CommonsBreaks, tableVars, faceVars
<1>53. CASE CommonsRecovers
  BY <1>53, VerdictFrame DEF CommonsRecovers, tableVars, faceVars
<1>54. CASE ForgetOutage
  BY <1>54, VerdictFrame DEF ForgetOutage, tableVars, faceVars
<1>55. CASE ForgetCanary
  BY <1>55, VerdictFrame DEF ForgetCanary, tableVars, faceVars
<1> QED
  BY <1>1, <1>2, <1>3, <1>4, <1>5, <1>6, <1>7, <1>8, <1>9, <1>10, <1>11, <1>12, <1>13,
     <1>14, <1>15, <1>16, <1>17, <1>18, <1>19, <1>20, <1>21, <1>22, <1>23, <1>24, <1>25,
     <1>26, <1>27, <1>28, <1>29, <1>30, <1>31, <1>32, <1>33, <1>34, <1>35, <1>36, <1>37,
     <1>38, <1>39, <1>40, <1>41, <1>42, <1>43, <1>44, <1>45, <1>46, <1>47, <1>48, <1>49,
     <1>50, <1>51, <1>52, <1>53, <1>54, <1>55
  DEF Next, Work

\* Only a verdict and the owner change the project's status.
LEMMA ProjectWriters ==
    ASSUME Next
    PROVE  \/ UNCHANGED project \/ Complete
           \/ \E s \in {"active", "paused", "completed"} : SaveSettings(s)
<1>1. ASSUME Claim \/ Begin \/ CrawlPage \/ CrawlFails \/ CrawlEnds \/ BetweenStages
      PROVE  UNCHANGED project
  BY <1>1 DEF Claim, Begin, CrawlPage, CrawlFails, CrawlEnds, BetweenStages, projectVars
<1>2. ASSUME \/ Reconcile \/ Adopt \/ Adopted \/ SearchFails \/ SearchEnds
             \/ \E i \in Images : Found(i)
      PROVE  UNCHANGED project
  BY <1>2 DEF Found, Reconcile, Adopt, Adopted, SearchFails, SearchEnds, projectVars
<1>3. ASSUME Count \/ Pick \/ Skip \/ StartWave \/ Recount \/ After
      PROVE  UNCHANGED project
  BY <1>3 DEF Count, Pick, Skip, StartWave, Recount, After, projectVars
<1>4. ASSUME \/ BetweenBatches \/ Downloaded \/ Proof \/ Judge
             \/ \E i \in Images : Download(i)
             \/ \E i \in Images : Strike(i)
      PROVE  UNCHANGED project
  BY <1>4 DEF BetweenBatches, Download, Downloaded, Proof, Strike, Judge, projectVars
<1>5. ASSUME \/ Struck \/ Sent \/ TryAgain \/ GiveUp
             \/ \E request \in SUBSET got : Send(request)
             \/ \E i \in Images : TryAlone(i)
      PROVE  UNCHANGED project
  BY <1>5 DEF Struck, Send, Sent, TryAlone, TryAgain, GiveUp, projectVars
<1>6. ASSUME \/ Solo \/ Isolated \/ Insert \/ Finish \/ Classify
             \/ \E i \in Images : Result(i)
      PROVE  UNCHANGED project
  BY <1>6 DEF Solo, Isolated, Result, Insert, Finish, Classify, projectVars
<1>7. ASSUME Confirm \/ Mark \/ StoreError \/ Recorded \/ Flag \/ Filter
      PROVE  UNCHANGED project
  BY <1>7 DEF Confirm, Mark, StoreError, Recorded, Flag, Filter, projectVars
<1>8. ASSUME Verdict \/ Raises \/ Restart \/ Stop \/ Crash \/ ServiceBreaks
      PROVE  UNCHANGED project
  BY <1>8 DEF Verdict, Raises, Restart, Stop, Crash, ServiceBreaks, projectVars
<1>9. ASSUME ServiceRecovers \/ CommonsBreaks \/ CommonsRecovers \/ ForgetOutage \/ ForgetCanary
      PROVE  UNCHANGED project
  BY <1>9
  DEF ServiceRecovers, CommonsBreaks, CommonsRecovers, ForgetOutage, ForgetCanary,
      projectVars
<1> QED
  BY <1>1, <1>2, <1>3, <1>4, <1>5, <1>6, <1>7, <1>8, <1>9 DEF Next, Work

\* The worker completes no project while an image waits, and none for having
\* no faces while one is stored.
THEOREM VerdictsRest == Spec => VerdictsWait
<1> DEFINE Sound == project # "completed" /\ project' = "completed" /\ edits' = edits =>
                      Pending = {} /\ (reason' = "no_faces" => SumOver(rows) = 0)
<1>1. Init => VerdictStands
  BY DEF Init, VerdictStands
<1>2. VerdictStands /\ [Next]_vars => VerdictStands'
  <2>1. ASSUME VerdictStands, UNCHANGED vars PROVE VerdictStands'
    BY <2>1, VerdictFrame DEF vars, tableVars, faceVars
  <2> QED
    BY <2>1, StepVerdict
<1>3. VerdictStands /\ TypeOK /\ [Next]_vars => [Sound]_vars
  <2>1. ASSUME VerdictStands, Complete PROVE Sound
    BY <2>1 DEF Complete, VerdictStands
  <2>2. ASSUME TypeOK, NEW s \in {"active", "paused", "completed"}, SaveSettings(s)
        PROVE  Sound
    BY <2>2, BoundsAssumption DEF SaveSettings, TypeOK, HistoryOK
  <2> QED
    BY <2>1, <2>2, ProjectWriters
<1> QED
  BY <1>1, <1>2, <1>3, TypeCorrect, PTL DEF Spec, VerdictsWait

==============================================================================
