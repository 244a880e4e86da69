-------------------------- MODULE ImageWavesProofs --------------------------
(***************************************************************************)
(* What the waves of a project's images leave behind, for every set of     *)
(* images, every world, every size of batch, wave and request, and every   *)
(* course of outages and mishaps:                                          *)
(*   - faces are stored once, except by steps that were lost or repeated;  *)
(*   - an image nothing is wrong with is struck no more often than outages *)
(*     account for;                                                        *)
(*   - projects.faces_confirmed is the number of targets set.              *)
(* The first and the third rest on which of a wave's variables are in use  *)
(* at which place (Stages) and on the images of a batch being sent once    *)
(* (StoredInv).                                                            *)
(***************************************************************************)
EXTENDS ImagePipelineProofs, FiniteSetTheorems, WellFoundedInduction

\* Products of a number of faces: larger factors, and one more.
LEMMA TimesGrows ==
    ASSUME NEW a \in Nat, NEW m \in Nat, NEW n \in Nat, m <= n
    PROVE  a * m <= a * n
<1>1. PICK k \in Nat : n = m + k
  OBVIOUS
<1>2. a * n = a * m + a * k
  BY <1>1
<1>3. a * k \in Nat
  OBVIOUS
<1>4. a * m \in Nat
  OBVIOUS
<1> QED
  BY <1>2, <1>3, <1>4

LEMMA TimesOneMore ==
    ASSUME NEW a \in Nat, NEW m \in Nat
    PROVE  a * (m + 1) = a * m + a
  OBVIOUS

\* Which of a wave's variables are in use at which place.
Sending == {"isolate", "solo", "again", "soloAgain"}
Recording == {"finish", "classify", "confirm", "mark"}
Storing == Recording \union {"insert", "storeError"}
Stages ==
    /\ at # "download" => wave = {}
    /\ at \notin {"download", "canary", "strike", "judge", "send"} => got = {}
    /\ at \notin Sending \union {"send"} => alone = {}
    /\ at \notin {"strike", "judge", "send", "results"} \union Sending \union Storing =>
          out = NoReplies
    /\ at \in {"strike", "judge"} /\ got # {} => out = NoReplies
    /\ at \in {"solo", "again", "soloAgain"} => image \in alone
    /\ at \in Storing => out[image] = "faces"
    /\ at \notin {"download", "canary"} => failed = {}
    /\ at \notin {"strike", "judge", "send", "results"} \union Sending \union Storing =>
          blamed = {}
    /\ at \in {"strike", "judge"} => todo \intersect blamed = {}

LEMMA StepStages ==
    ASSUME TypeOK, Stages, Next
    PROVE  Stages'
<1>1. CASE Claim
  BY <1>1
  DEF Claim, jobVars, waveVars, Stages, Sending, Recording, Storing, TypeOK, PlaceOK,
      Places, UsesImage, WaveOK
<1>2. CASE Begin
  BY <1>2
  DEF Begin, StillActive, NoFault, Fault, Mishap, Trouble, waveVars, Stages, Sending,
      Recording, Storing, TypeOK, PlaceOK, Places, UsesImage, WaveOK
<1>3. CASE CrawlPage
  BY <1>3
  DEF CrawlPage, waveVars, Stages, Sending, Recording, Storing, TypeOK, PlaceOK, Places,
      UsesImage, WaveOK
<1>4. CASE CrawlFails
  BY <1>4
  DEF CrawlFails, NoFault, Fault, Mishap, Trouble, waveVars, Stages, Sending, Recording,
      Storing, TypeOK, PlaceOK, Places, UsesImage, WaveOK
<1>5. CASE CrawlEnds
  BY <1>5
  DEF CrawlEnds, waveVars, Stages, Sending, Recording, Storing, TypeOK, PlaceOK, Places,
      UsesImage, WaveOK
<1>6. CASE BetweenStages
  BY <1>6
  DEF BetweenStages, StillActive, NoFault, Fault, Mishap, Trouble, waveVars, Stages,
      Sending, Recording, Storing, TypeOK, PlaceOK, Places, UsesImage, WaveOK
<1>7. ASSUME NEW i \in Images, Found(i) PROVE Stages'
  BY <1>7
  DEF Found, waveVars, Stages, Sending, Recording, Storing, TypeOK, PlaceOK, Places,
      UsesImage, WaveOK
<1>8. CASE Reconcile
  BY <1>8
  DEF Reconcile, jobVars, waveVars, Stages, Sending, Recording, Storing, TypeOK,
      PlaceOK, Places, UsesImage, WaveOK
<1>9. CASE Adopt
  BY <1>9
  DEF Adopt, NoFault, Repeat, Fault, Mishap, Trouble, jobVars, waveVars, Stages,
      Sending, Recording, Storing, TypeOK, PlaceOK, Places, UsesImage, WaveOK
<1>10. CASE Adopted
  BY <1>10
  DEF Adopted, NoFault, Repeat, Fault, Mishap, Trouble, jobVars, waveVars, Stages,
      Sending, Recording, Storing, TypeOK, PlaceOK, Places, UsesImage, WaveOK
<1>11. CASE SearchFails
  BY <1>11
  DEF SearchFails, NoFault, Fault, Mishap, Trouble, waveVars, Stages, Sending,
      Recording, Storing, TypeOK, PlaceOK, Places, UsesImage, WaveOK
<1>12. CASE SearchEnds
  BY <1>12
  DEF SearchEnds, waveVars, Stages, Sending, Recording, Storing, TypeOK, PlaceOK,
      Places, UsesImage, WaveOK
<1>13. CASE Count
  BY <1>13
  DEF Count, NoFault, Fault, Mishap, Trouble, waveVars, Stages, Sending, Recording,
      Storing, TypeOK, PlaceOK, Places, UsesImage, WaveOK
<1>14. CASE Pick
  BY <1>14
  DEF Pick, waveVars, Stages, Sending, Recording, Storing, TypeOK, PlaceOK, Places,
      UsesImage, WaveOK
<1>15. CASE Skip
  BY <1>15
  DEF Skip, jobVars, waveVars, Stages, Sending, Recording, Storing, TypeOK, PlaceOK,
      Places, UsesImage, WaveOK
<1>16. CASE StartWave
  BY <1>16
  DEF StartWave, Stages, Sending, Recording, Storing, TypeOK, PlaceOK, Places,
      UsesImage, WaveOK
<1>17. CASE Recount
  BY <1>17
  DEF Recount, jobVars, waveVars, Stages, Sending, Recording, Storing, TypeOK, PlaceOK,
      Places, UsesImage, WaveOK
<1>18. CASE After
  BY <1>18
  DEF After, NoFault, Fault, Mishap, Trouble, waveVars, Stages, Sending, Recording,
      Storing, TypeOK, PlaceOK, Places, UsesImage, WaveOK
<1>19. CASE BetweenBatches
  BY <1>19
  DEF BetweenBatches, StillActive, NoFault, Fault, Mishap, Trouble, jobVars, waveVars,
      Stages, Sending, Recording, Storing, TypeOK, PlaceOK, Places, UsesImage, WaveOK
<1>20. ASSUME NEW i \in Images, Download(i) PROVE Stages'
  BY <1>20
  DEF Download, NoFault, Fault, Mishap, Trouble, Stages, Sending, Recording, Storing,
      TypeOK, PlaceOK, Places, UsesImage, WaveOK
<1>21. CASE Downloaded
  BY <1>21
  DEF Downloaded, Stages, Sending, Recording, Storing, TypeOK, PlaceOK, Places,
      UsesImage, WaveOK
<1>22. CASE Proof
  BY <1>22
  DEF Proof, Stages, Sending, Recording, Storing, TypeOK, PlaceOK, Places, UsesImage,
      WaveOK
<1>23. ASSUME NEW i \in Images, Strike(i) PROVE Stages'
  BY <1>23
  DEF Strike, NoFault, Fault, Mishap, Trouble, Repeat, waveVars, Stages, Sending,
      Recording, Storing, TypeOK, PlaceOK, Places, UsesImage, WaveOK
<1>24. CASE Judge
  BY <1>24
  DEF Judge, NoFault, Fault, Mishap, Trouble, waveVars, Stages, Sending, Recording,
      Storing, TypeOK, PlaceOK, Places, UsesImage, WaveOK
<1>25. CASE Struck
  BY <1>25
  DEF Struck, Stages, Sending, Recording, Storing, TypeOK, PlaceOK, Places, UsesImage,
      WaveOK
<1>26. ASSUME NEW request \in SUBSET got, Send(request) PROVE Stages'
  BY <1>26
  DEF Send, Stages, Sending, Recording, Storing, TypeOK, PlaceOK, Places, UsesImage,
      WaveOK
<1>27. CASE Sent
  BY <1>27
  DEF Sent, Stages, Sending, Recording, Storing, TypeOK, PlaceOK, Places, UsesImage,
      WaveOK
<1>28. ASSUME NEW i \in Images, TryAlone(i) PROVE Stages'
  BY <1>28
  DEF TryAlone, waveVars, Stages, Sending, Recording, Storing, TypeOK, PlaceOK, Places,
      UsesImage, WaveOK
<1>29. CASE TryAgain
  BY <1>29
  DEF TryAgain, jobVars, waveVars, Stages, Sending, Recording, Storing, TypeOK, PlaceOK,
      Places, UsesImage, WaveOK
<1>30. CASE GiveUp
  BY <1>30
  DEF GiveUp, Stages, Sending, Recording, Storing, TypeOK, PlaceOK, Places, UsesImage,
      WaveOK
<1>31. CASE Solo
  BY <1>31
  DEF Solo, Stages, Sending, Recording, Storing, TypeOK, PlaceOK, Places, UsesImage,
      WaveOK
<1>32. CASE Isolated
  BY <1>32
  DEF Isolated, jobVars, waveVars, Stages, Sending, Recording, Storing, TypeOK, PlaceOK,
      Places, UsesImage, WaveOK
<1>33. ASSUME NEW i \in Images, Result(i) PROVE Stages'
  BY <1>33
  DEF Result, Stages, Sending, Recording, Storing, TypeOK, PlaceOK, Places, UsesImage,
      WaveOK
<1>34. CASE Insert
  BY <1>34
  DEF Insert, NoFault, Fault, Mishap, Trouble, Repeat, jobVars, waveVars, Stages,
      Sending, Recording, Storing, TypeOK, PlaceOK, Places, UsesImage, WaveOK
<1>35. CASE Finish
  BY <1>35
  DEF Finish, NoFault, Stored, StoreFails, Fault, Mishap, Trouble, Stages, Sending,
      Recording, Storing, TypeOK, PlaceOK, Places, UsesImage, WaveOK
<1>36. CASE Classify
  BY <1>36
  DEF Classify, NoFault, Repeat, Fault, Mishap, Trouble, Stored, StoreFails, Stages,
      Sending, Recording, Storing, TypeOK, PlaceOK, Places, UsesImage, WaveOK
<1>37. CASE Confirm
  BY <1>37
  DEF Confirm, NoFault, Repeat, Fault, Mishap, Trouble, StoreFails, jobVars, waveVars,
      Stages, Sending, Recording, Storing, TypeOK, PlaceOK, Places, UsesImage, WaveOK
<1>38. CASE Mark
  BY <1>38
  DEF Mark, NoFault, Stored, StoreFails, Fault, Mishap, Trouble, Stages, Sending,
      Recording, Storing, TypeOK, PlaceOK, Places, UsesImage, WaveOK
<1>39. CASE StoreError
  BY <1>39
  DEF StoreError, Stages, Sending, Recording, Storing, TypeOK, PlaceOK, Places,
      UsesImage, WaveOK
<1>40. CASE Recorded
  BY <1>40
  DEF Recorded, Stages, Sending, Recording, Storing, TypeOK, PlaceOK, Places, UsesImage,
      WaveOK
<1>41. CASE Flag
  BY <1>41
  DEF Flag, NoFault, Fault, Mishap, Trouble, Stages, Sending, Recording, Storing,
      TypeOK, PlaceOK, Places, UsesImage, WaveOK
<1>42. CASE Filter
  BY <1>42
  DEF Filter, StillActive, NoFault, Fault, Mishap, Trouble, jobVars, waveVars, Stages,
      Sending, Recording, Storing, TypeOK, PlaceOK, Places, UsesImage, WaveOK
<1>43. CASE Verdict
  BY <1>43
  DEF Verdict, jobVars, waveVars, Stages, Sending, Recording, Storing, TypeOK, PlaceOK,
      Places, UsesImage, WaveOK
<1>44. CASE Complete
  BY <1>44
  DEF Complete, jobVars, waveVars, Stages, Sending, Recording, Storing, TypeOK, PlaceOK,
      Places, UsesImage, WaveOK
<1>45. CASE Raises
  BY <1>45
  DEF Raises, Fault, Mishap, Trouble, EndJob, Stages, Sending, Recording, Storing,
      TypeOK, PlaceOK, Places, UsesImage, WaveOK
<1>46. CASE Restart
  BY <1>46
  DEF Restart, NewProcess, jobVars, waveVars, Stages, Sending, Recording, Storing,
      TypeOK, PlaceOK, Places, UsesImage, WaveOK
<1>47. CASE Stop
  BY <1>47
  DEF Stop, Mishap, Trouble, jobVars, waveVars, Stages, Sending, Recording, Storing,
      TypeOK, PlaceOK, Places, UsesImage, WaveOK
<1>48. CASE Crash
  BY <1>48
  DEF Crash, Mishap, Trouble, EndJob, NewProcess, Stages, Sending, Recording, Storing,
      TypeOK, PlaceOK, Places, UsesImage, WaveOK
<1>49. ASSUME NEW s \in {"active", "paused", "completed"}, SaveSettings(s) PROVE Stages'
  BY <1>49
  DEF SaveSettings, Mishap, Trouble, jobVars, waveVars, Stages, Sending, Recording,
      Storing, TypeOK, PlaceOK, Places, UsesImage, WaveOK
<1>50. CASE ServiceBreaks
  BY <1>50
  DEF ServiceBreaks, Trouble, jobVars, waveVars, Stages, Sending, Recording, Storing,
      TypeOK, PlaceOK, Places, UsesImage, WaveOK
<1>51. CASE ServiceRecovers
  BY <1>51
  DEF ServiceRecovers, jobVars, waveVars, Stages, Sending, Recording, Storing, TypeOK,
      PlaceOK, Places, UsesImage, WaveOK
<1>52. CASE CommonsBreaks
  BY <1>52
  DEF CommonsBreaks, Trouble, jobVars, waveVars, Stages, Sending, Recording, Storing,
      TypeOK, PlaceOK, Places, UsesImage, WaveOK
<1>53. CASE CommonsRecovers
  BY <1>53
  DEF CommonsRecovers, jobVars, waveVars, Stages, Sending, Recording, Storing, TypeOK,
      PlaceOK, Places, UsesImage, WaveOK
<1>54. CASE ForgetOutage
  BY <1>54
  DEF ForgetOutage, jobVars, waveVars, Stages, Sending, Recording, Storing, TypeOK,
      PlaceOK, Places, UsesImage, WaveOK
<1>55. CASE ForgetCanary
  BY <1>55
  DEF ForgetCanary, jobVars, waveVars, Stages, Sending, Recording, Storing, TypeOK,
      PlaceOK, Places, UsesImage, WaveOK
<1> QED
  BY <1>1, <1>2, <1>3, <1>4, <1>5, <1>6, <1>7, <1>8, <1>9, <1>10, <1>11, <1>12, <1>13,
     <1>14, <1>15, <1>16, <1>17, <1>18, <1>19, <1>20, <1>21, <1>22, <1>23, <1>24, <1>25,
     <1>26, <1>27, <1>28, <1>29, <1>30, <1>31, <1>32, <1>33, <1>34, <1>35, <1>36, <1>37,
     <1>38, <1>39, <1>40, <1>41, <1>42, <1>43, <1>44, <1>45, <1>46, <1>47, <1>48, <1>49,
     <1>50, <1>51, <1>52, <1>53, <1>54, <1>55
  DEF Next, Work

LEMMA StagesStutter == Stages /\ UNCHANGED vars => Stages'
  BY DEF vars, jobVars, waveVars, Stages


\* The images whose answer is on its way.
InFlight == wave \union got \union alone \union {i \in Images : out[i] # "none"}
\* An image whose faces were not stored, or only by runs that were cut short.
Fresh(i) == rows[i] <= FacesIn[i] * (cuts + repeats)

\* Until its faces are stored an image is fresh, and no batch holds an image
\* whose answer is on its way: the images of a batch are sent once.
StoredInv ==
    /\ \A i \in Images :
          /\ rows[i] <= FacesIn[i] * (cuts + repeats) + FacesIn[i]
          /\ status[i] = "processed" \/ (at = "finish" /\ i = image) => rows[i] >= FacesIn[i]
          /\ status[i] \in {"absent", "pending"} => Fresh(i) \/ (at = "finish" /\ i = image)
          /\ i \in batch => Fresh(i)
          /\ i \in InFlight => Fresh(i) \/ (at \in Recording /\ i = image)
    /\ batch \intersect InFlight = {}

\* What a statement that is sent twice, or a cut, allows in excess.
LEMMA Allows ==
    ASSUME NEW a \in Nat, NEW c \in Nat, NEW d \in Nat, NEW r \in Nat, NEW s \in Nat,
           c <= d, r <= s
    PROVE  /\ a * (c + r) <= a * (d + s)
           /\ d = c + 1 \/ s = r + 1 => a * (c + r) + a <= a * (d + s)
           /\ a * (c + r) \in Nat /\ a * (d + s) \in Nat
<1> DEFINE m == c + r
           n == d + s
<1>1. /\ m \in Nat /\ n \in Nat /\ m <= n
      /\ d = c + 1 \/ s = r + 1 => m + 1 <= n
  OBVIOUS
<1> HIDE DEF m, n
<1>2. a * m <= a * n
  BY <1>1, TimesGrows
<1>3. m + 1 <= n => a * m + a <= a * n
  <2>1. m + 1 <= n => a * (m + 1) <= a * n
    BY <1>1, TimesGrows
  <2> QED
    BY <1>1, <2>1, TimesOneMore
<1>4. a * m \in Nat /\ a * n \in Nat
  BY <1>1
<1> QED
  BY <1>1, <1>2, <1>3, <1>4 DEF m, n

LEMMA FreshGrows ==
    ASSUME TypeOK, cuts' \in Nat, repeats' \in Nat, cuts <= cuts', repeats <= repeats',
           NEW i \in Images
    PROVE  /\ FacesIn[i] * (cuts + repeats) <= FacesIn[i] * (cuts' + repeats')
           /\ cuts' = cuts + 1 \/ repeats' = repeats + 1 =>
                 FacesIn[i] * (cuts + repeats) + FacesIn[i] <= FacesIn[i] * (cuts' + repeats')
           /\ FacesIn[i] \in Nat /\ FacesIn[i] * (cuts + repeats) \in Nat
           /\ FacesIn[i] * (cuts' + repeats') \in Nat
<1>1. FacesIn[i] \in Nat /\ cuts \in Nat /\ repeats \in Nat
  BY SizesAssumption DEF TypeOK, HistoryOK
<1> QED
  BY <1>1, Allows

\* Steps that store no face and put no image aside keep it.
Waiting == {"absent", "pending"}
LEMMA StoredFrame ==
    ASSUME TypeOK, StoredInv, UNCHANGED rows,
           cuts' \in Nat, repeats' \in Nat, cuts <= cuts', repeats <= repeats',
           \A i \in Images : /\ status'[i] = "processed" => status[i] = "processed"
                             /\ status'[i] \in Waiting => status[i] \in Waiting,
           batch' \subseteq batch, InFlight' \subseteq InFlight \union batch,
           batch' \intersect InFlight' = {},
           \/ at \notin Recording /\ at' \notin Recording
           \/ UNCHANGED <<at, image>>
    PROVE  StoredInv'
<1>1. ASSUME NEW i \in Images
      PROVE  /\ rows'[i] <= FacesIn[i] * (cuts' + repeats') + FacesIn[i]
             /\ Fresh(i) => Fresh(i)'
  <2>1. /\ rows[i] \in Nat /\ FacesIn[i] \in Nat
        /\ FacesIn[i] * (cuts + repeats) <= FacesIn[i] * (cuts' + repeats')
        /\ FacesIn[i] * (cuts + repeats) \in Nat /\ FacesIn[i] * (cuts' + repeats') \in Nat
    BY FreshGrows DEF TypeOK, FacesOK
  <2>2. rows[i] <= FacesIn[i] * (cuts + repeats) + FacesIn[i]
    BY DEF StoredInv
  <2> QED
    BY <2>1, <2>2 DEF Fresh
<1>2. ASSUME NEW i \in Images
      PROVE  /\ status'[i] = "processed" \/ (at' = "finish" /\ i = image') =>
                   rows'[i] >= FacesIn[i]
             /\ status'[i] \in {"absent", "pending"} => Fresh(i)' \/ (at' = "finish" /\ i = image')
             /\ i \in batch' => Fresh(i)'
             /\ i \in InFlight' => Fresh(i)' \/ (at' \in Recording /\ i = image')
  BY <1>1 DEF StoredInv, Recording, Waiting
<1> QED
  BY <1>1, <1>2 DEF StoredInv

\* A step that records the faces of one image.
LEMMA RecordingKeeps ==
    ASSUME TypeOK, StoredInv,
           cuts' \in Nat, repeats' \in Nat, cuts <= cuts', repeats <= repeats',
           NEW j \in Images, j = image, j \notin batch, image' \in {j, NoImage},
           batch' = batch, InFlight' \subseteq InFlight,
           \A i \in Images \ {j} : rows'[i] = rows[i] /\ status'[i] = status[i],
           rows'[j] <= FacesIn[j] * (cuts' + repeats') + FacesIn[j],
           status'[j] = "processed" \/ at' = "finish" => rows'[j] >= FacesIn[j],
           status'[j] \in Waiting => Fresh(j)' \/ (at' = "finish" /\ j = image'),
           j \in InFlight' => Fresh(j)' \/ (at' \in Recording /\ j = image')
    PROVE  StoredInv'
<1>1. ASSUME NEW i \in Images \ {j}
      PROVE  /\ rows'[i] <= FacesIn[i] * (cuts' + repeats') + FacesIn[i]
             /\ Fresh(i) => Fresh(i)'
  <2>1. /\ rows[i] \in Nat /\ FacesIn[i] \in Nat
        /\ FacesIn[i] * (cuts + repeats) <= FacesIn[i] * (cuts' + repeats')
        /\ FacesIn[i] * (cuts + repeats) \in Nat /\ FacesIn[i] * (cuts' + repeats') \in Nat
    BY FreshGrows DEF TypeOK, FacesOK
  <2>2. rows[i] <= FacesIn[i] * (cuts + repeats) + FacesIn[i]
    BY DEF StoredInv
  <2> QED
    BY <2>1, <2>2 DEF Fresh
<1>2. ASSUME NEW i \in Images \ {j}
      PROVE  /\ status'[i] = "processed" \/ (at' = "finish" /\ i = image') =>
                   rows'[i] >= FacesIn[i]
             /\ status'[i] \in {"absent", "pending"} => Fresh(i)' \/ (at' = "finish" /\ i = image')
             /\ i \in batch' => Fresh(i)'
             /\ i \in InFlight' => Fresh(i)' \/ (at' \in Recording /\ i = image')
  BY <1>1, ImagesAssumption DEF StoredInv
<1>3. batch' \intersect InFlight' = {}
  BY DEF StoredInv
<1> QED
  BY <1>1, <1>2, <1>3 DEF StoredInv, Waiting

LEMMA StepStored ==
    ASSUME TypeOK, Stages, StoredInv, Next, TypeOK'
    PROVE  StoredInv'
<1> USE DEF Waiting
<1>1. CASE Claim
  BY <1>1, StoredFrame
  DEF Claim, tableVars, faceVars, jobVars, waveVars, history, faultVars, Stages,
      StoredInv, InFlight, Sending, Recording, Storing, TypeOK, PlaceOK, WaveOK,
      HistoryOK, TablesOK
<1>2. CASE Begin
  BY <1>2, StoredFrame
  DEF Begin, StillActive, NoFault, Fault, Mishap, Trouble, tableVars, faceVars,
      waveVars, faultVars, Stages, StoredInv, InFlight, Sending, Recording, Storing,
      TypeOK, PlaceOK, WaveOK, HistoryOK, TablesOK
<1>3. CASE CrawlPage
  BY <1>3, StoredFrame
  DEF CrawlPage, faceVars, waveVars, history, faultVars, Stages, StoredInv, InFlight,
      Sending, Recording, Storing, TypeOK, PlaceOK, WaveOK, HistoryOK, TablesOK
<1>4. CASE CrawlFails
  BY <1>4, StoredFrame
  DEF CrawlFails, NoFault, Fault, Mishap, Trouble, tableVars, faceVars, waveVars,
      faultVars, Stages, StoredInv, InFlight, Sending, Recording, Storing, TypeOK,
      PlaceOK, WaveOK, HistoryOK, TablesOK
<1>5. CASE CrawlEnds
  BY <1>5, StoredFrame
  DEF CrawlEnds, tableVars, faceVars, waveVars, history, faultVars, Stages, StoredInv,
      InFlight, Sending, Recording, Storing, TypeOK, PlaceOK, WaveOK, HistoryOK,
      TablesOK
<1>6. CASE BetweenStages
  BY <1>6, StoredFrame
  DEF BetweenStages, StillActive, NoFault, Fault, Mishap, Trouble, tableVars, faceVars,
      waveVars, faultVars, Stages, StoredInv, InFlight, Sending, Recording, Storing,
      TypeOK, PlaceOK, WaveOK, HistoryOK, TablesOK
<1>7. ASSUME NEW i \in Images, Found(i) PROVE StoredInv'
  BY <1>7, StoredFrame
  DEF Found, faceVars, waveVars, history, faultVars, Stages, StoredInv, InFlight,
      Sending, Recording, Storing, TypeOK, PlaceOK, WaveOK, HistoryOK, TablesOK
<1>8. CASE Reconcile
  BY <1>8, StoredFrame
  DEF Reconcile, tableVars, jobVars, waveVars, history, faultVars, Stages, StoredInv,
      InFlight, Sending, Recording, Storing, TypeOK, PlaceOK, WaveOK, HistoryOK,
      TablesOK
<1>9. CASE Adopt
  BY <1>9, StoredFrame
  DEF Adopt, NoFault, Repeat, Fault, Mishap, Trouble, tableVars, faultVars, jobVars,
      waveVars, Stages, StoredInv, InFlight, Sending, Recording, Storing, TypeOK,
      PlaceOK, WaveOK, HistoryOK, TablesOK
<1>10. CASE Adopted
  BY <1>10, StoredFrame
  DEF Adopted, NoFault, Repeat, Fault, Mishap, Trouble, tableVars, faceVars, faultVars,
      jobVars, waveVars, Stages, StoredInv, InFlight, Sending, Recording, Storing,
      TypeOK, PlaceOK, WaveOK, HistoryOK, TablesOK
<1>11. CASE SearchFails
  BY <1>11, StoredFrame
  DEF SearchFails, NoFault, Fault, Mishap, Trouble, tableVars, faceVars, waveVars,
      faultVars, Stages, StoredInv, InFlight, Sending, Recording, Storing, TypeOK,
      PlaceOK, WaveOK, HistoryOK, TablesOK
<1>12. CASE SearchEnds
  BY <1>12, StoredFrame
  DEF SearchEnds, tableVars, faceVars, waveVars, history, faultVars, Stages, StoredInv,
      InFlight, Sending, Recording, Storing, TypeOK, PlaceOK, WaveOK, HistoryOK,
      TablesOK
<1>13. CASE Count
  BY <1>13, StoredFrame
  DEF Count, NoFault, Fault, Mishap, Trouble, tableVars, faceVars, waveVars, faultVars,
      Stages, StoredInv, InFlight, Sending, Recording, Storing, TypeOK, PlaceOK, WaveOK,
      HistoryOK, TablesOK
<1>14. CASE Pick
  <2>1. batch' \subseteq Pending /\ wave' = {} /\ got' = {} /\ alone' = {} /\ out' = NoReplies
    BY <1>14 DEF Pick, NewBatch, Limit, Stages, Sending, Recording, Storing, waveVars
  <2>2. InFlight' = {} /\ at = "pick" /\ at' # "finish"
    BY <1>14, <2>1 DEF InFlight, NoReplies, Pick
  <2>3. UNCHANGED <<status, rows, cuts, repeats>>
    BY <1>14 DEF Pick, tableVars, faceVars, history, faultVars
  <2> QED
    BY <2>1, <2>2, <2>3 DEF StoredInv, Fresh, Pending, Known
<1>15. CASE Skip
  <2>1. /\ UNCHANGED <<rows, cuts, repeats, batch, wave, got, alone, out>>
        /\ cuts \in Nat /\ repeats \in Nat
        /\ at \notin Recording /\ at' \notin Recording
        /\ \A i \in Images : status'[i] = status[i] \/ status'[i] = "skipped"
    BY <1>15
    DEF Skip, faceVars, jobVars, waveVars, history, faultVars, Recording, TypeOK, HistoryOK
  <2>2. InFlight' = InFlight
    BY <2>1 DEF InFlight
  <2> QED
    BY <2>1, <2>2, StoredFrame DEF StoredInv
<1>16. CASE StartWave
  <2>1. /\ UNCHANGED <<rows, cuts, repeats, status, got, alone, out>> /\ wave = {}
        /\ cuts \in Nat /\ repeats \in Nat /\ at \notin Recording /\ at' \notin Recording
    BY <1>16
    DEF StartWave, Stages, tableVars, faceVars, history, faultVars, Recording, TypeOK,
        HistoryOK
  <2>2. /\ batch' \subseteq batch /\ wave' \subseteq batch /\ batch' \intersect wave' = {}
    BY <1>16, <2>1 DEF StartWave, NextWave
  <2>3. InFlight' \subseteq InFlight \union batch /\ batch' \intersect InFlight' = {}
    BY <2>1, <2>2 DEF InFlight, StoredInv
  <2> QED
    BY <2>1, <2>2, <2>3, StoredFrame
<1>17. CASE Recount
  BY <1>17, StoredFrame
  DEF Recount, tableVars, faceVars, jobVars, waveVars, history, faultVars, Stages,
      StoredInv, InFlight, Sending, Recording, Storing, TypeOK, PlaceOK, WaveOK,
      HistoryOK, TablesOK
<1>18. CASE After
  BY <1>18, StoredFrame
  DEF After, NoFault, Fault, Mishap, Trouble, tableVars, faceVars, waveVars, faultVars,
      Stages, StoredInv, InFlight, Sending, Recording, Storing, TypeOK, PlaceOK, WaveOK,
      HistoryOK, TablesOK
<1>19. CASE BetweenBatches
  BY <1>19, StoredFrame
  DEF BetweenBatches, StillActive, NoFault, Fault, Mishap, Trouble, tableVars, faceVars,
      faultVars, jobVars, waveVars, Stages, StoredInv, InFlight, Sending, Recording,
      Storing, TypeOK, PlaceOK, WaveOK, HistoryOK, TablesOK
<1>20. ASSUME NEW i \in Images, Download(i) PROVE StoredInv'
  BY <1>20, StoredFrame
  DEF Download, NoFault, Fault, Mishap, Trouble, faceVars, faultVars, Stages, StoredInv,
      InFlight, Sending, Recording, Storing, TypeOK, PlaceOK, WaveOK, HistoryOK,
      TablesOK
<1>21. CASE Downloaded
  BY <1>21, StoredFrame
  DEF Downloaded, tableVars, faceVars, history, faultVars, Stages, StoredInv, InFlight,
      Sending, Recording, Storing, TypeOK, PlaceOK, WaveOK, HistoryOK, TablesOK
<1>22. CASE Proof
  BY <1>22, StoredFrame
  DEF Proof, tableVars, faceVars, faultVars, Stages, StoredInv, InFlight, Sending,
      Recording, Storing, TypeOK, PlaceOK, WaveOK, HistoryOK, TablesOK
<1>23. ASSUME NEW i \in Images, Strike(i) PROVE StoredInv'
  BY <1>23, StoredFrame
  DEF Strike, NoFault, Fault, Mishap, Trouble, Repeat, faceVars, waveVars, faultVars,
      Stages, StoredInv, InFlight, Sending, Recording, Storing, TypeOK, PlaceOK, WaveOK,
      HistoryOK, TablesOK
<1>24. CASE Judge
  BY <1>24, StoredFrame
  DEF Judge, NoFault, Fault, Mishap, Trouble, faceVars, waveVars, faultVars, Stages,
      StoredInv, InFlight, Sending, Recording, Storing, TypeOK, PlaceOK, WaveOK,
      HistoryOK, TablesOK
<1>25. CASE Struck
  BY <1>25, StoredFrame
  DEF Struck, tableVars, faceVars, history, faultVars, Stages, StoredInv, InFlight,
      Sending, Recording, Storing, TypeOK, PlaceOK, WaveOK, HistoryOK, TablesOK
<1>26. ASSUME NEW request \in SUBSET got, Send(request) PROVE StoredInv'
  BY <1>26, StoredFrame
  DEF Send, tableVars, faceVars, history, faultVars, Stages, StoredInv, InFlight,
      Sending, Recording, Storing, TypeOK, PlaceOK, WaveOK, HistoryOK, TablesOK, Noted,
      Replies
<1>27. CASE Sent
  BY <1>27, StoredFrame
  DEF Sent, tableVars, faceVars, history, faultVars, Stages, StoredInv, InFlight,
      Sending, Recording, Storing, TypeOK, PlaceOK, WaveOK, HistoryOK, TablesOK
<1>28. ASSUME NEW i \in Images, TryAlone(i) PROVE StoredInv'
  BY <1>28, StoredFrame
  DEF TryAlone, tableVars, faceVars, waveVars, history, faultVars, Stages, StoredInv,
      InFlight, Sending, Recording, Storing, TypeOK, PlaceOK, WaveOK, HistoryOK,
      TablesOK
<1>29. CASE TryAgain
  BY <1>29, StoredFrame
  DEF TryAgain, tableVars, faceVars, jobVars, waveVars, history, faultVars, Stages,
      StoredInv, InFlight, Sending, Recording, Storing, TypeOK, PlaceOK, WaveOK,
      HistoryOK, TablesOK
<1>30. CASE GiveUp
  BY <1>30, StoredFrame
  DEF GiveUp, tableVars, faceVars, faultVars, Stages, StoredInv, InFlight, Sending,
      Recording, Storing, TypeOK, PlaceOK, WaveOK, HistoryOK, TablesOK
<1>31. CASE Solo
  BY <1>31, StoredFrame
  DEF Solo, tableVars, faceVars, history, faultVars, Stages, StoredInv, InFlight,
      Sending, Recording, Storing, TypeOK, PlaceOK, WaveOK, HistoryOK, TablesOK, Noted,
      Replies
<1>32. CASE Isolated
  BY <1>32, StoredFrame
  DEF Isolated, tableVars, faceVars, jobVars, waveVars, history, faultVars, Stages,
      StoredInv, InFlight, Sending, Recording, Storing, TypeOK, PlaceOK, WaveOK,
      HistoryOK, TablesOK
<1>33. ASSUME NEW i \in Images, Result(i) PROVE StoredInv'
  <2>1. /\ UNCHANGED <<rows, cuts, repeats, batch, wave, got, alone>> /\ at = "results"
        /\ i \in InFlight /\ i \notin batch /\ cuts \in Nat /\ repeats \in Nat
    BY <1>33 DEF Result, StoredInv, InFlight, faceVars, history, faultVars, TypeOK, HistoryOK
  <2>2. CASE i \in blamed
    <3>1. at' = "strike" /\ UNCHANGED <<status, out>>
      BY <1>33, <2>2 DEF Result
    <3>2. InFlight' = InFlight
      BY <2>1, <3>1 DEF InFlight
    <3> QED
      BY <2>1, <3>1, <3>2, StoredFrame DEF StoredInv, Recording
  <2>3. CASE i \notin blamed /\ out[i] = "faces"
    <3>1. /\ at' = (IF FacesIn[i] > 0 THEN "insert" ELSE "finish")
          /\ image' = i /\ UNCHANGED <<status, out>>
      BY <1>33, <2>3 DEF Result
    <3>2. InFlight' = InFlight
      BY <2>1, <3>1 DEF InFlight
    <3>3. CASE FacesIn[i] > 0
      BY <2>1, <3>1, <3>2, <3>3, StoredFrame DEF StoredInv, Recording
    <3>4. CASE ~(FacesIn[i] > 0)
      <4>1. \A j \in Images : Fresh(j)' = Fresh(j)
        BY <2>1 DEF Fresh
      <4>2. FacesIn[i] = 0 /\ rows[i] \in Nat
        BY <3>4, SizesAssumption DEF TypeOK, FacesOK
      <4> QED
        BY <2>1, <3>1, <3>2, <3>4, <4>1, <4>2 DEF StoredInv, Recording
    <3> QED
      BY <3>3, <3>4
  <2>4. CASE i \notin blamed /\ out[i] # "faces"
    <3>1. /\ at' = at
          /\ status' = IF out[i] = "refused" THEN [status EXCEPT ![i] = "error"] ELSE status
          /\ out' = [out EXCEPT ![i] = "none"]
      BY <1>33, <2>4 DEF Result
    <3>2. /\ \A j \in Images : /\ status'[j] = "processed" => status[j] = "processed"
                               /\ status'[j] \in Waiting => status[j] \in Waiting
          /\ InFlight' \subseteq InFlight
      BY <2>1, <3>1 DEF InFlight, TypeOK, TablesOK, WaveOK
    <3> QED
      BY <2>1, <3>1, <3>2, StoredFrame DEF StoredInv, Recording
  <2> QED
    BY <2>2, <2>3, <2>4
<1>34. CASE Insert
  <2> PICK j \in Images : j = image
    BY <1>34 DEF Insert, TypeOK, PlaceOK, UsesImage
  <2>1. /\ j \in InFlight /\ j \notin batch /\ UNCHANGED <<batch, wave, got, alone>>
        /\ wave = {} /\ got = {} /\ alone = {}
        /\ cuts \in Nat /\ repeats \in Nat /\ rows[j] \in Nat /\ out \in [Images -> Outcomes]
    BY <1>34 DEF Insert, Stages, Sending, Storing, Recording, StoredInv, InFlight,
       TypeOK, HistoryOK, FacesOK, WaveOK, jobVars, waveVars
  <2>2. /\ Fresh(j) /\ FacesIn[j] \in Nat /\ rows \in [Images -> Nat]
        /\ UNCHANGED <<status, out, image>>
    BY <1>34, <2>1, SizesAssumption
    DEF Insert, StoredInv, Recording, tableVars, jobVars, waveVars, TypeOK, FacesOK
  <2>3. CASE at' = "storeError"
    <3>1. UNCHANGED <<rows, cuts, repeats>> /\ InFlight' = InFlight
      BY <1>34, <2>1, <2>2, <2>3 DEF Insert, InFlight
    <3> QED
      BY <1>34, <2>1, <2>2, <2>3, <3>1, StoredFrame DEF Insert, Recording, StoredInv
  <2>4. CASE at' = "finish"
    <3>1. /\ InFlight' = InFlight
          /\ \A i \in Images \ {j} : rows'[i] = rows[i] /\ status'[i] = status[i]
          /\ \/ rows'[j] = rows[j] + FacesIn[j] /\ UNCHANGED <<cuts, repeats>>
             \/ rows'[j] = rows[j] + 2 * FacesIn[j] /\ repeats' = repeats + 1 /\ cuts' = cuts
      BY <1>34, <2>1, <2>2, <2>4 DEF Insert, InFlight, NoFault, Repeat, Fault, faultVars
    <3>2. /\ FacesIn[j] * (cuts + repeats) \in Nat /\ FacesIn[j] * (cuts' + repeats') \in Nat
          /\ cuts' \in Nat /\ repeats' \in Nat /\ cuts <= cuts' /\ repeats <= repeats'
          /\ \/ FacesIn[j] * (cuts' + repeats') = FacesIn[j] * (cuts + repeats)
                /\ rows'[j] = rows[j] + FacesIn[j]
             \/ FacesIn[j] * (cuts + repeats) + FacesIn[j] <= FacesIn[j] * (cuts' + repeats')
                /\ rows'[j] = rows[j] + 2 * FacesIn[j]
      BY <2>1, <3>1, FreshGrows
    <3>3. /\ rows'[j] <= FacesIn[j] * (cuts' + repeats') + FacesIn[j]
          /\ rows'[j] >= FacesIn[j]
      BY <2>1, <2>2, <3>2 DEF Fresh
    <3> QED
      BY <2>1, <2>2, <2>4, <3>1, <3>2, <3>3, RecordingKeeps DEF Recording
  <2> QED
    BY <1>34, <2>3, <2>4 DEF Insert
<1>35. CASE Finish
  <2> PICK j \in Images : j = image
    BY <1>35 DEF Finish, TypeOK, PlaceOK, UsesImage
  <2>1. /\ j \in InFlight /\ j \notin batch /\ UNCHANGED <<batch, wave, got, alone>>
        /\ wave = {} /\ got = {} /\ alone = {}
        /\ cuts \in Nat /\ repeats \in Nat /\ rows[j] \in Nat /\ out \in [Images -> Outcomes]
    BY <1>35 DEF Finish, Stages, Sending, Storing, Recording, StoredInv, InFlight,
       TypeOK, HistoryOK, FacesOK, WaveOK, jobVars, waveVars
  <2>2. rows[j] <= FacesIn[j] * (cuts + repeats) + FacesIn[j] /\ UNCHANGED rows
    BY <1>35, <2>1 DEF StoredInv, Finish, faceVars
  <2>3. CASE StoreFails
    <3>1. /\ at' = "storeError" /\ cuts' = cuts + 1 /\ repeats' = repeats
          /\ UNCHANGED <<status, out, image>> /\ InFlight' = InFlight
      BY <1>35, <2>1, <2>3 DEF Finish, StoreFails, InFlight, tableVars, jobVars, waveVars, Stored
    <3>2. Fresh(j)' /\ rows'[j] <= FacesIn[j] * (cuts' + repeats') + FacesIn[j]
      BY <2>1, <2>2, <3>1, FreshGrows DEF Fresh
    <3> QED
      BY <2>1, <2>2, <3>1, <3>2, RecordingKeeps DEF StoredInv
  <2>4. CASE status' = [status EXCEPT ![image] = "processed"] /\ NoFault
    <3>1. /\ UNCHANGED <<cuts, repeats>> /\ rows[j] >= FacesIn[j]
          /\ status'[j] = "processed" /\ \A i \in Images \ {j} : status'[i] = status[i]
      BY <1>35, <2>4 DEF Finish, NoFault, faultVars, StoredInv, TypeOK, TablesOK
    <3>4. /\ image' \in {j, NoImage} /\ at' # "finish"
          /\ (at' \in Recording /\ image' = j) \/ out'[j] = "none"
      <4>1. CASE boot[image] /\ FacesIn[image] = 1
        <5>1. at' = "classify" /\ image' = image
          BY <1>35, <2>4, <4>1 DEF Finish, StoreFails, NoFault, Fault, faultVars, TypeOK, HistoryOK
        <5> QED
          BY <5>1 DEF Recording
      <4>2. CASE ~(boot[image] /\ FacesIn[image] = 1)
        <5>1. Stored
          BY <1>35, <2>4, <4>2 DEF Finish, StoreFails, NoFault, Fault, faultVars, TypeOK, HistoryOK
        <5> QED
          BY <2>1, <5>1 DEF Stored
      <4> QED
        BY <4>1, <4>2
    <3>2. InFlight' \subseteq InFlight /\ (j \in InFlight' => at' \in Recording /\ image' = j)
      BY <1>35, <2>1, <2>4, <3>4 DEF Finish, Stored, InFlight
    <3> QED
      BY <1>35, <2>1, <2>2, <2>4, <3>1, <3>2, <3>4, RecordingKeeps DEF Finish, Stored, Waiting
  <2> QED
    BY <1>35, <2>3, <2>4 DEF Finish
<1>36. CASE Classify
  <2> PICK j \in Images : j = image
    BY <1>36 DEF Classify, TypeOK, PlaceOK, UsesImage
  <2>1. /\ j \in InFlight /\ j \notin batch /\ UNCHANGED <<batch, wave, got, alone>>
        /\ wave = {} /\ got = {} /\ alone = {}
        /\ cuts \in Nat /\ repeats \in Nat /\ rows[j] \in Nat /\ out \in [Images -> Outcomes]
    BY <1>36 DEF Classify, Stages, Sending, Storing, Recording, StoredInv, InFlight,
       TypeOK, HistoryOK, FacesOK, WaveOK, jobVars, waveVars
  <2>2. rows[j] <= FacesIn[j] * (cuts + repeats) + FacesIn[j] /\ UNCHANGED rows
    BY <1>36, <2>1 DEF StoredInv, Classify, faceVars
  <2>3. CASE StoreFails
    <3>1. /\ at' = "storeError" /\ cuts' = cuts + 1 /\ repeats' = repeats
          /\ UNCHANGED <<status, out, image>> /\ InFlight' = InFlight
      BY <1>36, <2>1, <2>3 DEF Classify, StoreFails, InFlight, tableVars, jobVars, waveVars, Stored
    <3>2. Fresh(j)' /\ rows'[j] <= FacesIn[j] * (cuts' + repeats') + FacesIn[j]
      BY <2>1, <2>2, <3>1, FreshGrows DEF Fresh
    <3> QED
      BY <2>1, <2>2, <3>1, <3>2, RecordingKeeps DEF StoredInv
  <2>4. CASE ~StoreFails
    <3>1. /\ cuts' = cuts /\ repeats' \in Nat /\ repeats <= repeats' /\ status' = status
          /\ image' \in {j, NoImage} /\ at' # "finish"
          /\ (at' \in Recording /\ image' = j) \/ out'[j] = "none"
          /\ InFlight' \subseteq InFlight
      BY <1>36, <2>1, <2>4
      DEF Classify, NoFault, Repeat, Fault, faultVars, Stored, Recording, InFlight, tableVars,
          jobVars, waveVars
    <3>2. j \in InFlight' => at' \in Recording /\ image' = j
      BY <1>36, <2>1, <3>1 DEF Classify, InFlight
    <3>3. /\ rows'[j] <= FacesIn[j] * (cuts' + repeats') + FacesIn[j]
          /\ Fresh(j) => Fresh(j)'
      BY <2>1, <2>2, <3>1, FreshGrows DEF Fresh
    <3>4. /\ status[j] = "processed" => rows[j] >= FacesIn[j]
          /\ status[j] \in Waiting => Fresh(j)
      BY <1>36 DEF Classify, StoredInv
    <3> QED
      BY <2>1, <2>2, <3>1, <3>2, <3>3, <3>4, RecordingKeeps
  <2> QED
    BY <2>3, <2>4
<1>37. CASE Confirm
  <2> PICK j \in Images : j = image
    BY <1>37 DEF Confirm, TypeOK, PlaceOK, UsesImage
  <2>1. /\ j \in InFlight /\ j \notin batch /\ UNCHANGED <<batch, wave, got, alone>>
        /\ wave = {} /\ got = {} /\ alone = {}
        /\ cuts \in Nat /\ repeats \in Nat /\ rows[j] \in Nat /\ out \in [Images -> Outcomes]
    BY <1>37 DEF Confirm, Stages, Sending, Storing, Recording, StoredInv, InFlight,
       TypeOK, HistoryOK, FacesOK, WaveOK, jobVars, waveVars
  <2>2. rows[j] <= FacesIn[j] * (cuts + repeats) + FacesIn[j] /\ UNCHANGED rows
    BY <1>37, <2>1 DEF StoredInv, Confirm, faceVars
  <2>3. CASE StoreFails
    <3>1. /\ at' = "storeError" /\ cuts' = cuts + 1 /\ repeats' = repeats
          /\ UNCHANGED <<status, out, image>> /\ InFlight' = InFlight
      BY <1>37, <2>1, <2>3 DEF Confirm, StoreFails, InFlight, tableVars, jobVars, waveVars, Stored
    <3>2. Fresh(j)' /\ rows'[j] <= FacesIn[j] * (cuts' + repeats') + FacesIn[j]
      BY <2>1, <2>2, <3>1, FreshGrows DEF Fresh
    <3> QED
      BY <2>1, <2>2, <3>1, <3>2, RecordingKeeps DEF StoredInv
  <2>4. CASE ~StoreFails
    <3>1. /\ cuts' = cuts /\ repeats' \in Nat /\ repeats <= repeats' /\ status' = status
          /\ image' \in {j, NoImage} /\ at' # "finish"
          /\ (at' \in Recording /\ image' = j) \/ out'[j] = "none"
          /\ InFlight' \subseteq InFlight
      BY <1>37, <2>1, <2>4
      DEF Confirm, NoFault, Repeat, Fault, faultVars, Stored, Recording, InFlight, tableVars,
          jobVars, waveVars
    <3>2. j \in InFlight' => at' \in Recording /\ image' = j
      BY <1>37, <2>1, <3>1 DEF Confirm, InFlight
    <3>3. /\ rows'[j] <= FacesIn[j] * (cuts' + repeats') + FacesIn[j]
          /\ Fresh(j) => Fresh(j)'
      BY <2>1, <2>2, <3>1, FreshGrows DEF Fresh
    <3>4. /\ status[j] = "processed" => rows[j] >= FacesIn[j]
          /\ status[j] \in Waiting => Fresh(j)
      BY <1>37 DEF Confirm, StoredInv
    <3> QED
      BY <2>1, <2>2, <3>1, <3>2, <3>3, <3>4, RecordingKeeps
  <2> QED
    BY <2>3, <2>4
<1>38. CASE Mark
  <2> PICK j \in Images : j = image
    BY <1>38 DEF Mark, TypeOK, PlaceOK, UsesImage
  <2>1. /\ j \in InFlight /\ j \notin batch /\ UNCHANGED <<batch, wave, got, alone>>
        /\ wave = {} /\ got = {} /\ alone = {}
        /\ cuts \in Nat /\ repeats \in Nat /\ rows[j] \in Nat /\ out \in [Images -> Outcomes]
    BY <1>38 DEF Mark, Stages, Sending, Storing, Recording, StoredInv, InFlight,
       TypeOK, HistoryOK, FacesOK, WaveOK, jobVars, waveVars
  <2>2. rows[j] <= FacesIn[j] * (cuts + repeats) + FacesIn[j] /\ UNCHANGED rows
    BY <1>38, <2>1 DEF StoredInv, Mark, faceVars
  <2>3. CASE StoreFails
    <3>1. /\ at' = "storeError" /\ cuts' = cuts + 1 /\ repeats' = repeats
          /\ UNCHANGED <<status, out, image>> /\ InFlight' = InFlight
      BY <1>38, <2>1, <2>3 DEF Mark, StoreFails, InFlight, tableVars, jobVars, waveVars, Stored
    <3>2. Fresh(j)' /\ rows'[j] <= FacesIn[j] * (cuts' + repeats') + FacesIn[j]
      BY <2>1, <2>2, <3>1, FreshGrows DEF Fresh
    <3> QED
      BY <2>1, <2>2, <3>1, <3>2, RecordingKeeps DEF StoredInv
  <2>4. CASE ~StoreFails
    <3>1. /\ cuts' = cuts /\ repeats' \in Nat /\ repeats <= repeats' /\ status' = status
          /\ image' \in {j, NoImage} /\ at' # "finish"
          /\ (at' \in Recording /\ image' = j) \/ out'[j] = "none"
          /\ InFlight' \subseteq InFlight
      BY <1>38, <2>1, <2>4
      DEF Mark, NoFault, Repeat, Fault, faultVars, Stored, Recording, InFlight, tableVars,
          jobVars, waveVars
    <3>2. j \in InFlight' => at' \in Recording /\ image' = j
      BY <1>38, <2>1, <3>1 DEF Mark, InFlight
    <3>3. /\ rows'[j] <= FacesIn[j] * (cuts' + repeats') + FacesIn[j]
          /\ Fresh(j) => Fresh(j)'
      BY <2>1, <2>2, <3>1, FreshGrows DEF Fresh
    <3>4. /\ status[j] = "processed" => rows[j] >= FacesIn[j]
          /\ status[j] \in Waiting => Fresh(j)
      BY <1>38 DEF Mark, StoredInv
    <3> QED
      BY <2>1, <2>2, <3>1, <3>2, <3>3, <3>4, RecordingKeeps
  <2> QED
    BY <2>3, <2>4
<1>39. CASE StoreError
  BY <1>39, StoredFrame
  DEF StoreError, faceVars, history, faultVars, Stages, StoredInv, InFlight, Sending,
      Recording, Storing, TypeOK, PlaceOK, WaveOK, HistoryOK, TablesOK
<1>40. CASE Recorded
  BY <1>40, StoredFrame
  DEF Recorded, tableVars, faceVars, history, faultVars, Stages, StoredInv, InFlight,
      Sending, Recording, Storing, TypeOK, PlaceOK, WaveOK, HistoryOK, TablesOK,
      NoReplies
<1>41. CASE Flag
  BY <1>41, StoredFrame
  DEF Flag, NoFault, Fault, Mishap, Trouble, faceVars, faultVars, Stages, StoredInv,
      InFlight, Sending, Recording, Storing, TypeOK, PlaceOK, WaveOK, HistoryOK,
      TablesOK
<1>42. CASE Filter
  BY <1>42, StoredFrame
  DEF Filter, StillActive, NoFault, Fault, Mishap, Trouble, tableVars, faceVars,
      faultVars, jobVars, waveVars, Stages, StoredInv, InFlight, Sending, Recording,
      Storing, TypeOK, PlaceOK, WaveOK, HistoryOK, TablesOK
<1>43. CASE Verdict
  BY <1>43, StoredFrame
  DEF Verdict, tableVars, faceVars, jobVars, waveVars, history, faultVars, Stages,
      StoredInv, InFlight, Sending, Recording, Storing, TypeOK, PlaceOK, WaveOK,
      HistoryOK, TablesOK
<1>44. CASE Complete
  BY <1>44, StoredFrame
  DEF Complete, tableVars, faceVars, jobVars, waveVars, history, faultVars, Stages,
      StoredInv, InFlight, Sending, Recording, Storing, TypeOK, PlaceOK, WaveOK,
      HistoryOK, TablesOK
<1>45. CASE Raises
  BY <1>45, StoredFrame
  DEF Raises, Fault, Mishap, Trouble, EndJob, tableVars, faceVars, Stages, StoredInv,
      InFlight, Sending, Recording, Storing, TypeOK, PlaceOK, WaveOK, HistoryOK,
      TablesOK, NoReplies
<1>46. CASE Restart
  BY <1>46, StoredFrame
  DEF Restart, NewProcess, tableVars, faceVars, jobVars, waveVars, history, faultVars,
      Stages, StoredInv, InFlight, Sending, Recording, Storing, TypeOK, PlaceOK, WaveOK,
      HistoryOK, TablesOK
<1>47. CASE Stop
  BY <1>47, StoredFrame
  DEF Stop, Mishap, Trouble, tableVars, faceVars, faultVars, jobVars, waveVars, Stages,
      StoredInv, InFlight, Sending, Recording, Storing, TypeOK, PlaceOK, WaveOK,
      HistoryOK, TablesOK
<1>48. CASE Crash
  <2>1. /\ cuts \in Nat /\ repeats \in Nat /\ UNCHANGED <<rows, repeats, status>>
        /\ cuts' \in Nat /\ cuts <= cuts' /\ (at = "finish" => cuts' = cuts + 1)
        /\ batch' = {} /\ at' = "idle" /\ InFlight' = {}
    BY <1>48
    DEF Crash, EndJob, tableVars, faceVars, HalfStored, TypeOK, HistoryOK, InFlight, NoReplies
  <2>2. CASE at \notin Recording
    BY <2>1, <2>2, StoredFrame DEF Recording
  <2>3. CASE at \in Recording
    <3>1. ASSUME NEW i \in Images
          PROVE  /\ rows[i] <= FacesIn[i] * (cuts' + repeats') + FacesIn[i]
                 /\ Fresh(i) \/ at = "finish" => Fresh(i)'
      <4>1. /\ rows[i] \in Nat /\ FacesIn[i] \in Nat
            /\ FacesIn[i] * (cuts + repeats) <= FacesIn[i] * (cuts' + repeats')
            /\ at = "finish" => FacesIn[i] * (cuts + repeats) + FacesIn[i]
                                  <= FacesIn[i] * (cuts' + repeats')
            /\ FacesIn[i] * (cuts + repeats) \in Nat /\ FacesIn[i] * (cuts' + repeats') \in Nat
        BY <2>1, FreshGrows DEF TypeOK, FacesOK
      <4>2. rows[i] <= FacesIn[i] * (cuts + repeats) + FacesIn[i]
        BY DEF StoredInv
      <4> QED
        BY <2>1, <4>1, <4>2 DEF Fresh
    <3> QED
      BY <2>1, <3>1 DEF StoredInv, Recording
  <2> QED
    BY <2>2, <2>3
<1>49. ASSUME NEW s \in {"active", "paused", "completed"}, SaveSettings(s) PROVE StoredInv'
  <2>1. /\ UNCHANGED <<rows, cuts, repeats, batch, wave, got, alone, out, status, at, image>>
        /\ cuts \in Nat /\ repeats \in Nat
    BY <1>49
    DEF SaveSettings, tableVars, faceVars, jobVars, waveVars, faultVars, TypeOK, HistoryOK
  <2>2. InFlight' = InFlight
    BY <2>1 DEF InFlight
  <2> QED
    BY <2>1, <2>2, StoredFrame DEF StoredInv
<1>50. CASE ServiceBreaks
  <2>1. /\ UNCHANGED <<rows, cuts, repeats, batch, wave, got, alone, out, status, at, image>>
        /\ cuts \in Nat /\ repeats \in Nat
    BY <1>50
    DEF ServiceBreaks, tableVars, faceVars, jobVars, waveVars, faultVars, TypeOK, HistoryOK
  <2>2. InFlight' = InFlight
    BY <2>1 DEF InFlight
  <2> QED
    BY <2>1, <2>2, StoredFrame DEF StoredInv
<1>51. CASE ServiceRecovers
  BY <1>51, StoredFrame
  DEF ServiceRecovers, tableVars, faceVars, jobVars, waveVars, history, faultVars,
      Stages, StoredInv, InFlight, Sending, Recording, Storing, TypeOK, PlaceOK, WaveOK,
      HistoryOK, TablesOK
<1>52. CASE CommonsBreaks
  BY <1>52, StoredFrame
  DEF CommonsBreaks, Trouble, tableVars, faceVars, faultVars, jobVars, waveVars, Stages,
      StoredInv, InFlight, Sending, Recording, Storing, TypeOK, PlaceOK, WaveOK,
      HistoryOK, TablesOK
<1>53. CASE CommonsRecovers
  BY <1>53, StoredFrame
  DEF CommonsRecovers, tableVars, faceVars, jobVars, waveVars, history, faultVars,
      Stages, StoredInv, InFlight, Sending, Recording, Storing, TypeOK, PlaceOK, WaveOK,
      HistoryOK, TablesOK
<1>54. CASE ForgetOutage
  BY <1>54, StoredFrame
  DEF ForgetOutage, tableVars, faceVars, jobVars, waveVars, history, faultVars, Stages,
      StoredInv, InFlight, Sending, Recording, Storing, TypeOK, PlaceOK, WaveOK,
      HistoryOK, TablesOK
<1>55. CASE ForgetCanary
  BY <1>55, StoredFrame
  DEF ForgetCanary, tableVars, faceVars, jobVars, waveVars, history, faultVars, Stages,
      StoredInv, InFlight, Sending, Recording, Storing, TypeOK, PlaceOK, WaveOK,
      HistoryOK, TablesOK
<1> QED
  BY <1>1, <1>2, <1>3, <1>4, <1>5, <1>6, <1>7, <1>8, <1>9, <1>10, <1>11, <1>12, <1>13,
     <1>14, <1>15, <1>16, <1>17, <1>18, <1>19, <1>20, <1>21, <1>22, <1>23, <1>24, <1>25,
     <1>26, <1>27, <1>28, <1>29, <1>30, <1>31, <1>32, <1>33, <1>34, <1>35, <1>36, <1>37,
     <1>38, <1>39, <1>40, <1>41, <1>42, <1>43, <1>44, <1>45, <1>46, <1>47, <1>48, <1>49,
     <1>50, <1>51, <1>52, <1>53, <1>54, <1>55
  DEF Next, Work

LEMMA StoredAlways == Spec => [](TypeOK /\ Stages /\ StoredInv)
<1>1. Init => Stages /\ StoredInv
  <2>1. ASSUME Init PROVE Stages
    BY <2>1 DEF Init, Stages, Sending, Recording, Storing
  <2>2. ASSUME Init PROVE StoredInv
    <3>1. \A i \in Images : FacesIn[i] \in Nat
      BY SizesAssumption
    <3>2. \A i \in Images : FacesIn[i] * (0 + 0) = 0
      BY <3>1
    <3> QED
      BY <2>2, <3>1, <3>2 DEF Init, StoredInv, InFlight, Fresh, NoReplies
  <2> QED
    BY <2>1, <2>2
<1>2. TypeOK /\ Stages /\ [Next]_vars => Stages'
  BY StepStages, StagesStutter
<1>3. TypeOK /\ TypeOK' /\ Stages /\ StoredInv /\ [Next]_vars => StoredInv'
  <2>1. ASSUME TypeOK, StoredInv, UNCHANGED vars PROVE StoredInv'
    BY <2>1
    DEF vars, tableVars, faceVars, jobVars, waveVars, history, faultVars, StoredInv, InFlight,
        Fresh
  <2> QED
    BY <2>1, StepStored
<1> QED
  BY <1>1, <1>2, <1>3, TypeCorrect, PTL DEF Spec

\* The faces of an image are stored once, whatever its neighbours, the service
\* and the worker do: more than once only as often as a run was cut short
\* between storing them and saying so, or a statement was sent twice
\* (worker._persist_detection); and an image that counts as processed has them.
THEOREM FacesOnce == Spec => []FacesAreStoredOnce
<1>1. TypeOK /\ StoredInv => FacesAreStoredOnce
  <2> SUFFICES ASSUME TypeOK, StoredInv, NEW i \in Images
               PROVE  rows[i] <= FacesIn[i] * (1 + cuts + repeats)
    BY DEF StoredInv, FacesAreStoredOnce
  <2>1. /\ FacesIn[i] \in Nat /\ cuts + repeats \in Nat
        /\ 1 + cuts + repeats = (cuts + repeats) + 1
    BY SizesAssumption DEF TypeOK, HistoryOK
  <2>2. FacesIn[i] * ((cuts + repeats) + 1) = FacesIn[i] * (cuts + repeats) + FacesIn[i]
    BY <2>1, TimesOneMore
  <2> QED
    BY <2>1, <2>2 DEF StoredInv
<1> QED
  BY <1>1, StoredAlways, PTL


\* What an image that nothing is wrong with has in store: a strike, or the first
\* half of one, may be given only against an outage that was not used yet.
Owed2(i) ==
    \/ i \in failed /\ commons = "up"
    \/ got # {} /\ commons # "up" /\ at \in {"download", "canary"}
    \/ at \in {"strike", "judge"} /\ i \in todo
    \/ i \in blamed
    \/ at = "soloAgain" /\ image = i /\ service = "down"
Owed1(i) ==
    \/ at \in {"again", "soloAgain"} /\ image = i
    \/ at = "solo" /\ image = i /\ service = "down"
Budget == 4 * commonsOutages + outages + 2 * repeats - (IF commons = "up" THEN 0 ELSE 2)
Spared(i) ==
    /\ 2 * attempts[i] <= Budget
    /\ Owed2(i) => 2 * attempts[i] + 2 <= Budget
    /\ Owed1(i) => 2 * attempts[i] + 1 <= Budget
SparedInv == ~lateProof => \A i \in Images : Innocent(i) => Spared(i)

LEMMA BudgetType == TypeOK => Budget \in Int
  BY BoundsAssumption DEF TypeOK, HistoryOK, Budget

\* Steps that give no strike keep it.
Covered(i, n) ==
    /\ Owed2(i)' => n = 2 \/ Owed2(i) \/ (n = 1 /\ Owed1(i))
    /\ Owed1(i)' => n > 0 \/ Owed1(i)
LEMMA SparedBy ==
    ASSUME TypeOK, SparedInv, UNCHANGED <<world, attempts>>,
           NEW n \in {0, 1, 2}, Budget' = Budget + n,
           ~lateProof' => ~lateProof /\ \A i \in Images : Innocent(i) => Covered(i, n)
    PROVE  SparedInv'
<1> SUFFICES ASSUME ~lateProof', NEW i \in Images, Innocent(i)' PROVE Spared(i)'
  BY DEF SparedInv
<1>1. Spared(i) /\ Covered(i, n)
  BY DEF SparedInv, Innocent, Kind
<1>2. Budget \in Int /\ attempts[i] \in Nat
  BY BudgetType DEF TypeOK, TablesOK
<1> PICK a \in Nat, b \in Int : a = attempts[i] /\ b = Budget
  BY <1>2
<1>3. 2 * a <= b + n
  BY <1>1 DEF Spared
<1>4. Owed2(i)' => 2 * a + 2 <= b + n
  BY <1>1 DEF Spared, Covered
<1>5. Owed1(i)' => 2 * a + 1 <= b + n
  BY <1>1 DEF Spared, Covered
<1> QED
  BY <1>3, <1>4, <1>5 DEF Spared

LEMMA SparedFrame ==
    ASSUME TypeOK, SparedInv,
           UNCHANGED <<world, attempts, commons, commonsOutages, outages>>,
           repeats' = repeats \/ repeats' = repeats + 1,
           ~lateProof' => /\ ~lateProof
                          /\ \A i \in Images : Innocent(i) =>
                                (Owed2(i)' => Owed2(i)) /\ (Owed1(i)' => Owed1(i))
    PROVE  SparedInv'
<1>1. ~lateProof' => ~lateProof /\ \A i \in Images : Innocent(i) => Covered(i, 0) /\ Covered(i, 2)
  BY DEF Covered
<1>2. CASE repeats' = repeats
  <2>1. Budget' = Budget + 0
    BY <1>2, BudgetType DEF Budget
  <2> QED
    BY <1>1, <2>1, SparedBy
<1>3. CASE repeats' = repeats + 1
  <2>1. Budget' = Budget + 2
    BY <1>3 DEF Budget, TypeOK, HistoryOK
  <2> QED
    BY <1>1, <2>1, SparedBy
<1> QED
  BY <1>2, <1>3

LEMMA StepSpared ==
    ASSUME TypeOK, Stages, SparedInv, Next
    PROVE  SparedInv'
<1>1. CASE Claim
  BY <1>1, SparedFrame
  DEF Claim, tableVars, serviceVars, jobVars, waveVars, history, faultVars, Stages,
      Sending, Storing, Recording, Owed2, Owed1
<1>2. CASE Begin
  BY <1>2, SparedFrame
  DEF Begin, StillActive, NoFault, Fault, Mishap, Trouble, tableVars, serviceVars,
      waveVars, faultVars, Stages, Sending, Storing, Recording, Owed2, Owed1
<1>3. CASE CrawlPage
  BY <1>3, SparedFrame
  DEF CrawlPage, serviceVars, waveVars, history, faultVars, Stages, Sending, Storing,
      Recording, Owed2, Owed1
<1>4. CASE CrawlFails
  BY <1>4, SparedFrame
  DEF CrawlFails, NoFault, Fault, Mishap, Trouble, tableVars, serviceVars, waveVars,
      faultVars, Stages, Sending, Storing, Recording, Owed2, Owed1
<1>5. CASE CrawlEnds
  BY <1>5, SparedFrame
  DEF CrawlEnds, tableVars, serviceVars, waveVars, history, faultVars, Stages, Sending,
      Storing, Recording, Owed2, Owed1
<1>6. CASE BetweenStages
  BY <1>6, SparedFrame
  DEF BetweenStages, StillActive, NoFault, Fault, Mishap, Trouble, tableVars,
      serviceVars, waveVars, faultVars, Stages, Sending, Storing, Recording, Owed2,
      Owed1
<1>7. ASSUME NEW i \in Images, Found(i) PROVE SparedInv'
  BY <1>7, SparedFrame
  DEF Found, serviceVars, waveVars, history, faultVars, Stages, Sending, Storing,
      Recording, Owed2, Owed1
<1>8. CASE Reconcile
  BY <1>8, SparedFrame
  DEF Reconcile, tableVars, serviceVars, jobVars, waveVars, history, faultVars, Stages,
      Sending, Storing, Recording, Owed2, Owed1
<1>9. CASE Adopt
  BY <1>9, SparedFrame
  DEF Adopt, NoFault, Repeat, Fault, Mishap, Trouble, tableVars, serviceVars, faultVars,
      jobVars, waveVars, Stages, Sending, Storing, Recording, Owed2, Owed1
<1>10. CASE Adopted
  BY <1>10, SparedFrame
  DEF Adopted, NoFault, Repeat, Fault, Mishap, Trouble, tableVars, serviceVars,
      faultVars, jobVars, waveVars, Stages, Sending, Storing, Recording, Owed2, Owed1
<1>11. CASE SearchFails
  BY <1>11, SparedFrame
  DEF SearchFails, NoFault, Fault, Mishap, Trouble, tableVars, serviceVars, waveVars,
      faultVars, Stages, Sending, Storing, Recording, Owed2, Owed1
<1>12. CASE SearchEnds
  BY <1>12, SparedFrame
  DEF SearchEnds, tableVars, serviceVars, waveVars, history, faultVars, Stages, Sending,
      Storing, Recording, Owed2, Owed1
<1>13. CASE Count
  BY <1>13, SparedFrame
  DEF Count, NoFault, Fault, Mishap, Trouble, tableVars, serviceVars, waveVars,
      faultVars, Stages, Sending, Storing, Recording, Owed2, Owed1
<1>14. CASE Pick
  BY <1>14, SparedFrame
  DEF Pick, tableVars, serviceVars, waveVars, history, faultVars, Stages, Sending,
      Storing, Recording, Owed2, Owed1
<1>15. CASE Skip
  BY <1>15, SparedFrame
  DEF Skip, serviceVars, jobVars, waveVars, history, faultVars, Stages, Sending,
      Storing, Recording, Owed2, Owed1
<1>16. CASE StartWave
  BY <1>16, SparedFrame
  DEF StartWave, tableVars, serviceVars, history, faultVars, Stages, Sending, Storing,
      Recording, Owed2, Owed1
<1>17. CASE Recount
  BY <1>17, SparedFrame
  DEF Recount, tableVars, serviceVars, jobVars, waveVars, history, faultVars, Stages,
      Sending, Storing, Recording, Owed2, Owed1
<1>18. CASE After
  BY <1>18, SparedFrame
  DEF After, NoFault, Fault, Mishap, Trouble, tableVars, serviceVars, waveVars,
      faultVars, Stages, Sending, Storing, Recording, Owed2, Owed1
<1>19. CASE BetweenBatches
  BY <1>19, SparedFrame
  DEF BetweenBatches, StillActive, NoFault, Fault, Mishap, Trouble, tableVars,
      serviceVars, faultVars, jobVars, waveVars, Stages, Sending, Storing, Recording,
      Owed2, Owed1
<1>20. ASSUME NEW i \in Images, Download(i) PROVE SparedInv'
  BY <1>20, SparedFrame
  DEF Download, NoFault, Fault, Mishap, Trouble, serviceVars, faultVars, Stages,
      Sending, Storing, Recording, Owed2, Owed1, Innocent
<1>21. CASE Downloaded
  BY <1>21, SparedFrame
  DEF Downloaded, tableVars, serviceVars, history, faultVars, Stages, Sending, Storing,
      Recording, Owed2, Owed1
<1>22. CASE Proof
  BY <1>22, SparedFrame
  DEF Proof, tableVars, serviceVars, faultVars, Stages, Sending, Storing, Recording,
      Owed2, Owed1, CommonsProven
<1>23. ASSUME NEW i \in Images, Strike(i) PROVE SparedInv'
  <2>1. /\ UNCHANGED <<world, commons, commonsOutages, outages, lateProof, failed, got, blamed>>
        /\ at = "strike" /\ i \in todo /\ todo' = todo \ {i} /\ failed = {} /\ i \notin blamed
        /\ at' \in {"strike", "judge"}
    BY <1>23 DEF Strike, Stages, serviceVars, waveVars
  <2>2. \A k \in Images : /\ Owed2(k)' => Owed2(k) /\ k # i
                          /\ ~Owed1(k)'
    BY <2>1 DEF Owed2, Owed1
  <2>3. CASE attempts' = attempts
    <3>1. repeats' = repeats
      BY <1>23, <2>3 DEF Strike, NoFault, Fault, Repeat, faultVars, TypeOK, TablesOK
    <3> QED
      BY <2>1, <2>2, <2>3, <3>1, SparedFrame
  <2>4. CASE attempts' # attempts
    <3> SUFFICES ASSUME ~lateProof, NEW k \in Images, Innocent(k) PROVE Spared(k)'
      BY <2>1 DEF SparedInv, Innocent, Kind
    <3>1. Spared(k) /\ Budget \in Int /\ attempts \in [Images -> Nat]
      BY BudgetType DEF SparedInv, TypeOK, TablesOK
    <3>2. PICK n \in {1, 2} :
             /\ attempts' = [attempts EXCEPT ![i] = @ + n]
             /\ repeats' = repeats + (n - 1)
      BY <1>23, <2>4 DEF Strike, NoFault, Repeat, Fault, faultVars, TypeOK, HistoryOK
    <3>3. Budget' = Budget + 2 * (n - 1)
      BY <2>1, <3>2 DEF Budget, TypeOK, HistoryOK
    <3> PICK b \in Int, a \in Nat : b = Budget /\ a = attempts[k]
      BY <3>1
    <3>4. /\ k = i => 2 * (a + n) <= b + 2 * (n - 1)
          /\ k # i => attempts'[k] = a /\ 2 * a <= b + 2 * (n - 1)
          /\ k = i => attempts'[k] = a + n
      BY <2>1, <3>1, <3>2 DEF Spared, Owed2
    <3>5. Owed2(k)' => 2 * a + 2 <= b + 2 * (n - 1) /\ k # i
      BY <2>2, <3>1 DEF Spared
    <3> QED
      BY <2>2, <3>3, <3>4, <3>5 DEF Spared
  <2> QED
    BY <2>3, <2>4
<1>24. CASE Judge
  BY <1>24, SparedFrame
  DEF Judge, NoFault, Fault, Mishap, Trouble, serviceVars, waveVars, faultVars, Stages,
      Sending, Storing, Recording, Owed2, Owed1
<1>25. CASE Struck
  BY <1>25, SparedFrame
  DEF Struck, tableVars, serviceVars, history, faultVars, Stages, Sending, Storing,
      Recording, Owed2, Owed1
<1>26. ASSUME NEW request \in SUBSET got, Send(request) PROVE SparedInv'
  BY <1>26, SparedFrame
  DEF Send, tableVars, history, faultVars, Stages, Sending, Storing, Recording, Owed2,
      Owed1
<1>27. CASE Sent
  BY <1>27, SparedFrame
  DEF Sent, tableVars, serviceVars, history, faultVars, Stages, Sending, Storing,
      Recording, Owed2, Owed1
<1>28. ASSUME NEW i \in Images, TryAlone(i) PROVE SparedInv'
  BY <1>28, SparedFrame
  DEF TryAlone, tableVars, serviceVars, waveVars, history, faultVars, Stages, Sending,
      Storing, Recording, Owed2, Owed1, ServiceTested
<1>29. CASE TryAgain
  BY <1>29, SparedFrame
  DEF TryAgain, tableVars, serviceVars, jobVars, waveVars, history, faultVars, Stages,
      Sending, Storing, Recording, Owed2, Owed1, ServiceTested
<1>30. CASE GiveUp
  BY <1>30, SparedFrame
  DEF GiveUp, tableVars, serviceVars, faultVars, Stages, Sending, Storing, Recording,
      Owed2, Owed1
<1>31. CASE Solo
  <2>1. /\ UNCHANGED <<world, attempts, commons, commonsOutages, outages, repeats, lateProof,
                      failed, got, todo>>
        /\ at \in {"solo", "soloAgain"} /\ image \in Images
    BY <1>31
    DEF Solo, tableVars, history, faultVars, TypeOK, PlaceOK, UsesImage
  <2>2. Innocent(image) => (out'[image] = "down" => service = "down")
    BY <1>31, <2>1 DEF Solo, Noted, Replies, Innocent
  <2>3. CASE out'[image] = "down" /\ at = "solo"
    <3>1. at' = "again" /\ UNCHANGED <<blamed, image>>
      BY <1>31, <2>3 DEF Solo
    <3>2. \A i \in Images : Innocent(i) => (Owed2(i)' => Owed2(i)) /\ (Owed1(i)' => Owed1(i))
      BY <2>1, <2>2, <2>3, <3>1 DEF Owed1, Owed2
    <3> QED
      BY <2>1, <3>2, SparedFrame
  <2>4. CASE ~(out'[image] = "down" /\ at = "solo")
    <3>1. /\ at' = "isolate" /\ image' = NoImage
          /\ blamed' = IF out'[image] = "down" THEN blamed \union {image} ELSE blamed
      BY <1>31, <2>4 DEF Solo
    <3>2. \A i \in Images : Innocent(i) => (Owed2(i)' => Owed2(i)) /\ (Owed1(i)' => Owed1(i))
      BY <2>1, <2>2, <2>4, <3>1 DEF Owed1, Owed2
    <3> QED
      BY <2>1, <3>2, SparedFrame
  <2> QED
    BY <2>3, <2>4
<1>32. CASE Isolated
  BY <1>32, SparedFrame
  DEF Isolated, tableVars, serviceVars, jobVars, waveVars, history, faultVars, Stages,
      Sending, Storing, Recording, Owed2, Owed1
<1>33. ASSUME NEW i \in Images, Result(i) PROVE SparedInv'
  BY <1>33, SparedFrame
  DEF Result, serviceVars, history, faultVars, Stages, Sending, Storing, Recording,
      Owed2, Owed1
<1>34. CASE Insert
  BY <1>34, SparedFrame
  DEF Insert, NoFault, Fault, Mishap, Trouble, Repeat, tableVars, serviceVars,
      faultVars, jobVars, waveVars, Stages, Sending, Storing, Recording, Owed2, Owed1
<1>35. CASE Finish
  BY <1>35, SparedFrame
  DEF Finish, NoFault, Stored, StoreFails, Fault, Mishap, Trouble, serviceVars,
      faultVars, Stages, Sending, Storing, Recording, Owed2, Owed1
<1>36. CASE Classify
  BY <1>36, SparedFrame
  DEF Classify, NoFault, Repeat, Fault, Mishap, Trouble, Stored, StoreFails, tableVars,
      serviceVars, faultVars, Stages, Sending, Storing, Recording, Owed2, Owed1
<1>37. CASE Confirm
  BY <1>37, SparedFrame
  DEF Confirm, NoFault, Repeat, Fault, Mishap, Trouble, StoreFails, tableVars,
      serviceVars, faultVars, jobVars, waveVars, Stages, Sending, Storing, Recording,
      Owed2, Owed1
<1>38. CASE Mark
  BY <1>38, SparedFrame
  DEF Mark, NoFault, Stored, StoreFails, Fault, Mishap, Trouble, tableVars, serviceVars,
      faultVars, Stages, Sending, Storing, Recording, Owed2, Owed1
<1>39. CASE StoreError
  BY <1>39, SparedFrame
  DEF StoreError, serviceVars, history, faultVars, Stages, Sending, Storing, Recording,
      Owed2, Owed1
<1>40. CASE Recorded
  BY <1>40, SparedFrame
  DEF Recorded, tableVars, serviceVars, history, faultVars, Stages, Sending, Storing,
      Recording, Owed2, Owed1
<1>41. CASE Flag
  BY <1>41, SparedFrame
  DEF Flag, NoFault, Fault, Mishap, Trouble, serviceVars, faultVars, Stages, Sending,
      Storing, Recording, Owed2, Owed1
<1>42. CASE Filter
  BY <1>42, SparedFrame
  DEF Filter, StillActive, NoFault, Fault, Mishap, Trouble, tableVars, serviceVars,
      faultVars, jobVars, waveVars, Stages, Sending, Storing, Recording, Owed2, Owed1
<1>43. CASE Verdict
  BY <1>43, SparedFrame
  DEF Verdict, tableVars, serviceVars, jobVars, waveVars, history, faultVars, Stages,
      Sending, Storing, Recording, Owed2, Owed1
<1>44. CASE Complete
  BY <1>44, SparedFrame
  DEF Complete, tableVars, serviceVars, jobVars, waveVars, history, faultVars, Stages,
      Sending, Storing, Recording, Owed2, Owed1
<1>45. CASE Raises
  BY <1>45, SparedFrame
  DEF Raises, Fault, Mishap, Trouble, EndJob, tableVars, serviceVars, Stages, Sending,
      Storing, Recording, Owed2, Owed1
<1>46. CASE Restart
  BY <1>46, SparedFrame
  DEF Restart, NewProcess, tableVars, serviceVars, jobVars, waveVars, history,
      faultVars, Stages, Sending, Storing, Recording, Owed2, Owed1
<1>47. CASE Stop
  BY <1>47, SparedFrame
  DEF Stop, Mishap, Trouble, tableVars, serviceVars, faultVars, jobVars, waveVars,
      Stages, Sending, Storing, Recording, Owed2, Owed1
<1>48. CASE Crash
  BY <1>48, SparedFrame
  DEF Crash, Mishap, Trouble, EndJob, NewProcess, tableVars, serviceVars, Stages,
      Sending, Storing, Recording, Owed2, Owed1
<1>49. ASSUME NEW s \in {"active", "paused", "completed"}, SaveSettings(s) PROVE SparedInv'
  BY <1>49, SparedFrame
  DEF SaveSettings, Mishap, Trouble, tableVars, serviceVars, faultVars, jobVars,
      waveVars, Stages, Sending, Storing, Recording, Owed2, Owed1
<1>50. CASE ServiceBreaks
  <2>1. /\ UNCHANGED <<world, attempts, commons, commonsOutages, repeats, lateProof,
                      failed, got, todo, at, image, blamed>>
        /\ outages' = outages + 1
    BY <1>50 DEF ServiceBreaks, tableVars, faultVars, jobVars, waveVars
  <2>2. Budget' = Budget + 1
    BY <2>1 DEF Budget, TypeOK, HistoryOK
  <2>3. \A i \in Images : Covered(i, 1)
    BY <2>1 DEF Covered, Owed1, Owed2
  <2> QED
    BY <2>1, <2>2, <2>3, SparedBy
<1>51. CASE ServiceRecovers
  BY <1>51, SparedFrame
  DEF ServiceRecovers, tableVars, jobVars, waveVars, history, faultVars, Stages,
      Sending, Storing, Recording, Owed2, Owed1
<1>52. CASE CommonsBreaks
  <2>1. /\ UNCHANGED <<world, attempts, outages, repeats, lateProof>>
        /\ commonsOutages' = commonsOutages + 1 /\ commons = "up" /\ commons' # "up"
    BY <1>52 DEF CommonsBreaks, tableVars, faultVars
  <2>2. Budget' = Budget + 2
    BY <2>1 DEF Budget, TypeOK, HistoryOK
  <2> QED
    BY <2>1, <2>2, SparedBy DEF Covered
<1>53. CASE CommonsRecovers
  <2>1. /\ UNCHANGED <<world, attempts, outages, repeats, lateProof, commonsOutages>>
        /\ commons # "up" /\ commons' = "up"
    BY <1>53 DEF CommonsRecovers, tableVars, history, faultVars
  <2>2. Budget' = Budget + 2
    BY <2>1 DEF Budget, TypeOK, HistoryOK
  <2> QED
    BY <2>1, <2>2, SparedBy DEF Covered
<1>54. CASE ForgetOutage
  BY <1>54, SparedFrame
  DEF ForgetOutage, tableVars, serviceVars, jobVars, waveVars, history, faultVars,
      Stages, Sending, Storing, Recording, Owed2, Owed1
<1>55. CASE ForgetCanary
  BY <1>55, SparedFrame
  DEF ForgetCanary, tableVars, serviceVars, jobVars, waveVars, history, faultVars,
      Stages, Sending, Storing, Recording, Owed2, Owed1
<1> QED
  BY <1>1, <1>2, <1>3, <1>4, <1>5, <1>6, <1>7, <1>8, <1>9, <1>10, <1>11, <1>12, <1>13,
     <1>14, <1>15, <1>16, <1>17, <1>18, <1>19, <1>20, <1>21, <1>22, <1>23, <1>24, <1>25,
     <1>26, <1>27, <1>28, <1>29, <1>30, <1>31, <1>32, <1>33, <1>34, <1>35, <1>36, <1>37,
     <1>38, <1>39, <1>40, <1>41, <1>42, <1>43, <1>44, <1>45, <1>46, <1>47, <1>48, <1>49,
     <1>50, <1>51, <1>52, <1>53, <1>54, <1>55
  DEF Next, Work

\* For every set of images, world and course of outages: an image that nothing
\* is wrong with is struck no more often than outages account for (worker.py,
\* _detect_wave, _isolate_images, _strike_failed_downloads).
THEOREM InnocentsSpared == Spec => []InnocentsAreSpared
<1>1. Init => Stages /\ SparedInv
  <2>1. ASSUME Init PROVE Stages
    BY <2>1 DEF Init, Stages, Sending, Recording, Storing
  <2>2. ASSUME Init PROVE SparedInv
    BY <2>2 DEF Init, SparedInv, Spared, Owed1, Owed2, Budget
  <2> QED
    BY <2>1, <2>2
<1>2. TypeOK /\ Stages /\ [Next]_vars => Stages'
  BY StepStages, StagesStutter
<1>3. TypeOK /\ Stages /\ SparedInv /\ [Next]_vars => SparedInv'
  <2>1. ASSUME TypeOK, SparedInv, UNCHANGED vars PROVE SparedInv'
    BY <2>1, SparedFrame
    DEF vars, tableVars, serviceVars, jobVars, waveVars, history, faultVars, Owed1, Owed2
  <2> QED
    BY <2>1, StepSpared
<1>4. TypeOK /\ SparedInv => InnocentsAreSpared
  <2> SUFFICES ASSUME TypeOK, SparedInv, ~lateProof, NEW i \in Images, Innocent(i)
               PROVE  2 * attempts[i] <= 4 * commonsOutages + outages + 2 * repeats
    BY DEF InnocentsAreSpared
  <2>1. attempts[i] \in Nat /\ 2 * attempts[i] <= Budget
    BY DEF SparedInv, Spared, TypeOK, TablesOK
  <2> QED
    BY <2>1, BoundsAssumption DEF Budget, TypeOK, HistoryOK
<1> QED
  BY <1>1, <1>2, <1>3, <1>4, TypeCorrect, PTL DEF Spec

-----------------------------------------------------------------------------
(* Sums over the images: what MapThenSumSet computes changes with one       *)
(* summand by as much as that summand does.                                 *)

\* A set of numbers that holds 0 and with each number the next one holds all.
LEMMA Induction ==
    ASSUME NEW P, 0 \in P, \A n \in Nat : n \in P => n + 1 \in P
    PROVE  Nat \subseteq P
<1> SUFFICES ASSUME Nat \ P # {} PROVE FALSE
  OBVIOUS
<1>1. PICK n \in Nat \ P : \A m \in Nat \ P : ~(<<m, n>> \in OpToRel(<, Nat))
  <2>1. Nat \ P \subseteq Nat
    OBVIOUS
  <2> QED
    BY <2>1, NatLessThanWellFounded, WFMin
<1>2. \A m \in Nat \ P : ~(m < n)
  BY <1>1 DEF OpToRel
<1>3. n \in Nat /\ n # 0
  BY <1>1
<1>4. n - 1 \in Nat /\ n - 1 < n /\ (n - 1) + 1 = n
  BY <1>3
<1> QED
  BY <1>1, <1>2, <1>4

SumUp(f, S) == MapThenSumSet(LAMBDA i : f[i], S)
Some(s) == CHOOSE x \in s : TRUE
SumMap(f, S) ==
    CHOOSE g : g = [s \in SUBSET S |->
                       IF s = {} THEN 0 ELSE f[Some(s)] + g[s \ {Some(s)}]]
LEMMA SumIs2 ==
   ASSUME NEW f, NEW S
   PROVE SumUp(f, S) = SumMap(f, S)[S]
 BY DEF SumUp, MapThenSumSet, MapThenFoldSet, Some, SumMap

LEMMA Finite ==
    ASSUME NEW S, IsFiniteSet(S)
    PROVE  /\ \A s \in SUBSET S : IsFiniteSet(s) /\ Cardinality(s) \in Nat
           /\ \A s \in SUBSET S : s # {} =>
                /\ Some(s) \in s /\ s \ {Some(s)} \in SUBSET S
                /\ \A n \in Nat : Cardinality(s) <= n + 1
                                  => Cardinality(s \ {Some(s)}) <= n
           /\ \A s \in SUBSET S : Cardinality(s) <= 0 => s = {}
<1>1. \A s \in SUBSET S : IsFiniteSet(s) /\ Cardinality(s) \in Nat
  BY FS_Subset, FS_CardinalityType
<1>2. ASSUME NEW s \in SUBSET S, s # {}
      PROVE  /\ Some(s) \in s /\ s \ {Some(s)} \in SUBSET S
             /\ \A n \in Nat : Cardinality(s) <= n + 1
                               => Cardinality(s \ {Some(s)}) <= n
  <2>1. Some(s) \in s
    BY <1>2 DEF Some
  <2>2. Cardinality(s \ {Some(s)}) = Cardinality(s) - 1
    BY <1>1, <2>1, FS_RemoveElement
  <2>3. Cardinality(s) \in Nat
    BY <1>1
  <2> QED
    BY <2>1, <2>2, <2>3
<1>3. ASSUME NEW s \in SUBSET S, Cardinality(s) <= 0 PROVE s = {}
  BY <1>1, <1>3, FS_EmptySet
<1> QED
  BY <1>1, <1>2, <1>3

LEMMA SizeInduction ==
    ASSUME NEW S, IsFiniteSet(S), NEW Good, {} \in Good,
           \A s \in SUBSET S : s # {} /\ s \ {Some(s)} \in Good => s \in Good
    PROVE  S \in Good
<1> DEFINE P == {n \in Nat : \A s \in SUBSET S : Cardinality(s) <= n => s \in Good}
<1>1. 0 \in P
  BY Finite
<1>2. ASSUME NEW n \in Nat, n \in P PROVE n + 1 \in P
  <2>1. ASSUME NEW s \in SUBSET S, Cardinality(s) <= n + 1 PROVE s \in Good
    <3>1. CASE s = {}
      BY <3>1
    <3>2. CASE s # {}
      <4>1. s \ {Some(s)} \in SUBSET S /\ Cardinality(s \ {Some(s)}) <= n
        BY <2>1, <3>2, Finite
      <4>2. s \ {Some(s)} \in Good
        BY <1>2, <4>1
      <4> QED
        BY <3>2, <4>2
    <3> QED
      BY <3>1, <3>2
  <2> QED
    BY <2>1
<1>3. Nat \subseteq P
  <2> HIDE DEF P
  <2> QED
    BY <1>1, <1>2, Induction
<1>4. Cardinality(S) \in Nat
  BY FS_CardinalityType
<1> QED
  BY <1>3, <1>4

LEMMA SumMapExists ==
    ASSUME NEW S, IsFiniteSet(S), NEW f
    PROVE  SumMap(f, S) = [s \in SUBSET S |->
               IF s = {} THEN 0 ELSE f[Some(s)] + SumMap(f, S)[s \ {Some(s)}]]
<1> DEFINE Upto(n) == {s \in SUBSET S : Cardinality(s) <= n}
           Sums(g, D) == g = [s \in D |-> IF s = {} THEN 0
                                          ELSE f[Some(s)] + g[s \ {Some(s)}]]
           P == {n \in Nat : \E g : Sums(g, Upto(n))}
<1>2. 0 \in P
  <2>1. Upto(0) = {{}}
    BY Finite, FS_EmptySet
  <2>2. Sums([s \in Upto(0) |-> 0], Upto(0))
    BY <2>1
  <2> QED
    BY <2>2
<1>3. ASSUME NEW n \in Nat, n \in P PROVE n + 1 \in P
  <2>1. PICK g : Sums(g, Upto(n))
    BY <1>3
  <2> DEFINE h == [s \in Upto(n + 1) |-> IF s = {} THEN 0
                                         ELSE f[Some(s)] + g[s \ {Some(s)}]]
  <2>2. Upto(n) \subseteq Upto(n + 1)
    <3>1. ASSUME NEW s \in SUBSET S, Cardinality(s) <= n
          PROVE  Cardinality(s) <= n + 1
      <4>1. Cardinality(s) \in Nat
        BY Finite
      <4> QED
        BY <3>1, <4>1
    <3> QED
      BY <3>1
  <2>3. \A s \in Upto(n) : g[s] = h[s]
    BY <2>1, <2>2
  <2>4. \A s \in Upto(n + 1) : s # {} => s \ {Some(s)} \in Upto(n)
    BY Finite
  <2>5. \A s \in Upto(n + 1) : s # {} => g[s \ {Some(s)}] = h[s \ {Some(s)}]
    BY <2>3, <2>4
  <2> HIDE DEF Upto
  <2>6. Sums(h, Upto(n + 1))
    <3> DEFINE k == [s \in Upto(n + 1) |-> IF s = {} THEN 0
                                         ELSE f[Some(s)] + h[s \ {Some(s)}]]
    <3>1. ASSUME NEW s \in Upto(n + 1) PROVE h[s] = k[s]
      BY <2>5
    <3>2. h = k
      BY <3>1
    <3> QED
      BY <3>2
  <2>7. n + 1 \in Nat
    OBVIOUS
  <2> QED
    BY <2>6, <2>7
<1>4. Cardinality(S) \in P /\ Cardinality(S) \in Nat
  <2> HIDE DEF P
  <2>1. Nat \subseteq P
    BY <1>2, <1>3, Induction
  <2> QED
    BY FS_CardinalityType, <2>1
<1>5. Upto(Cardinality(S)) = SUBSET S
  BY FS_Subset
<1>6. \E g : Sums(g, SUBSET S)
  BY <1>4, <1>5
<1> QED
  BY <1>6 DEF SumMap

LEMMA SumChange ==
    ASSUME NEW S, IsFiniteSet(S), NEW f \in [S -> Nat], NEW h \in [S -> Nat],
           NEW i \in S, \A j \in S \ {i} : f[j] = h[j]
    PROVE  /\ SumUp(f, S) \in Nat /\ SumUp(h, S) \in Nat
           /\ SumUp(h, S) + f[i] = SumUp(f, S) + h[i]
<1> DEFINE F == SumMap(f, S)
           H == SumMap(h, S)
           Good == {s \in SUBSET S :
                      /\ F[s] \in Nat /\ H[s] \in Nat
                      /\ IF i \in s THEN H[s] + f[i] = F[s] + h[i] ELSE H[s] = F[s]}
<1>1. /\ F = [s \in SUBSET S |-> IF s = {} THEN 0 ELSE f[Some(s)] + F[s \ {Some(s)}]]
      /\ H = [s \in SUBSET S |-> IF s = {} THEN 0 ELSE h[Some(s)] + H[s \ {Some(s)}]]
  BY SumMapExists
<1> HIDE DEF F, H
<1>2. {} \in Good
  BY <1>1
<1>4. ASSUME NEW s \in SUBSET S, s # {}, s \ {Some(s)} \in Good PROVE s \in Good
  <2>1. Some(s) \in s
    BY <1>4, Finite
  <2> DEFINE x == Some(s)
             t == s \ {x}
  <2>2. t \in Good /\ x \in s /\ x \in S
    BY <1>4, <2>1
  <2>3. F[s] = f[x] + F[t] /\ H[s] = h[x] + H[t]
    BY <1>1, <1>4
  <2> HIDE DEF x
  <2>4. f[i] \in Nat /\ h[i] \in Nat /\ f[x] \in Nat /\ h[x] \in Nat
    BY <2>2
  <2>5. i \in t <=> i \in s /\ x # i
    OBVIOUS
  <2>6. x # i => f[x] = h[x]
    BY <2>2
  <2> HIDE DEF t
  <2>7. F[t] \in Nat /\ H[t] \in Nat
    BY <2>2
  <2>8. F[s] \in Nat /\ H[s] \in Nat
    BY <2>3, <2>4, <2>7
  <2>9. CASE x = i
    <3>1. H[t] = F[t] /\ i \in s
      BY <2>2, <2>5, <2>9
    <3>2. H[s] + f[i] = F[s] + h[i]
      BY <2>3, <2>4, <2>7, <2>9, <3>1
    <3> QED
      BY <2>8, <3>1, <3>2
  <2>10. CASE x # i /\ i \in s
    <3>1. H[t] + f[i] = F[t] + h[i] /\ f[x] = h[x]
      BY <2>2, <2>5, <2>6, <2>10
    <3>2. H[s] + f[i] = F[s] + h[i]
      BY <2>3, <2>4, <2>7, <3>1
    <3> QED
      BY <2>8, <2>10, <3>2
  <2>11. CASE i \notin s
    <3>1. H[t] = F[t] /\ f[x] = h[x]
      BY <2>2, <2>5, <2>6, <2>11
    <3>2. H[s] = F[s]
      BY <2>3, <3>1
    <3> QED
      BY <2>8, <2>11, <3>2
  <2> QED
    BY <2>9, <2>10, <2>11
<1>5. S \in Good
  <2> HIDE DEF Good
  <2> QED
    BY <1>2, <1>4, SizeInduction
<1> QED
  BY <1>5, SumIs2 DEF F, H

LEMMA SumOfNothing ==
    ASSUME NEW S, IsFiniteSet(S), NEW f, \A j \in S : f[j] = 0
    PROVE  SumUp(f, S) = 0
<1> DEFINE F == SumMap(f, S)
           Good == {s \in SUBSET S : F[s] = 0}
<1>1. F = [s \in SUBSET S |-> IF s = {} THEN 0 ELSE f[Some(s)] + F[s \ {Some(s)}]]
  BY SumMapExists
<1> HIDE DEF F
<1>2. {} \in Good
  BY <1>1
<1>3. ASSUME NEW s \in SUBSET S, s # {}, s \ {Some(s)} \in Good PROVE s \in Good
  <2>1. Some(s) \in s
    BY <1>3, Finite
  <2>2. F[s] = f[Some(s)] + F[s \ {Some(s)}]
    BY <1>1, <1>3
  <2>3. f[Some(s)] = 0 /\ F[s \ {Some(s)}] = 0
    BY <1>3, <2>1
  <2> QED
    BY <2>2, <2>3
<1>4. S \in Good
  <2> HIDE DEF Good
  <2> QED
    BY <1>2, <1>3, SizeInduction
<1> QED
  BY <1>4, SumIs2 DEF F

\* The sum over the images follows a change of one image.
LEMMA SumOfOneChange ==
    ASSUME NEW f \in [Images -> Nat], NEW h \in [Images -> Nat], NEW i \in Images,
           \A j \in Images \ {i} : f[j] = h[j]
    PROVE  /\ SumOver(f) \in Nat /\ SumOver(h) \in Nat
           /\ SumOver(h) + f[i] = SumOver(f) + h[i]
<1>1. SumOver(f) = SumUp(f, Images) /\ SumOver(h) = SumUp(h, Images)
  BY DEF SumOver, SumUp
<1>2. /\ SumUp(f, Images) \in Nat /\ SumUp(h, Images) \in Nat
      /\ SumUp(h, Images) + f[i] = SumUp(f, Images) + h[i]
  <2>1. IsFiniteSet(Images)
    BY ImagesAssumption
  <2> QED
    BY <2>1, SumChange
<1> QED
  BY <1>1, <1>2

-----------------------------------------------------------------------------
(* The count of confirmed faces.                                            *)

\* The targets of an image are set before they are counted.
Unclassified == {"insert", "finish", "classify"}
Counting == {"confirm", "adopted"}
Owed == IF at = "confirm" THEN targets[image] ELSE IF at = "adopted" THEN 1 ELSE 0
ConfirmedInv ==
    /\ \A i \in Images : targets[i] <= rows[i]
    /\ cuts = 0 /\ repeats = 0 =>
          /\ at \in Unclassified => targets[image] = 0
          /\ confirmed + Owed = SumOver(targets)

\* Nothing is claimed of the count once a step was lost or done twice.
LEMMA Unclean ==
    ASSUME TypeOK, \A i \in Images : targets'[i] <= rows'[i],
           \/ cuts' = cuts + 1 /\ (repeats' = repeats \/ repeats' = repeats + 1)
           \/ cuts' = cuts /\ repeats' = repeats + 1
    PROVE  ConfirmedInv'
<1>1. cuts \in Nat /\ repeats \in Nat
  BY DEF TypeOK, HistoryOK
<1>2. ~(cuts' = 0 /\ repeats' = 0)
  BY <1>1
<1> QED
  BY <1>2 DEF ConfirmedInv

\* Steps that neither set nor count a target keep it.
LEMMA ConfirmedFrame ==
    ASSUME TypeOK, ConfirmedInv, UNCHANGED <<targets, confirmed>>, rows' \in [Images -> Nat],
           \A i \in Images : rows[i] <= rows'[i],
           cuts' = cuts \/ cuts' = cuts + 1, repeats' = repeats \/ repeats' = repeats + 1,
           \/ cuts' = cuts + 1
           \/ /\ at \notin Counting /\ at' \notin Counting
              /\ at' \in Unclassified => at \in Unclassified /\ image' = image
           \/ UNCHANGED <<at, image>>
    PROVE  ConfirmedInv'
<1>1. \A i \in Images : targets'[i] <= rows'[i]
  <2> SUFFICES ASSUME NEW i \in Images PROVE targets[i] <= rows'[i]
    OBVIOUS
  <2>1. targets[i] <= rows[i] /\ rows[i] <= rows'[i]
    BY DEF ConfirmedInv
  <2>2. targets[i] \in Nat /\ rows[i] \in Nat /\ rows'[i] \in Nat
    BY DEF TypeOK, FacesOK
  <2> QED
    BY <2>1, <2>2
<1>2. CASE cuts' = cuts + 1 \/ repeats' = repeats + 1
  BY <1>1, <1>2, Unclean
<1>3. CASE cuts' = cuts /\ repeats' = repeats
  <2>1. cuts \in Nat
    BY DEF TypeOK, HistoryOK
  <2>2. Owed' = Owed /\ (at' \in Unclassified => at \in Unclassified /\ image' = image)
    BY <1>3, <2>1 DEF Owed, Counting
  <2> QED
    BY <1>1, <1>3, <2>2 DEF ConfirmedInv
<1> QED
  BY <1>2, <1>3

LEMMA StepConfirmed ==
    ASSUME TypeOK, TypeOK', StoredInv, ConfirmedInv, Next
    PROVE  ConfirmedInv'
<1> USE DEF Counting, Unclassified
<1>0. /\ rows \in [Images -> Nat]
      /\ UNCHANGED rows => rows' \in [Images -> Nat] /\ \A i \in Images : rows[i] <= rows'[i]
  BY DEF TypeOK, FacesOK
<1>1. CASE Claim
  BY <1>1, <1>0, ConfirmedFrame
  DEF Claim, faceVars, projectVars, jobVars, history, faultVars
<1>2. CASE Begin
  BY <1>2, <1>0, ConfirmedFrame
  DEF Begin, StillActive, NoFault, Fault, Mishap, Trouble, faceVars, projectVars,
      faultVars
<1>3. CASE CrawlPage
  BY <1>3, <1>0, ConfirmedFrame
  DEF CrawlPage, faceVars, projectVars, history, faultVars
<1>4. CASE CrawlFails
  BY <1>4, <1>0, ConfirmedFrame
  DEF CrawlFails, NoFault, Fault, Mishap, Trouble, faceVars, projectVars, faultVars
<1>5. CASE CrawlEnds
  BY <1>5, <1>0, ConfirmedFrame
  DEF CrawlEnds, faceVars, projectVars, history, faultVars
<1>6. CASE BetweenStages
  BY <1>6, <1>0, ConfirmedFrame
  DEF BetweenStages, StillActive, NoFault, Fault, Mishap, Trouble, faceVars,
      projectVars, faultVars
<1>7. ASSUME NEW i \in Images, Found(i) PROVE ConfirmedInv'
  BY <1>7, <1>0, ConfirmedFrame
  DEF Found, faceVars, projectVars, history, faultVars
<1>8. CASE Reconcile
  BY <1>8, <1>0, ConfirmedFrame
  DEF Reconcile, projectVars, jobVars, history, faultVars
<1>9. CASE Adopt
  <2>1. /\ at = "adopt" /\ image \in Images
        /\ UNCHANGED <<rows, confirmed, image>>
        /\ cuts' = cuts /\ (repeats' = repeats \/ repeats' = repeats + 1)
    BY <1>9
    DEF Adopt, NoFault, Repeat, Fault, Mishap, Trouble, projectVars, jobVars, faultVars,
        TypeOK, PlaceOK, UsesImage
  <2>2. CASE ~OneOpenFace
    BY <1>0, <1>9, <2>1, <2>2, ConfirmedFrame
    DEF Adopt, NoFault, faultVars, Counting, Unclassified
  <2>3. CASE OneOpenFace
    <3> PICK j \in Images : j = image
      BY <2>1
    <3>1. targets' = [targets EXCEPT ![j] = 1] /\ rows[j] = 1 /\ targets[j] = 0
      BY <1>9, <2>3 DEF Adopt, OneOpenFace
    <3>2. \A i \in Images : targets'[i] <= rows'[i]
      BY <2>1, <3>1 DEF ConfirmedInv, TypeOK, FacesOK
    <3>3. CASE at' = "adopted" /\ NoFault
      <4>1. /\ Owed = 0 /\ Owed' = 1 /\ UNCHANGED <<cuts, repeats>>
            /\ at' \notin Unclassified
        BY <2>1, <3>3 DEF Owed, NoFault, faultVars, Unclassified
      <4>2. /\ SumOver(targets) \in Nat /\ SumOver(targets') \in Nat
            /\ SumOver(targets') + targets[j] = SumOver(targets) + targets'[j]
        <5>1. targets \in [Images -> Nat] /\ targets' \in [Images -> Nat]
          BY <3>1 DEF TypeOK, FacesOK
        <5>2. \A i \in Images \ {j} : targets[i] = targets'[i]
          BY <3>1, <5>1
        <5> QED
          BY <5>1, <5>2, SumOfOneChange
      <4>3. targets'[j] = 1 /\ confirmed \in Nat
        BY <3>1 DEF TypeOK, FacesOK, ProjectOK
      <4>4. ASSUME cuts = 0, repeats = 0 PROVE confirmed' + Owed' = SumOver(targets')
        <5>1. confirmed + Owed = SumOver(targets) /\ confirmed' = confirmed
          BY <2>1, <4>4 DEF ConfirmedInv
        <5> QED
          BY <3>1, <4>1, <4>2, <4>3, <5>1
      <4> QED
        BY <3>2, <4>1, <4>4 DEF ConfirmedInv
    <3>4. CASE repeats' = repeats + 1
      BY <2>1, <3>2, <3>4, Unclean
    <3> QED
      BY <1>9, <2>3, <3>3, <3>4 DEF Adopt, Repeat
  <2> QED
    BY <2>2, <2>3
<1>10. CASE Adopted
  <2>1. /\ at = "adopted" /\ at' = "search"
        /\ UNCHANGED <<rows, targets>> /\ cuts' = cuts
    BY <1>10 DEF Adopted, NoFault, Repeat, Fault, faceVars, faultVars
  <2>2. CASE confirmed' = confirmed + 1 /\ NoFault
    <3>1. Owed = 1 /\ Owed' = 0 /\ UNCHANGED <<cuts, repeats>> /\ confirmed \in Nat
      BY <2>1, <2>2 DEF Owed, NoFault, faultVars, TypeOK, ProjectOK
    <3> QED
      BY <2>1, <2>2, <3>1 DEF ConfirmedInv, Unclassified
  <2>3. CASE Repeat
    <3>1. repeats' = repeats + 1
      BY <2>3 DEF Repeat
    <3> QED
      BY <2>1, <3>1, Unclean DEF ConfirmedInv
  <2> QED
    BY <1>10, <2>2, <2>3 DEF Adopted
<1>11. CASE SearchFails
  BY <1>11, <1>0, ConfirmedFrame
  DEF SearchFails, NoFault, Fault, Mishap, Trouble, faceVars, projectVars, faultVars
<1>12. CASE SearchEnds
  BY <1>12, <1>0, ConfirmedFrame
  DEF SearchEnds, faceVars, projectVars, history, faultVars
<1>13. CASE Count
  BY <1>13, <1>0, ConfirmedFrame
  DEF Count, NoFault, Fault, Mishap, Trouble, faceVars, projectVars, faultVars
<1>14. CASE Pick
  BY <1>14, <1>0, ConfirmedFrame
  DEF Pick, faceVars, projectVars, history, faultVars
<1>15. CASE Skip
  BY <1>15, <1>0, ConfirmedFrame
  DEF Skip, faceVars, projectVars, jobVars, history, faultVars
<1>16. CASE StartWave
  BY <1>16, <1>0, ConfirmedFrame
  DEF StartWave, faceVars, projectVars, history, faultVars
<1>17. CASE Recount
  BY <1>17, <1>0, ConfirmedFrame
  DEF Recount, faceVars, jobVars, history, faultVars
<1>18. CASE After
  BY <1>18, <1>0, ConfirmedFrame
  DEF After, NoFault, Fault, Mishap, Trouble, faceVars, projectVars, faultVars
<1>19. CASE BetweenBatches
  BY <1>19, <1>0, ConfirmedFrame
  DEF BetweenBatches, StillActive, NoFault, Fault, Mishap, Trouble, faceVars,
      projectVars, faultVars, jobVars
<1>20. ASSUME NEW i \in Images, Download(i) PROVE ConfirmedInv'
  BY <1>20, <1>0, ConfirmedFrame
  DEF Download, NoFault, Fault, Mishap, Trouble, faceVars, projectVars, faultVars
<1>21. CASE Downloaded
  BY <1>21, <1>0, ConfirmedFrame
  DEF Downloaded, faceVars, projectVars, history, faultVars
<1>22. CASE Proof
  BY <1>22, <1>0, ConfirmedFrame
  DEF Proof, faceVars, projectVars, faultVars
<1>23. ASSUME NEW i \in Images, Strike(i) PROVE ConfirmedInv'
  BY <1>23, <1>0, ConfirmedFrame
  DEF Strike, NoFault, Fault, Mishap, Trouble, Repeat, faceVars, projectVars, faultVars
<1>24. CASE Judge
  BY <1>24, <1>0, ConfirmedFrame
  DEF Judge, NoFault, Fault, Mishap, Trouble, faceVars, projectVars, faultVars
<1>25. CASE Struck
  BY <1>25, <1>0, ConfirmedFrame
  DEF Struck, faceVars, projectVars, history, faultVars
<1>26. ASSUME NEW request \in SUBSET got, Send(request) PROVE ConfirmedInv'
  BY <1>26, <1>0, ConfirmedFrame
  DEF Send, faceVars, projectVars, history, faultVars
<1>27. CASE Sent
  BY <1>27, <1>0, ConfirmedFrame
  DEF Sent, faceVars, projectVars, history, faultVars
<1>28. ASSUME NEW i \in Images, TryAlone(i) PROVE ConfirmedInv'
  BY <1>28, <1>0, ConfirmedFrame
  DEF TryAlone, faceVars, projectVars, history, faultVars
<1>29. CASE TryAgain
  BY <1>29, <1>0, ConfirmedFrame
  DEF TryAgain, faceVars, projectVars, jobVars, history, faultVars
<1>30. CASE GiveUp
  BY <1>30, <1>0, ConfirmedFrame
  DEF GiveUp, faceVars, projectVars, faultVars
<1>31. CASE Solo
  BY <1>31, <1>0, ConfirmedFrame
  DEF Solo, faceVars, projectVars, history, faultVars
<1>32. CASE Isolated
  BY <1>32, <1>0, ConfirmedFrame
  DEF Isolated, faceVars, projectVars, jobVars, history, faultVars
<1>33. ASSUME NEW i \in Images, Result(i) PROVE ConfirmedInv'
  <2>1. /\ UNCHANGED <<rows, targets, confirmed, cuts, repeats>> /\ at = "results"
        /\ i \in InFlight
        /\ at' \in {"strike", "insert", "finish", "results"}
    BY <1>33 DEF Result, InFlight, faceVars, projectVars, history, faultVars
  <2>2. at' \in Unclassified => image' = i
    BY <1>33, <2>1 DEF Result, Unclassified
  <2>3. Owed = 0 /\ Owed' = 0
    BY <2>1 DEF Owed
  <2>4. ASSUME cuts = 0, repeats = 0 PROVE targets[i] = 0
    <3>1. rows[i] <= FacesIn[i] * (cuts + repeats)
      BY <2>1 DEF StoredInv, Fresh, Recording
    <3>2. FacesIn[i] \in Nat /\ FacesIn[i] * 0 = 0
      BY SizesAssumption
    <3>3. /\ rows[i] \in Nat /\ targets[i] \in Nat /\ targets[i] <= rows[i]
          /\ cuts + repeats = 0
      BY <2>4 DEF ConfirmedInv, TypeOK, FacesOK
    <3>4. rows[i] <= 0
      BY <3>1, <3>2, <3>3
    <3> QED
      BY <3>3, <3>4
  <2> QED
    BY <2>1, <2>2, <2>3, <2>4 DEF ConfirmedInv
<1>34. CASE Insert
  <2> PICK j \in Images : j = image
    BY <1>34 DEF Insert, TypeOK, PlaceOK, UsesImage
  <2>1. /\ at = "insert" /\ at' \in {"finish", "storeError"}
        /\ UNCHANGED <<targets, confirmed, image>> /\ cuts' = cuts
        /\ repeats' = repeats \/ repeats' = repeats + 1
    BY <1>34
    DEF Insert, NoFault, Repeat, Fault, projectVars, jobVars, faultVars
  <2>2. \A i \in Images : rows[i] <= rows'[i]
    <3>1. FacesIn[j] \in Nat /\ rows \in [Images -> Nat]
      BY SizesAssumption DEF TypeOK, FacesOK
    <3> QED
      BY <1>34, <3>1 DEF Insert
  <2>3. rows' \in [Images -> Nat]
    BY DEF TypeOK, FacesOK
  <2> QED
    BY <2>1, <2>2, <2>3, ConfirmedFrame DEF Counting, Unclassified
<1>35. CASE Finish
  BY <1>35, <1>0, ConfirmedFrame
  DEF Finish, NoFault, Stored, StoreFails, Fault, Mishap, Trouble, faceVars,
      projectVars, faultVars
<1>36. CASE Classify
  <2> PICK j \in Images : j = image
    BY <1>36 DEF Classify, TypeOK, PlaceOK, UsesImage
  <2>1. /\ at = "classify" /\ UNCHANGED <<rows, confirmed>>
    BY <1>36 DEF Classify, projectVars
  <2>2. CASE StoreFails /\ UNCHANGED targets
    <3>1. cuts' = cuts + 1 /\ repeats' = repeats
      BY <2>2 DEF StoreFails
    <3> QED
      BY <2>1, <2>2, <3>1, Unclean DEF ConfirmedInv
  <2>3. CASE targets' = [targets EXCEPT ![j] = rows[j]]
    <3>1. \A i \in Images : targets'[i] <= rows'[i]
      BY <2>1, <2>3 DEF ConfirmedInv, TypeOK, FacesOK
    <3>2. CASE at' = "confirm" /\ NoFault /\ UNCHANGED image
      <4>1. /\ Owed = 0 /\ Owed' = targets'[j] /\ UNCHANGED <<cuts, repeats>>
            /\ at' \notin Unclassified
        BY <2>1, <3>2 DEF Owed, NoFault, faultVars, Unclassified
      <4>2. targets \in [Images -> Nat] /\ targets' \in [Images -> Nat]
        BY DEF TypeOK, FacesOK
      <4>3. /\ SumOver(targets) \in Nat /\ SumOver(targets') \in Nat
            /\ SumOver(targets') + targets[j] = SumOver(targets) + targets'[j]
        <5>1. \A i \in Images \ {j} : targets[i] = targets'[i]
          BY <2>3, <4>2
        <5> QED
          BY <4>2, <5>1, SumOfOneChange
      <4>4. ASSUME cuts = 0, repeats = 0 PROVE confirmed' + Owed' = SumOver(targets')
        <5>1. /\ confirmed + Owed = SumOver(targets) /\ confirmed' = confirmed
              /\ targets[j] = 0 /\ confirmed \in Nat /\ targets'[j] \in Nat
          BY <2>1, <4>2, <4>4 DEF ConfirmedInv, Unclassified, TypeOK, ProjectOK
        <5> QED
          BY <4>1, <4>3, <5>1
      <4> QED
        BY <3>1, <4>1, <4>4 DEF ConfirmedInv
    <3>3. CASE Repeat /\ UNCHANGED cuts
      <4>1. repeats' = repeats + 1 /\ cuts' = cuts
        BY <3>3 DEF Repeat
      <4> QED
        BY <3>1, <4>1, Unclean
    <3>4. CASE StoreFails
      <4>1. cuts' = cuts + 1 /\ repeats' = repeats
        BY <3>4 DEF StoreFails
      <4> QED
        BY <3>1, <4>1, Unclean
    <3> QED
      BY <1>36, <3>2, <3>3, <3>4 DEF Classify
  <2> QED
    BY <1>36, <2>2, <2>3 DEF Classify
<1>37. CASE Confirm
  <2> PICK j \in Images : j = image
    BY <1>37 DEF Confirm, TypeOK, PlaceOK, UsesImage
  <2>1. /\ at = "confirm" /\ at' \in {"mark", "storeError"} /\ UNCHANGED <<rows, targets>>
    BY <1>37 DEF Confirm, StoreFails, faceVars
  <2>2. CASE confirmed' = confirmed + targets[j] /\ NoFault
    <3>1. /\ Owed = targets[j] /\ Owed' = 0 /\ UNCHANGED <<cuts, repeats>>
          /\ confirmed \in Nat /\ targets[j] \in Nat /\ at' \notin Unclassified
      BY <2>1, <2>2 DEF Owed, NoFault, faultVars, TypeOK, ProjectOK, FacesOK, Unclassified
    <3> QED
      BY <2>1, <2>2, <3>1 DEF ConfirmedInv
  <2>3. CASE Repeat /\ UNCHANGED cuts
    <3>1. repeats' = repeats + 1 /\ cuts' = cuts
      BY <2>3 DEF Repeat
    <3> QED
      BY <2>1, <3>1, Unclean DEF ConfirmedInv
  <2>4. CASE StoreFails
    <3>1. cuts' = cuts + 1 /\ repeats' = repeats
      BY <2>4 DEF StoreFails
    <3> QED
      BY <2>1, <3>1, Unclean DEF ConfirmedInv
  <2> QED
    BY <1>37, <2>2, <2>3, <2>4 DEF Confirm
<1>38. CASE Mark
  BY <1>38, <1>0, ConfirmedFrame
  DEF Mark, NoFault, Stored, StoreFails, Fault, Mishap, Trouble, projectVars, faultVars
<1>39. CASE StoreError
  BY <1>39, <1>0, ConfirmedFrame
  DEF StoreError, faceVars, projectVars, history, faultVars
<1>40. CASE Recorded
  BY <1>40, <1>0, ConfirmedFrame
  DEF Recorded, faceVars, projectVars, history, faultVars
<1>41. CASE Flag
  BY <1>41, <1>0, ConfirmedFrame
  DEF Flag, NoFault, Fault, Mishap, Trouble, faceVars, projectVars, faultVars
<1>42. CASE Filter
  BY <1>42, <1>0, ConfirmedFrame
  DEF Filter, StillActive, NoFault, Fault, Mishap, Trouble, faceVars, projectVars,
      faultVars, jobVars
<1>43. CASE Verdict
  BY <1>43, <1>0, ConfirmedFrame
  DEF Verdict, faceVars, projectVars, jobVars, history, faultVars
<1>44. CASE Complete
  BY <1>44, <1>0, ConfirmedFrame
  DEF Complete, faceVars, jobVars, history, faultVars
<1>45. CASE Raises
  BY <1>45, <1>0, ConfirmedFrame
  DEF Raises, Fault, Mishap, Trouble, EndJob, faceVars, projectVars
<1>46. CASE Restart
  BY <1>46, <1>0, ConfirmedFrame
  DEF Restart, NewProcess, faceVars, projectVars, jobVars, history, faultVars
<1>47. CASE Stop
  BY <1>47, <1>0, ConfirmedFrame
  DEF Stop, Mishap, Trouble, faceVars, projectVars, faultVars, jobVars
<1>48. CASE Crash
  <2>1. /\ UNCHANGED <<rows, targets, confirmed, repeats>> /\ at' = "idle"
        /\ cuts' = cuts + (IF at \in HalfStored THEN 1 ELSE 0)
    BY <1>48 DEF Crash, EndJob, faceVars, projectVars
  <2>2. CASE at \in HalfStored
    BY <1>0, <2>1, <2>2, ConfirmedFrame
  <2>3. CASE at \notin HalfStored
    <3>1. cuts' = cuts /\ at \notin Counting /\ at' \notin Counting
      BY <2>1, <2>3 DEF HalfStored, TypeOK, HistoryOK
    <3> QED
      BY <1>0, <2>1, <3>1, ConfirmedFrame
  <2> QED
    BY <2>2, <2>3
<1>49. ASSUME NEW s \in {"active", "paused", "completed"}, SaveSettings(s) PROVE ConfirmedInv'
  BY <1>49, <1>0, ConfirmedFrame
  DEF SaveSettings, Mishap, Trouble, faceVars, faultVars, jobVars
<1>50. CASE ServiceBreaks
  BY <1>50, <1>0, ConfirmedFrame
  DEF ServiceBreaks, Trouble, faceVars, projectVars, faultVars, jobVars
<1>51. CASE ServiceRecovers
  BY <1>51, <1>0, ConfirmedFrame
  DEF ServiceRecovers, faceVars, projectVars, jobVars, history, faultVars
<1>52. CASE CommonsBreaks
  BY <1>52, <1>0, ConfirmedFrame
  DEF CommonsBreaks, Trouble, faceVars, projectVars, faultVars, jobVars
<1>53. CASE CommonsRecovers
  BY <1>53, <1>0, ConfirmedFrame
  DEF CommonsRecovers, faceVars, projectVars, jobVars, history, faultVars
<1>54. CASE ForgetOutage
  BY <1>54, <1>0, ConfirmedFrame
  DEF ForgetOutage, faceVars, projectVars, jobVars, history, faultVars
<1>55. CASE ForgetCanary
  BY <1>55, <1>0, ConfirmedFrame
  DEF ForgetCanary, faceVars, projectVars, jobVars, history, faultVars
<1> QED
  BY <1>1, <1>2, <1>3, <1>4, <1>5, <1>6, <1>7, <1>8, <1>9, <1>10, <1>11, <1>12, <1>13,
     <1>14, <1>15, <1>16, <1>17, <1>18, <1>19, <1>20, <1>21, <1>22, <1>23, <1>24, <1>25,
     <1>26, <1>27, <1>28, <1>29, <1>30, <1>31, <1>32, <1>33, <1>34, <1>35, <1>36, <1>37,
     <1>38, <1>39, <1>40, <1>41, <1>42, <1>43, <1>44, <1>45, <1>46, <1>47, <1>48, <1>49,
     <1>50, <1>51, <1>52, <1>53, <1>54, <1>55
  DEF Next, Work

\* For every set of images and world: while no step of recording faces was lost
\* or done twice, faces_confirmed is the number of targets the bootstrap has set
\* (worker.py, _persist_detection, _classify_bootstrap_image and the adoption
\* by bootstrap_from_sparql).
THEOREM ConfirmedExactly == Spec => []ConfirmedIsExact
<1>1. Init => ConfirmedInv
  <2> SUFFICES ASSUME Init PROVE ConfirmedInv
    OBVIOUS
  <2>1. SumUp(targets, Images) = 0
    BY ImagesAssumption, SumOfNothing DEF Init
  <2>2. SumOver(targets) = 0
    BY <2>1 DEF SumOver, SumUp
  <2> QED
    BY <2>2 DEF Init, ConfirmedInv, Owed, Unclassified
<1>2. TypeOK /\ TypeOK' /\ StoredInv /\ ConfirmedInv /\ [Next]_vars => ConfirmedInv'
  <2>1. ASSUME TypeOK, ConfirmedInv, UNCHANGED vars PROVE ConfirmedInv'
    BY <2>1 DEF vars, faceVars, projectVars, history, faultVars, jobVars, ConfirmedInv, Owed
  <2> QED
    BY <2>1, StepConfirmed
<1>3. TypeOK /\ ConfirmedInv => ConfirmedIsExact
  <2> SUFFICES ASSUME TypeOK, ConfirmedInv, cuts = 0, repeats = 0,
                      at \notin {"confirm", "adopted"}
               PROVE  confirmed = SumOver(targets)
    BY DEF ConfirmedIsExact
  <2>1. Owed = 0 /\ confirmed \in Nat
    BY DEF Owed, TypeOK, ProjectOK
  <2> QED
    BY <2>1 DEF ConfirmedInv
<1> QED
  BY <1>1, <1>2, <1>3, StoredAlways, PTL DEF Spec
=============================================================================
