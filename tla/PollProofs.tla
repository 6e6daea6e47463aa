----------------------------- MODULE PollProofs -----------------------------
(***************************************************************************)
(* Proofs about Poll, for any number of descriptors of both kinds, any set *)
(* of timeouts and any of the faults.                                      *)
(***************************************************************************)
EXTENDS PollInv, TLAPS

(* Initially nobody is in a call.                                          *)
LEMMA InitInv == Init => IInv
<1> SUFFICES ASSUME Init PROVE IInv
  OBVIOUS
<1>1. TypeOK
  <2>1. expired \in BOOLEAN /\ woken \in BOOLEAN /\ ready \in BOOLEAN
    BY DEF Init
  <2> QED  BY <2>1, FdsAssumption DEF Init, TypeOK, ERROR
<1>2. LockInv /\ HandshakeInv /\ FoundInv /\ CountInv /\ LeftInv
  BY DEF Init, LockInv, HandshakeInv, FoundInv, CountInv, LeftInv, ERROR
<1>3. ResultCountsEvents /\ ZeroMeansTimeout /\ ScansAfterHandshake
  BY DEF Init, ResultCountsEvents, ZeroMeansTimeout, ScansAfterHandshake
<1> QED  BY <1>1, <1>2, <1>3 DEF IInv

(* A TSSX descriptor becomes ready.                                        *)
LEMMA TssxArrivesKeeps == ASSUME IInv, TssxArrives PROVE IInv'
<1>1. TypeOK'
  BY FdsAssumption DEF TssxArrives, IInv, TypeOK, main, normal
<1>2. LockInv' /\ HandshakeInv' /\ FoundInv' /\ CountInv' /\ LeftInv'
      /\ ResultCountsEvents' /\ ZeroMeansTimeout' /\ ScansAfterHandshake'
  BY DEF TssxArrives, IInv, LockInv, HandshakeInv, FoundInv, CountInv, LeftInv,
     ResultCountsEvents, ZeroMeansTimeout, ScansAfterHandshake, FoundByNormal,
     FoundByMain, TimedOut, Returned, main, normal
<1> QED  BY <1>1, <1>2 DEF IInv

(* An ordinary descriptor becomes ready.                                   *)
LEMMA NormalArrivesKeeps == ASSUME IInv, NormalArrives PROVE IInv'
<1>1. TypeOK'
  BY FdsAssumption DEF NormalArrives, IInv, TypeOK, main, normal
<1>2. LockInv' /\ HandshakeInv' /\ FoundInv' /\ CountInv' /\ LeftInv'
      /\ ResultCountsEvents' /\ ZeroMeansTimeout' /\ ScansAfterHandshake'
  BY DEF NormalArrives, IInv, LockInv, HandshakeInv, FoundInv, CountInv,
     LeftInv, ResultCountsEvents, ZeroMeansTimeout, ScansAfterHandshake,
     FoundByNormal, FoundByMain, TimedOut, Returned, main, normal
<1> QED  BY <1>1, <1>2 DEF IInv

(* The time is up.                                                         *)
LEMMA ExpireKeeps == ASSUME IInv, Expire PROVE IInv'
<1>1. TypeOK'
  BY DEF Expire, IInv, TypeOK, main, normal
<1>2. LeftInv'
  BY DEF Expire, IInv, LeftInv, TimedOut, main
<1>3. ZeroMeansTimeout'
  BY DEF Expire, ZeroMeansTimeout
<1>4. LockInv' /\ HandshakeInv' /\ FoundInv' /\ CountInv'
      /\ ResultCountsEvents' /\ ScansAfterHandshake'
  BY DEF Expire, IInv, LockInv, HandshakeInv, FoundInv, CountInv,
     ResultCountsEvents, ScansAfterHandshake, FoundByNormal, FoundByMain,
     Returned, main, normal
<1> QED  BY <1>1, <1>2, <1>3, <1>4 DEF IInv

(* The application deals with what is ready, between calls.                *)
LEMMA ConsumeKeeps == ASSUME IInv, Consume PROVE IInv'
<1>1. TypeOK'
  BY FdsAssumption DEF Consume, IInv, TypeOK, main, normal
<1>2. LockInv' /\ HandshakeInv' /\ FoundInv' /\ CountInv' /\ LeftInv'
      /\ ResultCountsEvents' /\ ZeroMeansTimeout' /\ ScansAfterHandshake'
  BY DEF Consume, IInv, LockInv, HandshakeInv, FoundInv, CountInv, LeftInv,
     ResultCountsEvents, ZeroMeansTimeout, ScansAfterHandshake, Returned, main,
     normal
<1> QED  BY <1>1, <1>2 DEF IInv

(* A call starts: both threads' results of the last one are forgotten.     *)
LEMMA CallKeeps == ASSUME IInv, Call PROVE IInv'
<1>0. timeout' \in {"forever", "zero", "finite"}
  BY TimeoutsAssumption DEF Call
<1>a. expired' \in BOOLEAN /\ woken' \in BOOLEAN /\ ready' \in BOOLEAN
  BY DEF Call, Fresh
<1>1. TypeOK'
  BY FdsAssumption, <1>0, <1>a DEF Call, IInv, TypeOK, Fresh, ERROR, MGoto
<1>2. LockInv'
  BY DEF Call, IInv, LockInv, HandshakeInv, MGoto
<1>3. HandshakeInv'
  BY DEF Call, HandshakeInv, Fresh, MGoto
<1>4. FoundInv'
  BY DEF Call, FoundInv, ERROR
<1>5. CountInv'
  BY DEF Call, CountInv, FoundByNormal, FoundByMain, Fresh
<1>6. LeftInv'
  BY DEF Call, LeftInv, MGoto
<1>7. ResultCountsEvents'
  BY DEF Call, ResultCountsEvents, Returned, MGoto
<1>8. ZeroMeansTimeout'
  BY DEF Call, ZeroMeansTimeout, Returned, MGoto
<1>9. ScansAfterHandshake'
  BY DEF Call, ScansAfterHandshake, MGoto
<1> QED  BY <1>1, <1>2, <1>3, <1>4, <1>5, <1>6, <1>7, <1>8, <1>9 DEF IInv

(* _wait_for_normal_thread locks, first or after a wake-up.                *)
LEMMA MLockKeeps == ASSUME IInv, MLock PROVE IInv'
<1>1. TypeOK'
  BY DEF MLock, IInv, TypeOK, env, normal, MGoto
<1>2. LockInv'
  BY DEF MLock, IInv, LockInv, normal, MGoto
<1>3. HandshakeInv'
  BY DEF MLock, IInv, HandshakeInv, normal, MGoto
<1>4. FoundInv'
  BY DEF MLock, IInv, FoundInv, normal
<1>5. CountInv'
  BY DEF MLock, IInv, CountInv, FoundByNormal, FoundByMain, normal, MGoto
<1>6. LeftInv'
  BY DEF MLock, LeftInv, MGoto
<1>7. ResultCountsEvents'
  BY DEF MLock, ResultCountsEvents, Returned, MGoto
<1>8. ZeroMeansTimeout'
  BY DEF MLock, ZeroMeansTimeout, Returned, MGoto
<1>9. ScansAfterHandshake'
  BY DEF MLock, ScansAfterHandshake, MGoto
<1> QED  BY <1>1, <1>2, <1>3, <1>4, <1>5, <1>6, <1>7, <1>8, <1>9 DEF IInv

(* pthread_cond_wait returns without a signal.                             *)
LEMMA MSpuriousWakeKeeps == ASSUME IInv, MSpuriousWake PROVE IInv'
<1>1. TypeOK'
  BY DEF MSpuriousWake, IInv, TypeOK, env, normal
<1>2. HandshakeInv'
  BY DEF MSpuriousWake, IInv, HandshakeInv, normal
<1>3. LockInv' /\ FoundInv' /\ CountInv' /\ LeftInv' /\ ResultCountsEvents'
      /\ ZeroMeansTimeout' /\ ScansAfterHandshake'
  BY DEF MSpuriousWake, IInv, LockInv, FoundInv, CountInv, LeftInv,
     ResultCountsEvents, ZeroMeansTimeout, ScansAfterHandshake, FoundByNormal,
     FoundByMain, Returned, normal
<1> QED  BY <1>1, <1>2, <1>3 DEF IInv

(* It looks at the flag, and scans or sleeps.                              *)
LEMMA MTestKeeps == ASSUME IInv, MTest PROVE IInv'
<1>1. TypeOK'
  BY DEF MTest, IInv, TypeOK, env, normal, MGoto
<1>2. LockInv'
  BY DEF MTest, IInv, LockInv, normal, MGoto
<1>3. HandshakeInv'
  BY DEF MTest, IInv, HandshakeInv, normal, MGoto
<1>4. FoundInv'
  BY DEF MTest, IInv, FoundInv, normal
<1>5. CountInv'
  BY DEF MTest, IInv, CountInv, FoundByNormal, FoundByMain, normal, MGoto
<1>6. LeftInv'
  BY DEF MTest, LeftInv, MGoto
<1>7. ResultCountsEvents'
  BY DEF MTest, ResultCountsEvents, Returned, MGoto
<1>8. ZeroMeansTimeout'
  BY DEF MTest, ZeroMeansTimeout, Returned, MGoto
<1>9. ScansAfterHandshake'
  BY DEF MTest, IInv, HandshakeInv, ScansAfterHandshake, normal, MGoto
<1> QED  BY <1>1, <1>2, <1>3, <1>4, <1>5, <1>6, <1>7, <1>8, <1>9 DEF IInv

(* One loop over the TSSX descriptors.                                     *)
LEMMA MScanKeeps == ASSUME IInv, MScan PROVE IInv'
<1>1. TypeOK'
  BY DEF MScan, IInv, TypeOK, env, normal, MGoto
<1>2. LockInv'
  BY DEF MScan, IInv, LockInv, normal, MGoto
<1>3. HandshakeInv'
  BY DEF MScan, IInv, HandshakeInv, normal, MGoto
<1>4. FoundInv'
  BY DEF MScan, IInv, FoundInv, normal, MGoto
<1>5. CountInv'
  BY DEF MScan, IInv, CountInv, FoundByNormal, FoundByMain, normal, MGoto
<1>6. LeftInv'
  BY DEF MScan, LeftInv, MGoto
<1>7. ResultCountsEvents'
  BY DEF MScan, ResultCountsEvents, Returned, MGoto
<1>8. ZeroMeansTimeout'
  BY DEF MScan, ZeroMeansTimeout, Returned, MGoto
<1>9. ScansAfterHandshake'
  BY DEF MScan, IInv, ScansAfterHandshake, normal
<1> QED  BY <1>1, <1>2, <1>3, <1>4, <1>5, <1>6, <1>7, <1>8, <1>9 DEF IInv

(* The main thread decides by the shared count.                            *)
LEMMA MLoadKeeps == ASSUME IInv, MLoad PROVE IInv'
<1>1. TypeOK'
  BY DEF MLoad, IInv, TypeOK, AfterLoop, env, normal, MGoto
<1>2. LockInv'
  BY DEF MLoad, IInv, LockInv, AfterLoop, normal, MGoto
<1>3. HandshakeInv'
  BY DEF MLoad, IInv, HandshakeInv, AfterLoop, normal, MGoto
<1>4. FoundInv'
  BY DEF MLoad, IInv, TypeOK, FoundInv, AfterLoop, normal, MGoto
<1>5. CountInv'
  BY DEF MLoad, IInv, FoundInv, CountInv, FoundByNormal, FoundByMain,
     AfterLoop, ERROR, normal, MGoto
<1>6. LeftInv'
  BY DEF MLoad, IInv, FoundInv, CountInv, LeftInv, FoundByNormal, FoundByMain,
     TimedOut, AfterLoop, ERROR, env, normal, MGoto
<1>7. ResultCountsEvents'
  BY DEF MLoad, ResultCountsEvents, Returned, AfterLoop, MGoto
<1>8. ZeroMeansTimeout'
  BY DEF MLoad, ZeroMeansTimeout, Returned, AfterLoop, MGoto
<1>9. ScansAfterHandshake'
  BY DEF MLoad, IInv, ScansAfterHandshake, normal
<1> QED  BY <1>1, <1>2, <1>3, <1>4, <1>5, <1>6, <1>7, <1>8, <1>9 DEF IInv

(* The signal, which ends the real poll if the thread is in it.            *)
LEMMA MKillKeeps == ASSUME IInv, MKill PROVE IInv'
<1>1. TypeOK'
  BY FdsAssumption DEF MKill, IInv, TypeOK, ERROR, env, MGoto
<1>2. LockInv'
  BY DEF MKill, IInv, LockInv, MGoto
<1>3. HandshakeInv'
  BY DEF MKill, IInv, HandshakeInv, MGoto
<1>4. FoundInv'
  BY DEF MKill, IInv, FoundInv, MGoto
<1>5. CountInv'
  BY DEF MKill, IInv, CountInv, FoundByNormal, FoundByMain, MGoto
<1>6. LeftInv'
  BY DEF MKill, IInv, LeftInv
<1>7. ResultCountsEvents'
  BY DEF MKill, ResultCountsEvents, Returned, MGoto
<1>8. ZeroMeansTimeout'
  BY DEF MKill, ZeroMeansTimeout, Returned, MGoto
<1>9. ScansAfterHandshake'
  BY DEF MKill, IInv, ScansAfterHandshake
<1> QED  BY <1>1, <1>2, <1>3, <1>4, <1>5, <1>6, <1>7, <1>8, <1>9 DEF IInv

(* The main thread adds what it found.                                     *)
LEMMA MAddKeeps == ASSUME IInv, MAdd PROVE IInv'
<1>1. TypeOK'
  BY FdsAssumption DEF MAdd, IInv, TypeOK, CountInv, FoundByNormal,
     FoundByMain, ERROR, env, normal, MGoto
<1>2. LockInv'
  BY DEF MAdd, IInv, LockInv, normal, MGoto
<1>3. HandshakeInv'
  BY DEF MAdd, IInv, HandshakeInv, normal, MGoto
<1>4. FoundInv'
  BY DEF MAdd, IInv, FoundInv, normal, MGoto
<1>5. CountInv'
  BY DEF MAdd, IInv, TypeOK, CountInv, FoundByNormal, FoundByMain, normal,
     MGoto
<1>6. LeftInv'
  BY DEF MAdd, IInv, LeftInv, TimedOut, env, normal, MGoto
<1>7. ResultCountsEvents'
  BY DEF MAdd, ResultCountsEvents, Returned, MGoto
<1>8. ZeroMeansTimeout'
  BY DEF MAdd, ZeroMeansTimeout, Returned, MGoto
<1>9. ScansAfterHandshake'
  BY DEF MAdd, IInv, ScansAfterHandshake, normal
<1> QED  BY <1>1, <1>2, <1>3, <1>4, <1>5, <1>6, <1>7, <1>8, <1>9 DEF IInv

(* The join: the count becomes the result.                                 *)
LEMMA MJoinKeeps == ASSUME IInv, MJoin PROVE IInv'
<1>1. TypeOK'
  BY DEF MJoin, IInv, TypeOK, env, normal, MGoto
<1>2. LockInv'
  BY DEF MJoin, IInv, LockInv, normal, MGoto
<1>3. HandshakeInv'
  BY DEF MJoin, HandshakeInv, normal, MGoto
<1>4. FoundInv'
  BY DEF MJoin, IInv, FoundInv, normal, MGoto
<1>5. CountInv'
  BY DEF MJoin, CountInv, MGoto
<1>6. LeftInv'
  BY DEF MJoin, LeftInv, MGoto
<1>7. ResultCountsEvents'
  BY DEF MJoin, IInv, FoundInv, CountInv, ResultCountsEvents, FoundByNormal,
     FoundByMain, normal
<1>8. ZeroMeansTimeout'
  BY DEF MJoin, IInv, TypeOK, CountInv, LeftInv, ZeroMeansTimeout,
     FoundByNormal, FoundByMain, TimedOut, ERROR, env, normal
<1>9. ScansAfterHandshake'
  BY DEF MJoin, ScansAfterHandshake, MGoto
<1> QED  BY <1>1, <1>2, <1>3, <1>4, <1>5, <1>6, <1>7, <1>8, <1>9 DEF IInv

(* _signal_tssx_thread locks.                                              *)
LEMMA NLockKeeps == ASSUME IInv, NLock PROVE IInv'
<1>1. TypeOK'
  BY DEF NLock, IInv, TypeOK, env, main, NGoto
<1>2. LockInv'
  BY DEF NLock, IInv, LockInv, main, NGoto
<1>3. HandshakeInv'
  BY DEF NLock, IInv, HandshakeInv, main, NGoto
<1>4. FoundInv'
  BY DEF NLock, IInv, FoundInv, main, NGoto
<1>5. CountInv'
  BY DEF NLock, IInv, CountInv, FoundByNormal, FoundByMain, main, NGoto
<1>6. LeftInv'
  BY DEF NLock, IInv, LeftInv, TimedOut, env, main, NGoto
<1>7. ScansAfterHandshake'
  BY DEF NLock, IInv, ScansAfterHandshake, main, NGoto
<1>8. ResultCountsEvents' /\ ZeroMeansTimeout'
  BY DEF NLock, IInv, ResultCountsEvents, ZeroMeansTimeout, Returned, env,
     main, NGoto
<1> QED  BY <1>1, <1>2, <1>3, <1>4, <1>5, <1>6, <1>7, <1>8 DEF IInv

(* It sets the flag and wakes the main thread if that sleeps.              *)
LEMMA NReadyKeeps == ASSUME IInv, NReady PROVE IInv'
<1>1. TypeOK'
  BY DEF NReady, IInv, TypeOK, env
<1>2. LockInv'
  BY DEF NReady, IInv, LockInv
<1>3. HandshakeInv'
  BY DEF NReady, IInv, HandshakeInv
<1>4. FoundInv'
  BY DEF NReady, IInv, FoundInv
<1>5. CountInv'
  BY DEF NReady, IInv, CountInv, FoundByNormal, FoundByMain
<1>6. LeftInv'
  BY DEF NReady, IInv, LeftInv, TimedOut, env
<1>7. ScansAfterHandshake'
  BY DEF NReady, ScansAfterHandshake
<1>8. ResultCountsEvents' /\ ZeroMeansTimeout'
  BY DEF NReady, IInv, ResultCountsEvents, ZeroMeansTimeout, Returned, env
<1> QED  BY <1>1, <1>2, <1>3, <1>4, <1>5, <1>6, <1>7, <1>8 DEF IInv

(* It unlocks.                                                             *)
LEMMA NUnlockKeeps == ASSUME IInv, NUnlock PROVE IInv'
<1>1. TypeOK'
  BY DEF NUnlock, IInv, TypeOK, env, main, NGoto
<1>2. LockInv'
  BY DEF NUnlock, IInv, LockInv, main, NGoto
<1>3. HandshakeInv'
  BY DEF NUnlock, IInv, HandshakeInv, main, NGoto
<1>4. FoundInv'
  BY DEF NUnlock, IInv, FoundInv, main, NGoto
<1>5. CountInv'
  BY DEF NUnlock, IInv, CountInv, FoundByNormal, FoundByMain, main, NGoto
<1>6. LeftInv'
  BY DEF NUnlock, IInv, LeftInv, TimedOut, env, main, NGoto
<1>7. ScansAfterHandshake'
  BY DEF NUnlock, ScansAfterHandshake, NGoto
<1>8. ResultCountsEvents' /\ ZeroMeansTimeout'
  BY DEF NUnlock, IInv, ResultCountsEvents, ZeroMeansTimeout, Returned, env,
     main, NGoto
<1> QED  BY <1>1, <1>2, <1>3, <1>4, <1>5, <1>6, <1>7, <1>8 DEF IInv

(* The normal thread's look at the count.                                  *)
LEMMA NCheckKeeps == ASSUME IInv, NCheck PROVE IInv'
<1>1. TypeOK'
  BY DEF NCheck, IInv, TypeOK, env, main, NGoto
<1>2. LockInv'
  BY DEF NCheck, IInv, LockInv, main, NGoto
<1>3. HandshakeInv'
  BY DEF NCheck, IInv, HandshakeInv, main, NGoto
<1>4. FoundInv'
  BY DEF NCheck, IInv, FoundInv, main, NGoto
<1>5. CountInv'
  BY DEF NCheck, IInv, CountInv, FoundByNormal, FoundByMain, main, NGoto
<1>6. LeftInv'
  BY DEF NCheck, IInv, LeftInv, TimedOut, env, main, NGoto
<1>7. ScansAfterHandshake'
  BY DEF NCheck, ScansAfterHandshake, NGoto
<1>8. ResultCountsEvents' /\ ZeroMeansTimeout'
  BY DEF NCheck, IInv, ResultCountsEvents, ZeroMeansTimeout, Returned, env,
     main, NGoto
<1> QED  BY <1>1, <1>2, <1>3, <1>4, <1>5, <1>6, <1>7, <1>8 DEF IInv

(* It enters the real poll.                                                *)
LEMMA NEnterKeeps == ASSUME IInv, NEnter PROVE IInv'
<1>1. TypeOK'
  BY DEF NEnter, IInv, TypeOK, env, main, NGoto
<1>2. LockInv'
  BY DEF NEnter, IInv, LockInv, main, NGoto
<1>3. HandshakeInv'
  BY DEF NEnter, IInv, HandshakeInv, main, NGoto
<1>4. FoundInv'
  BY DEF NEnter, IInv, FoundInv, main, NGoto
<1>5. CountInv'
  BY DEF NEnter, IInv, CountInv, FoundByNormal, FoundByMain, main, NGoto
<1>6. LeftInv'
  BY DEF NEnter, IInv, LeftInv, TimedOut, env, main, NGoto
<1>7. ScansAfterHandshake'
  BY DEF NEnter, ScansAfterHandshake, NGoto
<1>8. ResultCountsEvents' /\ ZeroMeansTimeout'
  BY DEF NEnter, IInv, ResultCountsEvents, ZeroMeansTimeout, Returned, env,
     main, NGoto
<1> QED  BY <1>1, <1>2, <1>3, <1>4, <1>5, <1>6, <1>7, <1>8 DEF IInv

(* The real poll finds events, or times out.                               *)
LEMMA NPollEndsKeeps == ASSUME IInv, NPollEnds PROVE IInv'
<1>1. TypeOK'
  BY DEF NPollEnds, IInv, TypeOK, ERROR, env, main, NGoto
<1>2. LockInv'
  BY DEF NPollEnds, IInv, LockInv, main, NGoto
<1>3. HandshakeInv'
  BY DEF NPollEnds, IInv, HandshakeInv, main, NGoto
<1>4. FoundInv'
  BY DEF NPollEnds, IInv, TypeOK, FoundInv, ERROR, main, NGoto
<1>5. CountInv'
  BY DEF NPollEnds, IInv, CountInv, FoundByNormal, FoundByMain, main, NGoto
<1>6. LeftInv'
  BY DEF NPollEnds, IInv, LeftInv, TimedOut, env, main, NGoto
<1>7. ResultCountsEvents'
  BY DEF NPollEnds, IInv, HandshakeInv, ResultCountsEvents, Returned, main,
     NGoto
<1>8. ScansAfterHandshake'
  BY DEF NPollEnds, ScansAfterHandshake, NGoto
<1>9. ZeroMeansTimeout'
  BY DEF NPollEnds, IInv, ZeroMeansTimeout, Returned, env, main, NGoto
<1> QED  BY <1>1, <1>2, <1>3, <1>4, <1>5, <1>6, <1>7, <1>8, <1>9 DEF IInv

(* The real poll fails.                                                    *)
LEMMA NPollFailsKeeps == ASSUME IInv, NPollFails PROVE IInv'
<1>1. TypeOK'
  BY FdsAssumption DEF NPollFails, IInv, TypeOK, ERROR, env, main, NGoto
<1>2. LockInv'
  BY DEF NPollFails, IInv, LockInv, main, NGoto
<1>3. HandshakeInv'
  BY DEF NPollFails, IInv, HandshakeInv, main, NGoto
<1>4. FoundInv'
  BY DEF NPollFails, IInv, FoundInv, main, NGoto
<1>5. CountInv'
  BY DEF NPollFails, IInv, CountInv, FoundByNormal, FoundByMain, main, NGoto
<1>6. LeftInv'
  BY DEF NPollFails, IInv, FoundInv, LeftInv, TimedOut, ERROR, env, main, NGoto
<1>7. ResultCountsEvents'
  BY DEF NPollFails, IInv, HandshakeInv, ResultCountsEvents, Returned, main,
     NGoto
<1>8. ZeroMeansTimeout'
  BY DEF NPollFails, IInv, FoundInv, ZeroMeansTimeout, Returned, ERROR, env,
     main, NGoto
<1>9. ScansAfterHandshake'
  BY DEF NPollFails, ScansAfterHandshake, NGoto
<1> QED  BY <1>1, <1>2, <1>3, <1>4, <1>5, <1>6, <1>7, <1>8, <1>9 DEF IInv

(* The second look at the count.                                           *)
LEMMA NSeesErrorKeeps == ASSUME IInv, NSeesError PROVE IInv'
<1>1. TypeOK'
  BY DEF NSeesError, IInv, TypeOK, env, main, NGoto
<1>2. LockInv'
  BY DEF NSeesError, IInv, LockInv, main, NGoto
<1>3. HandshakeInv'
  BY DEF NSeesError, IInv, HandshakeInv, main, NGoto
<1>4. FoundInv'
  BY DEF NSeesError, IInv, FoundInv, main, NGoto
<1>5. CountInv'
  BY DEF NSeesError, IInv, TypeOK, CountInv, FoundByNormal, FoundByMain, ERROR,
     main, NGoto
<1>6. LeftInv'
  BY DEF NSeesError, IInv, LeftInv, TimedOut, env, main, NGoto
<1>7. ScansAfterHandshake'
  BY DEF NSeesError, ScansAfterHandshake, NGoto
<1>8. ResultCountsEvents' /\ ZeroMeansTimeout'
  BY DEF NSeesError, IInv, ResultCountsEvents, ZeroMeansTimeout, Returned, env,
     main, NGoto
<1> QED  BY <1>1, <1>2, <1>3, <1>4, <1>5, <1>6, <1>7, <1>8 DEF IInv

(* The normal thread adds what it found.                                   *)
LEMMA NReportKeeps == ASSUME IInv, NReport PROVE IInv'
<1>1. TypeOK'
  BY FdsAssumption DEF NReport, IInv, TypeOK, HandshakeInv, CountInv,
     FoundByNormal, FoundByMain, ERROR, env, main, NGoto
<1>2. LockInv'
  BY DEF NReport, IInv, LockInv, main, NGoto
<1>3. HandshakeInv'
  BY DEF NReport, IInv, HandshakeInv, main, NGoto
<1>4. FoundInv'
  BY DEF NReport, IInv, FoundInv, main, NGoto
<1>5. CountInv'
  BY DEF NReport, IInv, TypeOK, FoundInv, CountInv, FoundByNormal, FoundByMain,
     ERROR, main, NGoto
<1>6. LeftInv'
  BY DEF NReport, IInv, LeftInv, TimedOut, env, main, NGoto
<1>7. ScansAfterHandshake'
  BY DEF NReport, ScansAfterHandshake, NGoto
<1>8. ResultCountsEvents' /\ ZeroMeansTimeout'
  BY DEF NReport, IInv, ResultCountsEvents, ZeroMeansTimeout, Returned, env,
     main, NGoto
<1> QED  BY <1>1, <1>2, <1>3, <1>4, <1>5, <1>6, <1>7, <1>8 DEF IInv

-----------------------------------------------------------------------------
LEMMA NextKeeps == IInv /\ [Next]_vars => IInv'
<1> SUFFICES ASSUME IInv, [Next]_vars PROVE IInv'
  OBVIOUS
<1>1. CASE UNCHANGED vars
  BY <1>1 DEF vars, IInv, TypeOK, LockInv, HandshakeInv, FoundInv, CountInv,
     LeftInv, ResultCountsEvents, ZeroMeansTimeout, ScansAfterHandshake,
     FoundByNormal, FoundByMain, TimedOut, Returned, env, main, normal
<1>2. CASE Next
  <2>1. CASE MainStep
    BY <2>1, MLockKeeps, MTestKeeps, MScanKeeps, MLoadKeeps, MKillKeeps,
       MAddKeeps, MJoinKeeps DEF MainStep
  <2>2. CASE NormalStep
    BY <2>2, NLockKeeps, NReadyKeeps, NUnlockKeeps, NCheckKeeps, NEnterKeeps,
       NPollEndsKeeps, NSeesErrorKeeps, NReportKeeps DEF NormalStep
  <2>3. CASE TssxArrives \/ NormalArrives \/ Expire \/ Consume \/ Call
        \/ MSpuriousWake \/ NPollFails
    BY <2>3, TssxArrivesKeeps, NormalArrivesKeeps, ExpireKeeps, ConsumeKeeps,
       CallKeeps, MSpuriousWakeKeeps, NPollFailsKeeps
  <2> QED  BY <1>2, <2>1, <2>2, <2>3 DEF Next
<1> QED  BY <1>1, <1>2

(* The inductive invariant holds in every reachable state, for any numbers *)
(* of descriptors, timeouts and faults.                                    *)
THEOREM PollInvariant == Spec => []IInv
BY InitInv, NextKeeps, PTL DEF Spec

(* Unless the real poll fails, poll returns the number of descriptors      *)
(* whose revents it has set, each thread's finds counted once (the two     *)
(* atomic_fetch_add of _concurrent_tssx_poll and _normal_poll).            *)
THEOREM PollCountsEvents == Spec => []ResultCountsEvents
<1>1. IInv => ResultCountsEvents  BY DEF IInv
<1> QED  BY <1>1, PollInvariant, PTL

(* Unless the real poll fails, poll returns 0 only when the time is up.    *)
THEOREM PollZeroIsTimeout == Spec => []ZeroMeansTimeout
<1>1. IInv => ZeroMeansTimeout  BY DEF IInv
<1> QED  BY <1>1, PollInvariant, PTL

(* The main thread scans only after the normal thread of this call has     *)
(* announced itself (_wait_for_normal_thread), although the flag is left   *)
(* over from call to call and the wait may wake up for no reason.          *)
THEOREM PollStartsInStep == Spec => []ScansAfterHandshake
<1>1. IInv => ScansAfterHandshake  BY DEF IInv
<1> QED  BY <1>1, PollInvariant, PTL

(* No wake-up is lost: a main thread that sleeps and has not been woken    *)
(* has the other thread's signal still before it.                          *)
NoLostWakeup == mpc = "sleep" /\ ~woken => npc \in {"lock", "ready"}

THEOREM PollWakesUp == Spec => []NoLostWakeup
<1>1. IInv => NoLostWakeup  BY DEF IInv, HandshakeInv, NoLostWakeup
<1> QED  BY <1>1, PollInvariant, PTL

-----------------------------------------------------------------------------
(* The world moves as it does around one thread.                           *)
LEMMA WorldAnswers ==
  ASSUME TssxArrives \/ NormalArrives \/ Expire \/ Consume
  PROVE  Answer!Next
<1>1. CASE TssxArrives
  BY <1>1 DEF TssxArrives, main, normal, Answer!Next, Answer!Arrive
<1>2. CASE NormalArrives
  BY <1>2 DEF NormalArrives, main, normal, Answer!Next, Answer!Arrive
<1>3. CASE Expire
  BY <1>3 DEF Expire, main, normal, Answer!Next, Answer!Expire
<1>4. CASE Consume
  BY <1>4 DEF Consume, main, normal, Answer!Next, Answer!Consume
<1> QED  BY <1>1, <1>2, <1>3, <1>4

(* What a step between the finds and the return is: inside a call, and     *)
(* nothing of the answer.                                                  *)
Between == /\ mpc # "idle" /\ mpc' # "idle"
           /\ UNCHANGED <<tReady, nReady, timeout, expired, tRevents, nRevents, result>>

LEMMA BetweenAnswers == Between => UNCHANGED Answer!vars
BY DEF Between, Answer!vars

(* The main thread's handshake, decisions, signal and addition.            *)
LEMMA MainIsBetween ==
  ASSUME MLock \/ MSpuriousWake \/ MTest \/ MLoad \/ MKill \/ MAdd
  PROVE  Between
BY DEF MLock, MSpuriousWake, MTest, MLoad, MKill, MAdd, AfterLoop, MGoto, env,
   normal, Between

(* The normal thread runs only inside a call; only the end of the real     *)
(* poll is seen.                                                           *)
LEMMA NormalIsBetween ==
  ASSUME IInv, NLock \/ NReady \/ NUnlock \/ NCheck \/ NEnter \/ NSeesError
                 \/ NReport \/ NPollFails
  PROVE  Between
<1>1. npc # "done" /\ HandshakeInv
  BY DEF IInv, NLock, NReady, NUnlock, NCheck, NEnter, NSeesError, NReport,
     NPollFails
<1>2. mpc # "idle"
  BY <1>1 DEF HandshakeInv
<1> QED
  BY <1>2 DEF NLock, NReady, NUnlock, NCheck, NEnter, NSeesError, NReport,
     NPollFails, NGoto, env, main, Between

LEMMA CallAnswers == ASSUME Call PROVE Answer!Begin
BY DEF Call, MGoto, Fresh, Answer!Begin

(* The scan that finds something is the first that does.                   *)
LEMMA ScanAnswers == ASSUME IInv, MScan PROVE Answer!FindTssx
<1>1. tRevents = 0
  BY DEF IInv, FoundInv, MScan
<1> QED  BY <1>1 DEF MScan, MGoto, env, normal, Answer!FindTssx

LEMMA PollEndsAnswers == ASSUME IInv, NPollEnds PROVE Answer!FindOthers
<1>1. mpc # "idle"
  BY DEF IInv, HandshakeInv, NPollEnds
<1>2. nRevents = 0
  BY DEF IInv, FoundInv, NPollEnds, ERROR
<1> QED  BY <1>1, <1>2 DEF NPollEnds, NGoto, env, main, Answer!FindOthers

(* When both threads are through, the count is the answer.                 *)
LEMMA JoinAnswers == ASSUME IInv, MJoin PROVE Answer!Return
<1>1. /\ mpc = "join" /\ npc = "done" /\ result' = count /\ mpc' = "idle"
      /\ UNCHANGED <<tReady, nReady, timeout, expired, tRevents, nRevents>>
  BY DEF MJoin, MGoto, env, normal
<1>2. TypeOK /\ FoundInv /\ CountInv /\ LeftInv
  BY DEF IInv
<1>3. CASE nerrno = "other"
  <2>1. nRevents = 0 /\ "pollError" \in Faults
    BY <1>2, <1>3 DEF FoundInv
  <2>2. count \in {-1, tRevents - 1}
    BY <1>1, <1>2, <1>3 DEF TypeOK, FoundInv, CountInv, ERROR
  <2> QED  BY <1>1, <2>1, <2>2 DEF Answer!Return
<1>4. CASE nerrno # "other"
  <2>1. count = tRevents + nRevents
    BY <1>1, <1>2, <1>4 DEF TypeOK, FoundInv, CountInv, FoundByNormal,
       FoundByMain, ERROR
  <2>2. count = 0 => timeout = "zero" \/ expired
    BY <1>1, <1>2, <1>4, <2>1 DEF TypeOK, FoundInv, LeftInv, TimedOut, ERROR
  <2> QED  BY <1>1, <2>1, <2>2 DEF Answer!Return
<1> QED  BY <1>3, <1>4

LEMMA StepAnswers ==
  ASSUME IInv, [Next]_vars PROVE [Answer!Next]_(Answer!vars)
<1>1. CASE UNCHANGED vars
  BY <1>1 DEF vars, env, main, normal, Answer!vars
<1>2. CASE Call \/ MScan \/ NPollEnds \/ MJoin
  BY <1>2, CallAnswers, ScanAnswers, PollEndsAnswers, JoinAnswers
     DEF Answer!Next
<1>3. CASE MainStep \/ MSpuriousWake
  BY <1>2, <1>3, MainIsBetween, BetweenAnswers DEF MainStep
<1>4. CASE NormalStep \/ NPollFails
  BY <1>2, <1>4, NormalIsBetween, BetweenAnswers DEF NormalStep
<1>5. CASE TssxArrives \/ NormalArrives \/ Expire \/ Consume
  BY <1>5, WorldAnswers
<1> QED  BY <1>1, <1>2, <1>3, <1>4, <1>5 DEF Next

(* The two threads of _concurrent_poll, their count, handshake and signal  *)
(* together implement a poll: what it reports is ready, is reported once   *)
(* and before it returns, and is counted.                                  *)
THEOREM PollIsAnswer == Spec => ImplementsPollAnswer
<1>1. Init => Answer!Init
  BY DEF Init, Answer!Init
<1>2. IInv /\ [Next]_vars => [Answer!Next]_(Answer!vars)
  BY StepAnswers
<1> QED
  BY <1>1, <1>2, PollInvariant, PTL DEF Spec, Answer!Spec, ImplementsPollAnswer
=============================================================================
