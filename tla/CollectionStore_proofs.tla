------------------------ MODULE CollectionStore_proofs -------------------------
(******************************************************************************)
(* What holds of CollectionStore for any number of workers, queries and       *)
(* writes, whether triggers fail or not.                                      *)
(*                                                                            *)
(* The inductive invariant says who owns the lock at each stage of a job      *)
(* (LockInv), and what a worker and the cache know of the data at that stage  *)
(* (DataInv): a reader's result is current because the lock kept the writers  *)
(* out since it was read, and while a writer has yet to acknowledge its write *)
(* the cache is empty because the lock kept the readers out.                  *)
(******************************************************************************)
EXTENDS CollectionStore, FiniteSetTheorems, TLAPS

Owns(w) == writer = w \/ (writer = NoWorker /\ readers[w] = 1)

LockInv ==
    \A w \in Workers :
        /\ pc[w] \in ReadStages => locked[w] = 1 /\ Owns(w)
        /\ pc[w] \in WriteStages => locked[w] = 2 /\ writer = w
        /\ readers[w] = IF pc[w] \in ReadStages /\ writer # w THEN 1 ELSE 0

AckedInv == acked <= version /\ \A w \in Workers : floor[w] <= acked

KnownInv ==
    \A w \in Workers :
        /\ pc[w] \in {"set", "evict", "reset", "runlock", "invalidate",
           "ack"} => got[w] = version
        /\ pc[w] = "ack" => \A q \in Queries : cache[q] \notin Values

CachedInv == \A q \in Queries : cache[q] \in Values => acked <= cache[q]

PointerInv ==
    \A r \in QueryWorkers :
        \/ cursor[r] = NoCursor
        \/ cursor[r].value = EmptyEntry
        \/ cursor[r].value \in Values /\ cursor[r].floor <= cursor[r].value

DataInv == AckedInv /\ KnownInv /\ CachedInv /\ PointerInv

StoreInv ==
    /\ StoreTypeOK
    /\ LockInv
    /\ DataInv
    /\ CacheFresh
    /\ AnswersCurrent
--------------------------------------------------------------------------------
(* Types and the lock.                                                        *)

\* Whatever leaves the entries of Q behind leaves well-formed pointers.
LEMMA DangleType ==
    ASSUME NEW Q, cursor \in [QueryWorkers -> Pointer], Dangle(Q)
    PROVE  cursor' \in [QueryWorkers -> Pointer]
<1> SUFFICES ASSUME NEW r \in QueryWorkers PROVE cursor'[r] \in Pointer
    BY DEF Dangle
<1>1. cursor[r] \in Pointer
    OBVIOUS
<1>2. [at |-> cursor[r].at, live |-> FALSE,
      value |-> cursor[r].value, floor |-> cursor[r].floor] \in Pointer
    BY <1>1 DEF Pointer
<1>3. cursor'[r] \in {cursor[r], [at |-> cursor[r].at, live |-> FALSE,
                        value |-> cursor[r].value, floor |-> cursor[r].floor]}
    BY DEF Dangle
<1> QED
    BY <1>1, <1>2, <1>3

LEMMA NumberFacts ==
    /\ MaxVersion \in Nat
    /\ 0 \in Values
    /\ NoEntry \notin Values /\ EmptyEntry \notin Values /\ Garbage \notin Values
    /\ NoEntry # EmptyEntry
BY StoreAssumption DEF StoreAssumption, Values, NoEntry, EmptyEntry, Garbage

LEMMA InitLock == StoreInit => StoreTypeOK /\ LockInv
<1> SUFFICES ASSUME StoreInit PROVE StoreTypeOK /\ LockInv
    OBVIOUS
<1>1. NoCursor \in Pointer
    BY NumberFacts DEF NoCursor, Pointer
<1>2. StoreTypeOK
  <2>1. answer \in [value : Values \cup {Garbage}, floor : Values]
      BY NumberFacts DEF StoreInit
  <2>2. silent \in BOOLEAN /\ mapped \in BOOLEAN
      BY Zenon DEF StoreInit
  <2> QED
      BY <1>1, <2>1, <2>2, NumberFacts DEF StoreInit, StoreTypeOK, Stages
<1>3. LockInv
    BY StoreAssumption DEF StoreInit, LockInv, ReadStages, WriteStages
<1> QED
    BY <1>2, <1>3

\* A step of a worker with its job.
LEMMA JobLock ==
    ASSUME StoreTypeOK, LockInv, NEW w \in Workers,
           JobStep(w) \/ GetWrite(w)
    PROVE  StoreTypeOK' /\ LockInv'
<1>0. cursor \in [QueryWorkers -> Pointer]
    BY DEF StoreTypeOK, Pointer
<1>1. CASE ReadLock(w)
  <2>1. StoreTypeOK'
      BY <1>1, NumberFacts DEF ReadLock, LockForRead, CanRead, Goto, StoreTypeOK, LockInv,
         Owns, Pointer,
         lockVars, cacheVars, Values, Stages, ReadStages, WriteStages
  <2>2. LockInv'
      BY <1>1, StoreAssumption DEF StoreAssumption, ReadLock, LockForRead, CanRead, Goto,
         StoreTypeOK, LockInv, Owns,
         lockVars, ReadStages, WriteStages
  <2> QED
      BY <2>1, <2>2
<1>2. CASE RunQuery(w)
  <2>1. StoreTypeOK'
      BY <1>2, NumberFacts DEF RunQuery, Goto, StoreTypeOK, LockInv, Owns, Pointer,
         lockVars, cacheVars, Values, Stages, ReadStages, WriteStages
  <2>2. LockInv'
      BY <1>2, StoreAssumption DEF StoreAssumption, RunQuery, Goto, StoreTypeOK, LockInv, Owns,
         lockVars, ReadStages, WriteStages
  <2> QED
      BY <2>1, <2>2
<1>3. CASE CacheResult(w)
  <2>0. cursor' \in [QueryWorkers -> Pointer]
      BY <1>3, <1>0, DangleType DEF CacheResult, SetKey
  <2>1. StoreTypeOK'
      BY <1>3, <2>0, NumberFacts DEF CacheResult, SetKey, Goto, StoreTypeOK, LockInv, Owns,
         Pointer,
         lockVars, cacheVars, Values, Stages, ReadStages, WriteStages
  <2>2. LockInv'
      BY <1>3, StoreAssumption DEF StoreAssumption, CacheResult, SetKey, Goto, StoreTypeOK,
         LockInv, Owns,
         lockVars, ReadStages, WriteStages
  <2> QED
      BY <2>1, <2>2
<1>4. CASE SkipCache(w)
  <2>0. cursor' \in [QueryWorkers -> Pointer]
      BY <1>4, <1>0, DangleType DEF SkipCache, RemoveEntry, cacheVars
  <2>1. StoreTypeOK'
      BY <1>4, <2>0, NumberFacts DEF SkipCache, RemoveEntry, Goto, StoreTypeOK, LockInv,
         Owns, Pointer,
         lockVars, cacheVars, Values, Stages, ReadStages, WriteStages
  <2>2. LockInv'
      BY <1>4, StoreAssumption DEF StoreAssumption, SkipCache, RemoveEntry, Goto,
         StoreTypeOK, LockInv, Owns,
         lockVars, ReadStages, WriteStages
  <2> QED
      BY <2>1, <2>2
<1>5. CASE EvictAll(w)
  <2>0. cursor' \in [QueryWorkers -> Pointer]
      BY <1>5, <1>0, DangleType DEF EvictAll, InvalidateCache
  <2>1. StoreTypeOK'
      BY <1>5, <2>0, NumberFacts DEF EvictAll, InvalidateCache, Goto, StoreTypeOK, LockInv,
         Owns, Pointer,
         lockVars, cacheVars, Values, Stages, ReadStages, WriteStages
  <2>2. LockInv'
      BY <1>5, StoreAssumption DEF StoreAssumption, EvictAll, InvalidateCache, Goto,
         StoreTypeOK, LockInv, Owns,
         lockVars, ReadStages, WriteStages
  <2> QED
      BY <2>1, <2>2
<1>6. CASE CacheAgain(w)
  <2>0. cursor' \in [QueryWorkers -> Pointer]
      BY <1>6, <1>0, DangleType DEF CacheAgain, SetKey
  <2>1. StoreTypeOK'
      BY <1>6, <2>0, NumberFacts DEF CacheAgain, SetKey, Goto, StoreTypeOK, LockInv, Owns,
         Pointer,
         lockVars, cacheVars, Values, Stages, ReadStages, WriteStages
  <2>2. LockInv'
      BY <1>6, StoreAssumption DEF StoreAssumption, CacheAgain, SetKey, Goto, StoreTypeOK,
         LockInv, Owns,
         lockVars, ReadStages, WriteStages
  <2> QED
      BY <2>1, <2>2
<1>7. CASE AnswerQuery(w)
  <2>1. StoreTypeOK'
      BY <1>7, NumberFacts DEF AnswerQuery, Unlock, Finish, Goto, StoreTypeOK, LockInv, Owns,
         Pointer,
         lockVars, cacheVars, Values, Stages, ReadStages, WriteStages
  <2>2. LockInv'
      BY <1>7, StoreAssumption DEF StoreAssumption, AnswerQuery, Unlock, Finish, Goto,
         StoreTypeOK, LockInv, Owns,
         lockVars, ReadStages, WriteStages
  <2> QED
      BY <2>1, <2>2
<1>8. CASE Reopen(w)
  <2>1. StoreTypeOK'
      BY <1>8, NumberFacts DEF Reopen, LockAndUnlock, CanRead, Goto, StoreTypeOK, LockInv,
         Owns, Pointer,
         lockVars, cacheVars, Values, Stages, ReadStages, WriteStages
  <2>2. LockInv'
      BY <1>8, StoreAssumption DEF StoreAssumption, Reopen, LockAndUnlock, CanRead, Goto,
         StoreTypeOK, LockInv, Owns,
         lockVars, ReadStages, WriteStages
  <2> QED
      BY <2>1, <2>2
<1>9. CASE WriteLock(w)
  <2>1. StoreTypeOK'
      BY <1>9, NumberFacts DEF WriteLock, LockForWrite, CanWrite, Goto, StoreTypeOK, LockInv,
         Owns, Pointer,
         lockVars, cacheVars, Values, Stages, ReadStages, WriteStages
  <2>2. LockInv'
      BY <1>9, StoreAssumption DEF StoreAssumption, WriteLock, LockForWrite, CanWrite, Goto,
         StoreTypeOK, LockInv, Owns,
         lockVars, ReadStages, WriteStages
  <2> QED
      BY <2>1, <2>2
<1>10. CASE Store(w)
  <2>1. StoreTypeOK'
      BY <1>10, NumberFacts DEF Store, Change, Goto, StoreTypeOK, LockInv, Owns, Pointer,
         lockVars, cacheVars, Values, Stages, ReadStages, WriteStages
  <2>2. LockInv'
      BY <1>10, StoreAssumption DEF StoreAssumption, Store, Change, Goto, StoreTypeOK,
         LockInv, Owns,
         lockVars, ReadStages, WriteStages
  <2> QED
      BY <2>1, <2>2
<1>11. CASE StoreNothing(w)
  <2>1. StoreTypeOK'
      BY <1>11, NumberFacts DEF StoreNothing, Goto, StoreTypeOK, LockInv, Owns, Pointer,
         lockVars, cacheVars, Values, Stages, ReadStages, WriteStages
  <2>2. LockInv'
      BY <1>11, StoreAssumption DEF StoreAssumption, StoreNothing, Goto, StoreTypeOK,
         LockInv, Owns,
         lockVars, ReadStages, WriteStages
  <2> QED
      BY <2>1, <2>2
<1>12. CASE InsertTriggerFails(w)
  <2>0. silent' \in BOOLEAN
      BY <1>12, Zenon DEF InsertTriggerFails, StoreTypeOK
  <2>1. StoreTypeOK'
      BY <1>12, <2>0, NumberFacts DEF InsertTriggerFails, Change, Finish, Goto, StoreTypeOK,
         LockInv, Owns, Pointer,
         lockVars, cacheVars, Values, Stages, ReadStages, WriteStages
  <2>2. LockInv'
      BY <1>12, StoreAssumption DEF StoreAssumption, InsertTriggerFails, Change, Finish,
         Goto, StoreTypeOK, LockInv, Owns,
         lockVars, ReadStages, WriteStages
  <2> QED
      BY <2>1, <2>2
<1>13. CASE UpdateTriggerFails(w)
  <2>0. silent' \in BOOLEAN
      BY <1>13, Zenon DEF UpdateTriggerFails, StoreTypeOK
  <2>1. StoreTypeOK'
      BY <1>13, <2>0, NumberFacts DEF UpdateTriggerFails, Change, Goto, StoreTypeOK, LockInv,
         Owns, Pointer,
         lockVars, cacheVars, Values, Stages, ReadStages, WriteStages
  <2>2. LockInv'
      BY <1>13, StoreAssumption DEF StoreAssumption, UpdateTriggerFails, Change, Goto,
         StoreTypeOK, LockInv, Owns,
         lockVars, ReadStages, WriteStages
  <2> QED
      BY <2>1, <2>2
<1>14. CASE Invalidate(w)
  <2>0. cursor' \in [QueryWorkers -> Pointer]
      BY <1>14, <1>0, DangleType DEF Invalidate, InvalidateCache
  <2>1. StoreTypeOK'
      BY <1>14, <2>0, NumberFacts DEF Invalidate, InvalidateCache, Goto, StoreTypeOK,
         LockInv, Owns, Pointer,
         lockVars, cacheVars, Values, Stages, ReadStages, WriteStages
  <2>2. LockInv'
      BY <1>14, StoreAssumption DEF StoreAssumption, Invalidate, InvalidateCache, Goto,
         StoreTypeOK, LockInv, Owns,
         lockVars, ReadStages, WriteStages
  <2> QED
      BY <2>1, <2>2
<1>15. CASE AcknowledgeWrite(w)
  <2>1. StoreTypeOK'
      BY <1>15, NumberFacts DEF AcknowledgeWrite, Unlock, Finish, Goto, StoreTypeOK, LockInv,
         Owns, Pointer,
         lockVars, cacheVars, Values, Stages, ReadStages, WriteStages
  <2>2. LockInv'
      BY <1>15, StoreAssumption DEF StoreAssumption, AcknowledgeWrite, Unlock, Finish, Goto,
         StoreTypeOK, LockInv, Owns,
         lockVars, ReadStages, WriteStages
  <2> QED
      BY <2>1, <2>2
<1>16. CASE ReportNothing(w)
  <2>1. StoreTypeOK'
      BY <1>16, NumberFacts DEF ReportNothing, Unlock, Finish, Goto, StoreTypeOK, LockInv,
         Owns, Pointer,
         lockVars, cacheVars, Values, Stages, ReadStages, WriteStages
  <2>2. LockInv'
      BY <1>16, StoreAssumption DEF StoreAssumption, ReportNothing, Unlock, Finish, Goto,
         StoreTypeOK, LockInv, Owns,
         lockVars, ReadStages, WriteStages
  <2> QED
      BY <2>1, <2>2
<1>17. CASE GetWrite(w)
  <2>1. StoreTypeOK'
      BY <1>17, NumberFacts DEF GetWrite, Goto, StoreTypeOK, LockInv, Owns, Pointer,
         lockVars, cacheVars, Values, Stages, ReadStages, WriteStages
  <2>2. LockInv'
      BY <1>17, StoreAssumption DEF StoreAssumption, GetWrite, Goto, StoreTypeOK, LockInv, Owns,
         lockVars, ReadStages, WriteStages
  <2> QED
      BY <2>1, <2>2
<1> QED
    BY <1>1, <1>2, <1>3, <1>4, <1>5, <1>6, <1>7, <1>8, <1>9, <1>10, <1>11, <1>12,
       <1>13, <1>14, <1>15, <1>16, <1>17 DEF JobStep

--------------------------------------------------------------------------------
(* What is known of the data.                                                 *)

\* A pointer left behind still belongs to what it belonged to.
LEMMA DanglePointers ==
    ASSUME NEW Q, StoreTypeOK, PointerInv, Dangle(Q)
    PROVE  PointerInv'
<1> SUFFICES ASSUME NEW r \in QueryWorkers
             PROVE  \/ cursor'[r] = NoCursor
                    \/ cursor'[r].value = EmptyEntry
                    \/ cursor'[r].value \in Values /\ cursor'[r].floor <= cursor'[r].value
    BY DEF PointerInv
<1>1. CASE cursor[r] = NoCursor
  <2>1. cursor[r].at = NoQuery /\ cursor[r].value = NoEntry
        /\ cursor[r].floor = 0 /\ cursor[r].live = FALSE
      BY <1>1 DEF NoCursor
  <2>2. cursor'[r] \in {cursor[r], [at |-> cursor[r].at, live |-> FALSE,
                          value |-> cursor[r].value, floor |-> cursor[r].floor]}
      BY DEF Dangle
  <2>3. cursor'[r] = NoCursor
      BY <1>1, <2>1, <2>2 DEF NoCursor
  <2> QED
      BY <2>3
<1>2. CASE cursor[r] # NoCursor
  <2>1. cursor'[r].value = cursor[r].value /\ cursor'[r].floor = cursor[r].floor
      BY DEF Dangle
  <2> QED
      BY <1>2, <2>1 DEF PointerInv
<1> QED
    BY <1>1, <1>2

LEMMA JobData ==
    ASSUME StoreTypeOK, LockInv, DataInv, CacheFresh, AnswersCurrent,
           NEW w \in Workers, JobStep(w) \/ GetWrite(w)
    PROVE  DataInv' /\ CacheFresh' /\ AnswersCurrent'
<1>1. CASE ReadLock(w)
  <2>1. PointerInv'
      BY <1>1 DEF ReadLock, cacheVars, DataInv, PointerInv, Values
  <2>2. AckedInv' /\ KnownInv' /\ CachedInv'
      BY <1>1, NumberFacts, StoreAssumption DEF StoreAssumption, ReadLock, LockForRead,
         CanRead, Goto, StoreTypeOK, LockInv, Owns, DataInv,
         AckedInv, KnownInv, CachedInv, CacheFresh, lockVars, cacheVars, Values, ReadStages,
         WriteStages
  <2>3. CacheFresh'
      BY <1>1, NumberFacts, StoreAssumption DEF StoreAssumption, ReadLock, LockForRead,
         CanRead, Goto, StoreTypeOK, LockInv, Owns, DataInv,
         AckedInv, KnownInv, CachedInv, CacheFresh, lockVars, cacheVars, Values, ReadStages,
         WriteStages
  <2>4. AnswersCurrent'
      BY <1>1 DEF AnswersCurrent, ReadLock, LockForRead, CanRead, Goto, StoreTypeOK, LockInv,
         Owns, DataInv,
         AckedInv, KnownInv, CachedInv, CacheFresh, lockVars, cacheVars, Values, ReadStages,
         WriteStages
  <2> QED
      BY <2>1, <2>2, <2>3, <2>4 DEF DataInv
<1>2. CASE RunQuery(w)
  <2>1. PointerInv'
      BY <1>2 DEF RunQuery, cacheVars, DataInv, PointerInv, Values
  <2>2. AckedInv' /\ KnownInv' /\ CachedInv'
      BY <1>2, NumberFacts, StoreAssumption DEF StoreAssumption, RunQuery, Goto, StoreTypeOK,
         LockInv, Owns, DataInv,
         AckedInv, KnownInv, CachedInv, CacheFresh, lockVars, cacheVars, Values, ReadStages,
         WriteStages
  <2>3. CacheFresh'
      BY <1>2, NumberFacts, StoreAssumption DEF StoreAssumption, RunQuery, Goto, StoreTypeOK,
         LockInv, Owns, DataInv,
         AckedInv, KnownInv, CachedInv, CacheFresh, lockVars, cacheVars, Values, ReadStages,
         WriteStages
  <2>4. AnswersCurrent'
      BY <1>2 DEF AnswersCurrent, RunQuery, Goto, StoreTypeOK, LockInv, Owns, DataInv,
         AckedInv, KnownInv, CachedInv, CacheFresh, lockVars, cacheVars, Values, ReadStages,
         WriteStages
  <2> QED
      BY <2>1, <2>2, <2>3, <2>4 DEF DataInv
<1>3. CASE CacheResult(w)
  <2>1. PointerInv'
      BY <1>3, DanglePointers DEF CacheResult, SetKey, DataInv
  <2>2. AckedInv' /\ KnownInv' /\ CachedInv'
      BY <1>3, NumberFacts, StoreAssumption DEF StoreAssumption, CacheResult, SetKey, Goto,
         StoreTypeOK, LockInv, Owns, DataInv,
         AckedInv, KnownInv, CachedInv, CacheFresh, lockVars, cacheVars, Values, ReadStages,
         WriteStages
  <2>3. CacheFresh'
      BY <1>3, NumberFacts, StoreAssumption DEF StoreAssumption, CacheResult, SetKey, Goto,
         StoreTypeOK, LockInv, Owns, DataInv,
         AckedInv, KnownInv, CachedInv, CacheFresh, lockVars, cacheVars, Values, ReadStages,
         WriteStages
  <2>4. AnswersCurrent'
      BY <1>3 DEF AnswersCurrent, CacheResult, SetKey, Goto, StoreTypeOK, LockInv, Owns,
         DataInv,
         AckedInv, KnownInv, CachedInv, CacheFresh, lockVars, cacheVars, Values, ReadStages,
         WriteStages
  <2> QED
      BY <2>1, <2>2, <2>3, <2>4 DEF DataInv
<1>4. CASE SkipCache(w)
  <2>1. PointerInv'
      BY <1>4, DanglePointers DEF SkipCache, RemoveEntry, cacheVars, DataInv, PointerInv
  <2>2. AckedInv' /\ KnownInv' /\ CachedInv'
      BY <1>4, NumberFacts, StoreAssumption DEF StoreAssumption, SkipCache, RemoveEntry,
         Goto, StoreTypeOK, LockInv, Owns, DataInv,
         AckedInv, KnownInv, CachedInv, CacheFresh, lockVars, cacheVars, Values, ReadStages,
         WriteStages
  <2>3. CacheFresh'
      BY <1>4, NumberFacts, StoreAssumption DEF StoreAssumption, SkipCache, RemoveEntry,
         Goto, StoreTypeOK, LockInv, Owns, DataInv,
         AckedInv, KnownInv, CachedInv, CacheFresh, lockVars, cacheVars, Values, ReadStages,
         WriteStages
  <2>4. AnswersCurrent'
      BY <1>4 DEF AnswersCurrent, SkipCache, RemoveEntry, Goto, StoreTypeOK, LockInv, Owns,
         DataInv,
         AckedInv, KnownInv, CachedInv, CacheFresh, lockVars, cacheVars, Values, ReadStages,
         WriteStages
  <2> QED
      BY <2>1, <2>2, <2>3, <2>4 DEF DataInv
<1>5. CASE EvictAll(w)
  <2>1. PointerInv'
      BY <1>5, DanglePointers DEF EvictAll, InvalidateCache, DataInv
  <2>2. AckedInv' /\ KnownInv' /\ CachedInv'
      BY <1>5, NumberFacts, StoreAssumption DEF StoreAssumption, EvictAll, InvalidateCache,
         Goto, StoreTypeOK, LockInv, Owns, DataInv,
         AckedInv, KnownInv, CachedInv, CacheFresh, lockVars, cacheVars, Values, ReadStages,
         WriteStages
  <2>3. CacheFresh'
      BY <1>5, NumberFacts, StoreAssumption DEF StoreAssumption, EvictAll, InvalidateCache,
         Goto, StoreTypeOK, LockInv, Owns, DataInv,
         AckedInv, KnownInv, CachedInv, CacheFresh, lockVars, cacheVars, Values, ReadStages,
         WriteStages
  <2>4. AnswersCurrent'
      BY <1>5 DEF AnswersCurrent, EvictAll, InvalidateCache, Goto, StoreTypeOK, LockInv,
         Owns, DataInv,
         AckedInv, KnownInv, CachedInv, CacheFresh, lockVars, cacheVars, Values, ReadStages,
         WriteStages
  <2> QED
      BY <2>1, <2>2, <2>3, <2>4 DEF DataInv
<1>6. CASE CacheAgain(w)
  <2>1. PointerInv'
      BY <1>6, DanglePointers DEF CacheAgain, SetKey, DataInv
  <2>2. AckedInv' /\ KnownInv' /\ CachedInv'
      BY <1>6, NumberFacts, StoreAssumption DEF StoreAssumption, CacheAgain, SetKey, Goto,
         StoreTypeOK, LockInv, Owns, DataInv,
         AckedInv, KnownInv, CachedInv, CacheFresh, lockVars, cacheVars, Values, ReadStages,
         WriteStages
  <2>3. CacheFresh'
      BY <1>6, NumberFacts, StoreAssumption DEF StoreAssumption, CacheAgain, SetKey, Goto,
         StoreTypeOK, LockInv, Owns, DataInv,
         AckedInv, KnownInv, CachedInv, CacheFresh, lockVars, cacheVars, Values, ReadStages,
         WriteStages
  <2>4. AnswersCurrent'
      BY <1>6 DEF AnswersCurrent, CacheAgain, SetKey, Goto, StoreTypeOK, LockInv, Owns, DataInv,
         AckedInv, KnownInv, CachedInv, CacheFresh, lockVars, cacheVars, Values, ReadStages,
         WriteStages
  <2> QED
      BY <2>1, <2>2, <2>3, <2>4 DEF DataInv
<1>7. CASE AnswerQuery(w)
  <2>1. PointerInv'
      BY <1>7 DEF AnswerQuery, cacheVars, DataInv, PointerInv, Values
  <2>2. AckedInv' /\ KnownInv' /\ CachedInv'
      BY <1>7, NumberFacts, StoreAssumption DEF StoreAssumption, AnswerQuery, Unlock, Finish,
         Goto, StoreTypeOK, LockInv, Owns, DataInv,
         AckedInv, KnownInv, CachedInv, CacheFresh, lockVars, cacheVars, Values, ReadStages,
         WriteStages
  <2>3. CacheFresh'
      BY <1>7, NumberFacts, StoreAssumption DEF StoreAssumption, AnswerQuery, Unlock, Finish,
         Goto, StoreTypeOK, LockInv, Owns, DataInv,
         AckedInv, KnownInv, CachedInv, CacheFresh, lockVars, cacheVars, Values, ReadStages,
         WriteStages
  <2>4. AnswersCurrent'
      BY <1>7 DEF AnswersCurrent, AnswerQuery, Unlock, Finish, Goto, StoreTypeOK, LockInv,
         Owns, DataInv,
         AckedInv, KnownInv, CachedInv, CacheFresh, lockVars, cacheVars, Values, ReadStages,
         WriteStages
  <2> QED
      BY <2>1, <2>2, <2>3, <2>4 DEF DataInv
<1>8. CASE Reopen(w)
  <2>1. PointerInv'
      BY <1>8 DEF Reopen, cacheVars, DataInv, PointerInv, Values
  <2>2. AckedInv' /\ KnownInv' /\ CachedInv'
      BY <1>8, NumberFacts, StoreAssumption DEF StoreAssumption, Reopen, LockAndUnlock,
         CanRead, Goto, StoreTypeOK, LockInv, Owns, DataInv,
         AckedInv, KnownInv, CachedInv, CacheFresh, lockVars, cacheVars, Values, ReadStages,
         WriteStages
  <2>3. CacheFresh'
      BY <1>8, NumberFacts, StoreAssumption DEF StoreAssumption, Reopen, LockAndUnlock,
         CanRead, Goto, StoreTypeOK, LockInv, Owns, DataInv,
         AckedInv, KnownInv, CachedInv, CacheFresh, lockVars, cacheVars, Values, ReadStages,
         WriteStages
  <2>4. AnswersCurrent'
      BY <1>8 DEF AnswersCurrent, Reopen, LockAndUnlock, CanRead, Goto, StoreTypeOK, LockInv,
         Owns, DataInv,
         AckedInv, KnownInv, CachedInv, CacheFresh, lockVars, cacheVars, Values, ReadStages,
         WriteStages
  <2> QED
      BY <2>1, <2>2, <2>3, <2>4 DEF DataInv
<1>9. CASE WriteLock(w)
  <2>1. PointerInv'
      BY <1>9 DEF WriteLock, cacheVars, DataInv, PointerInv, Values
  <2>2. AckedInv' /\ KnownInv' /\ CachedInv'
      BY <1>9, NumberFacts, StoreAssumption DEF StoreAssumption, WriteLock, LockForWrite,
         CanWrite, Goto, StoreTypeOK, LockInv, Owns, DataInv,
         AckedInv, KnownInv, CachedInv, CacheFresh, lockVars, cacheVars, Values, ReadStages,
         WriteStages
  <2>3. CacheFresh'
      BY <1>9, NumberFacts, StoreAssumption DEF StoreAssumption, WriteLock, LockForWrite,
         CanWrite, Goto, StoreTypeOK, LockInv, Owns, DataInv,
         AckedInv, KnownInv, CachedInv, CacheFresh, lockVars, cacheVars, Values, ReadStages,
         WriteStages
  <2>4. AnswersCurrent'
      BY <1>9 DEF AnswersCurrent, WriteLock, LockForWrite, CanWrite, Goto, StoreTypeOK,
         LockInv, Owns, DataInv,
         AckedInv, KnownInv, CachedInv, CacheFresh, lockVars, cacheVars, Values, ReadStages,
         WriteStages
  <2> QED
      BY <2>1, <2>2, <2>3, <2>4 DEF DataInv
<1>10. CASE Store(w)
  <2>1. PointerInv'
      BY <1>10 DEF Store, cacheVars, DataInv, PointerInv, Values
  <2>2. AckedInv' /\ KnownInv' /\ CachedInv'
      BY <1>10, NumberFacts, StoreAssumption DEF StoreAssumption, Store, Change, Goto,
         StoreTypeOK, LockInv, Owns, DataInv,
         AckedInv, KnownInv, CachedInv, CacheFresh, lockVars, cacheVars, Values, ReadStages,
         WriteStages
  <2>3. CacheFresh'
      BY <1>10, NumberFacts, StoreAssumption DEF StoreAssumption, Store, Change, Goto,
         StoreTypeOK, LockInv, Owns, DataInv,
         AckedInv, KnownInv, CachedInv, CacheFresh, lockVars, cacheVars, Values, ReadStages,
         WriteStages
  <2>4. AnswersCurrent'
      BY <1>10 DEF AnswersCurrent, Store, Change, Goto, StoreTypeOK, LockInv, Owns, DataInv,
         AckedInv, KnownInv, CachedInv, CacheFresh, lockVars, cacheVars, Values, ReadStages,
         WriteStages
  <2> QED
      BY <2>1, <2>2, <2>3, <2>4 DEF DataInv
<1>11. CASE StoreNothing(w)
  <2>1. PointerInv'
      BY <1>11 DEF StoreNothing, cacheVars, DataInv, PointerInv, Values
  <2>2. AckedInv' /\ KnownInv' /\ CachedInv'
      BY <1>11, NumberFacts, StoreAssumption DEF StoreAssumption, StoreNothing, Goto,
         StoreTypeOK, LockInv, Owns, DataInv,
         AckedInv, KnownInv, CachedInv, CacheFresh, lockVars, cacheVars, Values, ReadStages,
         WriteStages
  <2>3. CacheFresh'
      BY <1>11, NumberFacts, StoreAssumption DEF StoreAssumption, StoreNothing, Goto,
         StoreTypeOK, LockInv, Owns, DataInv,
         AckedInv, KnownInv, CachedInv, CacheFresh, lockVars, cacheVars, Values, ReadStages,
         WriteStages
  <2>4. AnswersCurrent'
      BY <1>11 DEF AnswersCurrent, StoreNothing, Goto, StoreTypeOK, LockInv, Owns, DataInv,
         AckedInv, KnownInv, CachedInv, CacheFresh, lockVars, cacheVars, Values, ReadStages,
         WriteStages
  <2> QED
      BY <2>1, <2>2, <2>3, <2>4 DEF DataInv
<1>12. CASE InsertTriggerFails(w)
  <2>1. PointerInv'
      BY <1>12 DEF InsertTriggerFails, cacheVars, DataInv, PointerInv, Values
  <2>2. AckedInv' /\ KnownInv' /\ CachedInv'
      BY <1>12, NumberFacts, StoreAssumption DEF StoreAssumption, InsertTriggerFails, Change,
         Finish, Goto, StoreTypeOK, LockInv, Owns, DataInv,
         AckedInv, KnownInv, CachedInv, CacheFresh, lockVars, cacheVars, Values, ReadStages,
         WriteStages
  <2>3. CacheFresh'
      BY <1>12, NumberFacts, StoreAssumption DEF StoreAssumption, InsertTriggerFails, Change,
         Finish, Goto, StoreTypeOK, LockInv, Owns, DataInv,
         AckedInv, KnownInv, CachedInv, CacheFresh, lockVars, cacheVars, Values, ReadStages,
         WriteStages
  <2>4. AnswersCurrent'
      BY <1>12 DEF AnswersCurrent, InsertTriggerFails, Change, Finish, Goto, StoreTypeOK,
         LockInv, Owns, DataInv,
         AckedInv, KnownInv, CachedInv, CacheFresh, lockVars, cacheVars, Values, ReadStages,
         WriteStages
  <2> QED
      BY <2>1, <2>2, <2>3, <2>4 DEF DataInv
<1>13. CASE UpdateTriggerFails(w)
  <2>1. PointerInv'
      BY <1>13 DEF UpdateTriggerFails, cacheVars, DataInv, PointerInv, Values
  <2>2. AckedInv' /\ KnownInv' /\ CachedInv'
      BY <1>13, NumberFacts, StoreAssumption DEF StoreAssumption, UpdateTriggerFails, Change,
         Goto, StoreTypeOK, LockInv, Owns, DataInv,
         AckedInv, KnownInv, CachedInv, CacheFresh, lockVars, cacheVars, Values, ReadStages,
         WriteStages
  <2>3. CacheFresh'
      BY <1>13, NumberFacts, StoreAssumption DEF StoreAssumption, UpdateTriggerFails, Change,
         Goto, StoreTypeOK, LockInv, Owns, DataInv,
         AckedInv, KnownInv, CachedInv, CacheFresh, lockVars, cacheVars, Values, ReadStages,
         WriteStages
  <2>4. AnswersCurrent'
      BY <1>13 DEF AnswersCurrent, UpdateTriggerFails, Change, Goto, StoreTypeOK, LockInv,
         Owns, DataInv,
         AckedInv, KnownInv, CachedInv, CacheFresh, lockVars, cacheVars, Values, ReadStages,
         WriteStages
  <2> QED
      BY <2>1, <2>2, <2>3, <2>4 DEF DataInv
<1>14. CASE Invalidate(w)
  <2>1. PointerInv'
      BY <1>14, DanglePointers DEF Invalidate, InvalidateCache, DataInv
  <2>2. AckedInv' /\ KnownInv' /\ CachedInv'
      BY <1>14, NumberFacts, StoreAssumption DEF StoreAssumption, Invalidate,
         InvalidateCache, Goto, StoreTypeOK, LockInv, Owns, DataInv,
         AckedInv, KnownInv, CachedInv, CacheFresh, lockVars, cacheVars, Values, ReadStages,
         WriteStages
  <2>3. CacheFresh'
      BY <1>14, NumberFacts, StoreAssumption DEF StoreAssumption, Invalidate,
         InvalidateCache, Goto, StoreTypeOK, LockInv, Owns, DataInv,
         AckedInv, KnownInv, CachedInv, CacheFresh, lockVars, cacheVars, Values, ReadStages,
         WriteStages
  <2>4. AnswersCurrent'
      BY <1>14 DEF AnswersCurrent, Invalidate, InvalidateCache, Goto, StoreTypeOK, LockInv,
         Owns, DataInv,
         AckedInv, KnownInv, CachedInv, CacheFresh, lockVars, cacheVars, Values, ReadStages,
         WriteStages
  <2> QED
      BY <2>1, <2>2, <2>3, <2>4 DEF DataInv
<1>15. CASE AcknowledgeWrite(w)
  <2>1. PointerInv'
      BY <1>15 DEF AcknowledgeWrite, cacheVars, DataInv, PointerInv, Values
  <2>2. AckedInv' /\ KnownInv' /\ CachedInv'
      BY <1>15, NumberFacts, StoreAssumption DEF StoreAssumption, AcknowledgeWrite, Unlock,
         Finish, Goto, StoreTypeOK, LockInv, Owns, DataInv,
         AckedInv, KnownInv, CachedInv, CacheFresh, lockVars, cacheVars, Values, ReadStages,
         WriteStages
  <2>3. CacheFresh'
      BY <1>15, NumberFacts, StoreAssumption DEF StoreAssumption, AcknowledgeWrite, Unlock,
         Finish, Goto, StoreTypeOK, LockInv, Owns, DataInv,
         AckedInv, KnownInv, CachedInv, CacheFresh, lockVars, cacheVars, Values, ReadStages,
         WriteStages
  <2>4. AnswersCurrent'
      BY <1>15 DEF AnswersCurrent, AcknowledgeWrite, Unlock, Finish, Goto, StoreTypeOK,
         LockInv, Owns, DataInv,
         AckedInv, KnownInv, CachedInv, CacheFresh, lockVars, cacheVars, Values, ReadStages,
         WriteStages
  <2> QED
      BY <2>1, <2>2, <2>3, <2>4 DEF DataInv
<1>16. CASE ReportNothing(w)
  <2>1. PointerInv'
      BY <1>16 DEF ReportNothing, cacheVars, DataInv, PointerInv, Values
  <2>2. AckedInv' /\ KnownInv' /\ CachedInv'
      BY <1>16, NumberFacts, StoreAssumption DEF StoreAssumption, ReportNothing, Unlock,
         Finish, Goto, StoreTypeOK, LockInv, Owns, DataInv,
         AckedInv, KnownInv, CachedInv, CacheFresh, lockVars, cacheVars, Values, ReadStages,
         WriteStages
  <2>3. CacheFresh'
      BY <1>16, NumberFacts, StoreAssumption DEF StoreAssumption, ReportNothing, Unlock,
         Finish, Goto, StoreTypeOK, LockInv, Owns, DataInv,
         AckedInv, KnownInv, CachedInv, CacheFresh, lockVars, cacheVars, Values, ReadStages,
         WriteStages
  <2>4. AnswersCurrent'
      BY <1>16 DEF AnswersCurrent, ReportNothing, Unlock, Finish, Goto, StoreTypeOK, LockInv,
         Owns, DataInv,
         AckedInv, KnownInv, CachedInv, CacheFresh, lockVars, cacheVars, Values, ReadStages,
         WriteStages
  <2> QED
      BY <2>1, <2>2, <2>3, <2>4 DEF DataInv
<1>17. CASE GetWrite(w)
  <2>1. PointerInv'
      BY <1>17 DEF GetWrite, cacheVars, DataInv, PointerInv, Values
  <2>2. AckedInv' /\ KnownInv' /\ CachedInv'
      BY <1>17, NumberFacts, StoreAssumption DEF StoreAssumption, GetWrite, Goto,
         StoreTypeOK, LockInv, Owns, DataInv,
         AckedInv, KnownInv, CachedInv, CacheFresh, lockVars, cacheVars, Values, ReadStages,
         WriteStages
  <2>3. CacheFresh'
      BY <1>17, NumberFacts, StoreAssumption DEF StoreAssumption, GetWrite, Goto,
         StoreTypeOK, LockInv, Owns, DataInv,
         AckedInv, KnownInv, CachedInv, CacheFresh, lockVars, cacheVars, Values, ReadStages,
         WriteStages
  <2>4. AnswersCurrent'
      BY <1>17 DEF AnswersCurrent, GetWrite, Goto, StoreTypeOK, LockInv, Owns, DataInv,
         AckedInv, KnownInv, CachedInv, CacheFresh, lockVars, cacheVars, Values, ReadStages,
         WriteStages
  <2> QED
      BY <2>1, <2>2, <2>3, <2>4 DEF DataInv
<1> QED
    BY <1>1, <1>2, <1>3, <1>4, <1>5, <1>6, <1>7, <1>8, <1>9, <1>10, <1>11, <1>12,
       <1>13, <1>14, <1>15, <1>16, <1>17 DEF JobStep

--------------------------------------------------------------------------------
(* The whole specification.                                                   *)

\* What only touches the pointers, the cache and the last answer.
LEMMA LockAside ==
    ASSUME LockInv, UNCHANGED <<lockVars, pc>>
    PROVE  LockInv'
BY DEF LockInv, Owns, lockVars

LEMMA HitLookupInv ==
    ASSUME StoreInv, NEW r \in QueryWorkers, NEW q \in Queries, HitLookup(r, q)
    PROVE  StoreInv'
<1> DEFINE value == IF cache[q] = NoEntry THEN EmptyEntry ELSE cache[q]
<1>1. value \in Values \cup {EmptyEntry}
    BY NumberFacts DEF StoreInv, StoreTypeOK
<1>2. /\ cache' = [cache EXCEPT ![q] = value]
      /\ cursor' = [cursor EXCEPT ![r] = [at |-> q, live |-> TRUE,
                                          value |-> value, floor |-> acked]]
      /\ UNCHANGED <<version, lockVars, mapped, pc, query, got, floor, acked, silent, answer>>
    BY DEF HitLookup
<1>3. value \in Values => value = cache[q]
    BY NumberFacts
<1> HIDE DEF value
<1>4. StoreTypeOK'
    BY <1>1, <1>2 DEF StoreInv, StoreTypeOK, Pointer, lockVars
<1>5. LockInv'
    BY <1>2, LockAside DEF StoreInv
<1>6. AckedInv' /\ KnownInv' /\ CachedInv'
    BY <1>1, <1>2, <1>3 DEF StoreInv, StoreTypeOK, DataInv, AckedInv, KnownInv, CachedInv
<1>7. PointerInv'
    BY <1>1, <1>2, <1>3 DEF StoreInv, StoreTypeOK, DataInv, PointerInv, CachedInv
<1>8. CacheFresh'
    BY <1>1, <1>2, <1>3 DEF StoreInv, StoreTypeOK, CacheFresh
<1>9. AnswersCurrent'
    BY <1>2 DEF StoreInv, AnswersCurrent
<1> QED
    BY <1>4, <1>5, <1>6, <1>7, <1>8, <1>9 DEF StoreInv, DataInv

LEMMA HitCopyInv ==
    ASSUME StoreInv, NEW r \in QueryWorkers, HitCopy(r)
    PROVE  StoreInv'
<1>1. PICK found \in {cursor[r].value} \cup (IF cursor[r].live THEN {} ELSE {Garbage}) :
          answer' = IF found = EmptyEntry THEN answer
                    ELSE [value |-> found, floor |-> cursor[r].floor]
    BY DEF HitCopy
<1>2. /\ cursor' = [cursor EXCEPT ![r] = NoCursor]
      /\ UNCHANGED <<version, lockVars, mapped, cache, pc, query, got, floor, acked, silent>>
    BY DEF HitCopy
<1>3. \/ found \in {EmptyEntry, Garbage}
      \/ found \in Values /\ cursor[r].floor <= found
    BY <1>1 DEF HitCopy, StoreInv, DataInv, PointerInv
<1>4. NoCursor \in Pointer
    BY NumberFacts DEF NoCursor, Pointer
<1>5. answer' \in [value : Values \cup {Garbage}, floor : Values]
  <2>1. cursor[r].floor \in Values
      BY DEF StoreInv, StoreTypeOK, Pointer
  <2> QED
      BY <1>1, <1>3, <2>1 DEF StoreInv, StoreTypeOK
<1>6. StoreTypeOK'
    BY <1>2, <1>4, <1>5 DEF StoreInv, StoreTypeOK, lockVars
<1>7. LockInv'
    BY <1>2, LockAside DEF StoreInv
<1>8. AckedInv' /\ KnownInv' /\ CachedInv' /\ CacheFresh'
    BY <1>2 DEF StoreInv, DataInv, AckedInv, KnownInv, CachedInv, CacheFresh
<1>9. PointerInv'
    BY <1>2 DEF StoreInv, StoreTypeOK, DataInv, PointerInv
<1>10. AnswersCurrent'
  <2>1. CASE found = EmptyEntry
      BY <1>1, <2>1 DEF StoreInv, AnswersCurrent
  <2>2. CASE found = Garbage
      BY <1>1, <2>2 DEF AnswersCurrent, EmptyEntry, Garbage
  <2>3. CASE found \in Values /\ cursor[r].floor <= found /\ found # EmptyEntry
    <3>1. cursor[r].floor \in Int
        BY DEF StoreInv, StoreTypeOK, Pointer, Values
    <3> QED
        BY <1>1, <2>3, <3>1 DEF AnswersCurrent, Values
  <2> QED
      BY <1>3, <2>1, <2>2, <2>3
<1> QED
    BY <1>6, <1>7, <1>8, <1>9, <1>10 DEF StoreInv, DataInv

LEMMA GetQueryInv ==
    ASSUME StoreInv, NEW w \in Workers, NEW q \in Queries, GetQuery(w, q)
    PROVE  StoreInv'
<1>1. StoreTypeOK'
    BY DEF GetQuery, Goto, StoreInv, StoreTypeOK, Stages, lockVars, cacheVars
<1>2. LockInv'
    BY DEF GetQuery, Goto, StoreInv, StoreTypeOK, LockInv, Owns, lockVars, ReadStages,
       WriteStages
<1>3. DataInv'
    BY DEF GetQuery, Goto, StoreInv, StoreTypeOK, DataInv, AckedInv, KnownInv, CachedInv,
       PointerInv, cacheVars, Values
<1>4. CacheFresh' /\ AnswersCurrent'
    BY DEF GetQuery, Goto, StoreInv, StoreTypeOK, CacheFresh, AnswersCurrent, cacheVars
<1> QED
    BY <1>1, <1>2, <1>3, <1>4 DEF StoreInv

LEMMA ClearContextInv ==
    ASSUME StoreInv, ClearContext
    PROVE  StoreInv'
<1>1. cursor' \in [QueryWorkers -> Pointer]
    BY DangleType DEF ClearContext, InvalidateCache, StoreInv, StoreTypeOK
<1>2. StoreTypeOK'
    BY <1>1 DEF ClearContext, InvalidateCache, StoreInv, StoreTypeOK, lockVars
<1>3. LockInv'
    BY LockAside DEF ClearContext, StoreInv
<1>4. PointerInv'
    BY DanglePointers DEF ClearContext, InvalidateCache, StoreInv, DataInv
<1>5. AckedInv' /\ KnownInv' /\ CachedInv'
    BY NumberFacts DEF ClearContext, InvalidateCache, StoreInv, DataInv, AckedInv, KnownInv,
       CachedInv
<1>6. CacheFresh' /\ AnswersCurrent'
    BY DEF ClearContext, InvalidateCache, StoreInv, CacheFresh, AnswersCurrent
<1> QED
    BY <1>2, <1>3, <1>4, <1>5, <1>6 DEF StoreInv, DataInv

LEMMA InitInvStore == StoreInit => StoreInv
<1> SUFFICES ASSUME StoreInit PROVE StoreInv
    OBVIOUS
<1>1. StoreTypeOK /\ LockInv
    BY InitLock
<1>2. DataInv
    BY NumberFacts DEF StoreInit, DataInv, AckedInv, KnownInv, CachedInv, PointerInv
<1>3. CacheFresh /\ AnswersCurrent
    BY DEF StoreInit, CacheFresh, AnswersCurrent
<1> QED
    BY <1>1, <1>2, <1>3 DEF StoreInv

LEMMA NextInvStore ==
    ASSUME StoreInv, [StoreNext]_storeVars
    PROVE  StoreInv'
<1>1. CASE \E w \in Workers : JobStep(w) \/ GetWrite(w)
    BY <1>1, JobLock, JobData DEF StoreInv
<1>2. CASE \E w \in Workers, q \in Queries : GetQuery(w, q)
    BY <1>2, GetQueryInv
<1>3. CASE \E r \in QueryWorkers : HitCopy(r)
    BY <1>3, HitCopyInv
<1>4. CASE \E r \in QueryWorkers, q \in Queries : HitLookup(r, q)
    BY <1>4, HitLookupInv
<1>5. CASE ClearContext
    BY <1>5, ClearContextInv
<1>6. CASE UNCHANGED storeVars
    BY <1>6 DEF storeVars, lockVars, cacheVars, StoreInv, StoreTypeOK, LockInv, Owns, DataInv,
       AckedInv, KnownInv, CachedInv, PointerInv, CacheFresh, AnswersCurrent
<1> QED
    BY <1>1, <1>2, <1>3, <1>4, <1>5, <1>6 DEF StoreNext

\* The inductive invariant: who owns the lock of the collection at each stage of
\* a job, and what the worker, the cache and the pointers into it know then.
THEOREM StoreInvariant == StoreSpec => []StoreInv
<1>1. StoreInit => StoreInv
    BY InitInvStore
<1>2. StoreInv /\ [StoreNext]_storeVars => StoreInv'
    BY NextInvStore
<1> QED
    BY <1>1, <1>2, PTL DEF StoreSpec

\* Every reachable state of the collection is well typed: in particular no read
\* lock is given back more often than it was taken, and no answer is an entry
\* without a value.
THEOREM StoreTypes == StoreSpec => []StoreTypeOK
<1>1. StoreInv => StoreTypeOK
    BY DEF StoreInv
<1> QED
    BY <1>1, StoreInvariant, PTL

\* While a worker changes the collection no other worker reads or changes it.
THEOREM StoreExclusion == StoreSpec => []CriticalSectionsExclusive
<1>1. StoreInv => CriticalSectionsExclusive
    BY StoreAssumption DEF StoreInv, LockInv, Owns, CriticalSectionsExclusive, StoreAssumption
<1> QED
    BY <1>1, StoreInvariant, PTL

\* The cache agrees with the data file, but for a write under way or a silent one.
THEOREM StoreCacheFresh == StoreSpec => []CacheFresh
<1>1. StoreInv => CacheFresh
    BY DEF StoreInv
<1> QED
    BY <1>1, StoreInvariant, PTL

\* Every answer includes the writes acknowledged before its query was asked.
THEOREM StoreAnswersCurrent == StoreSpec => []AnswersCurrent
<1>1. StoreInv => AnswersCurrent
    BY DEF StoreInv
<1> QED
    BY <1>1, StoreInvariant, PTL

--------------------------------------------------------------------------------
(* The size of the cache.                                                     *)

\* Who is to cache again after emptying the map is counted with what it holds: a
\* worker that finds room adds one entry at most before it is counted again.
SizeInv ==
    Cardinality(Valued) + Cardinality(At("reset"))
        <= MAX_CACHED_QUERIES + Cardinality(Workers) + Cardinality(At("evict"))

LEMMA Sizes ==
    /\ IsFiniteSet(Valued) /\ Cardinality(Valued) \in Nat
    /\ \A stage : /\ IsFiniteSet(At(stage)) /\ Cardinality(At(stage)) \in Nat
                  /\ Cardinality(At(stage)) <= Cardinality(Workers)
    /\ Cardinality(Workers) \in Nat /\ MAX_CACHED_QUERIES \in Nat
<1>1. IsFiniteSet(Workers) /\ IsFiniteSet(Queries) /\ MAX_CACHED_QUERIES \in Nat
    BY StoreAssumption DEF StoreAssumption
<1>2. IsFiniteSet(Valued) /\ Cardinality(Valued) \in Nat
  <2>1. Valued \in SUBSET Queries
      BY DEF Valued
  <2>2. IsFiniteSet(Valued)
      BY <1>1, <2>1, FS_Subset
  <2> QED
      BY <2>2, FS_CardinalityType
<1>3. ASSUME NEW stage
      PROVE  /\ IsFiniteSet(At(stage)) /\ Cardinality(At(stage)) \in Nat
             /\ Cardinality(At(stage)) <= Cardinality(Workers)
  <2>1. At(stage) \in SUBSET Workers
      BY DEF At
  <2>2. IsFiniteSet(At(stage)) /\ Cardinality(At(stage)) <= Cardinality(Workers)
      BY <1>1, <2>1, FS_Subset
  <2> QED
      BY <2>2, FS_CardinalityType
<1>4. Cardinality(Workers) \in Nat
    BY <1>1, FS_CardinalityType
<1> QED
    BY <1>1, <1>2, <1>3, <1>4

\* One entry more at most.
LEMMA OneMore ==
    ASSUME NEW S, NEW T, NEW x, IsFiniteSet(S), T \subseteq S \cup {x}
    PROVE  IsFiniteSet(T) /\ Cardinality(T) <= Cardinality(S) + 1
<1>1. /\ IsFiniteSet(S \cup {x}) /\ Cardinality(S) \in Nat
      /\ Cardinality(S \cup {x}) <= Cardinality(S) + 1
  <2>1. Cardinality(S) \in Nat
      BY FS_CardinalityType
  <2>2. /\ IsFiniteSet(S \cup {x})
        /\ Cardinality(S \cup {x}) = IF x \in S THEN Cardinality(S) ELSE Cardinality(S) + 1
      BY FS_AddElement
  <2>3. Cardinality(S \cup {x}) \in {Cardinality(S), Cardinality(S) + 1}
      BY <2>2
  <2> QED
      BY <2>1, <2>2, <2>3
<1>2. IsFiniteSet(T) /\ Cardinality(T) <= Cardinality(S \cup {x})
    BY <1>1, FS_Subset
<1>3. Cardinality(T) \in Nat /\ Cardinality(S \cup {x}) \in Nat
    BY <1>1, <1>2, FS_CardinalityType
<1> QED
    BY <1>1, <1>2, <1>3

\* Where the workers are after one of them went from one stage to another.
LEMMA StageLeft ==
    ASSUME NEW w \in Workers, pc \in [Workers -> Stages], NEW stage, pc[w] = stage,
           NEW next \in Stages, next # stage, Goto(w, next)
    PROVE  /\ At(stage)' = At(stage) \ {w} /\ w \in At(stage)
           /\ At(next)' = At(next) \cup {w} /\ w \notin At(next)
           /\ \A other : other \notin {stage, next} => At(other)' = At(other)
BY DEF Goto, At

LEMMA StageCounts ==
    ASSUME NEW w \in Workers, pc \in [Workers -> Stages], NEW stage, pc[w] = stage,
           NEW next \in Stages, next # stage, Goto(w, next)
    PROVE  /\ Cardinality(At(stage)') = Cardinality(At(stage)) - 1
           /\ Cardinality(At(next)') = Cardinality(At(next)) + 1
           /\ \A other : other \notin {stage, next} => Cardinality(At(other)') = Cardinality(At(other))
<1>1. IsFiniteSet(At(stage)) /\ IsFiniteSet(At(next))
    BY Sizes
<1> QED
    BY <1>1, StageLeft, FS_AddElement, FS_RemoveElement

LEMMA SizeAtStart == StoreInit => SizeInv
<1> SUFFICES ASSUME StoreInit PROVE SizeInv
    OBVIOUS
<1>1. Valued = {}
    BY NumberFacts DEF StoreInit, Valued
<1>2. Cardinality(Valued) = 0
    BY <1>1, FS_EmptySet
<1> QED
    BY <1>2, Sizes DEF SizeInv

\* The cache holds no more than before, and nobody enters or leaves an eviction.
LEMMA SizeNotMore ==
    ASSUME SizeInv, Valued' \subseteq Valued,
           At("reset")' = At("reset"), At("evict")' = At("evict")
    PROVE  SizeInv'
<1>1. IsFiniteSet(Valued)
    BY Sizes
<1>2. Cardinality(Valued') <= Cardinality(Valued) /\ IsFiniteSet(Valued')
    BY <1>1, FS_Subset
<1>3. Cardinality(Valued') \in Nat
    BY <1>2, FS_CardinalityType
<1> QED
    BY <1>2, <1>3, Sizes DEF SizeInv

\* A result is cached: one more entry, or an old one replaced.
LEMMA OneMoreCached ==
    ASSUME NEW w \in Workers, SetKey(query[w], got[w])
    PROVE  Cardinality(Valued') <= Cardinality(Valued) + 1 /\ Cardinality(Valued') \in Nat
<1>1. Valued' \subseteq Valued \cup {query[w]}
    BY DEF SetKey, Valued
<1>2. IsFiniteSet(Valued)
    BY Sizes
<1>3. IsFiniteSet(Valued') /\ Cardinality(Valued') <= Cardinality(Valued) + 1
    BY <1>1, <1>2, OneMore
<1> QED
    BY <1>3, FS_CardinalityType

\* What has a value counts in the size SetKey returns.
LEMMA SizeSeen == Cardinality(Valued) <= CacheSize /\ CacheSize \in Nat
<1> DEFINE E == {q \in Queries : cache[q] # NoEntry}
<1>1. IsFiniteSet(E)
  <2>1. IsFiniteSet(Queries) /\ E \in SUBSET Queries
      BY StoreAssumption DEF StoreAssumption
  <2> QED
      BY <2>1, FS_Subset
<1>2. Valued \in SUBSET E
    BY NumberFacts DEF Valued
<1>3. Cardinality(Valued) <= Cardinality(E)
    BY <1>1, <1>2, FS_Subset
<1>4. Cardinality(E) \in Nat
    BY <1>1, FS_CardinalityType
<1> QED
    BY <1>3, <1>4 DEF CacheSize

LEMMA SizeOnCache ==
    ASSUME StoreTypeOK, SizeInv, NEW w \in Workers, CacheResult(w)
    PROVE  SizeInv'
<1>1. pc \in [Workers -> Stages] /\ pc[w] = "set"
    BY DEF StoreTypeOK, CacheResult
<1>2. Cardinality(Valued') <= Cardinality(Valued) + 1 /\ Cardinality(Valued') \in Nat
    BY OneMoreCached DEF CacheResult
<1>3. CASE CacheSize > MAX_CACHED_QUERIES
  <2>1. Goto(w, "evict")
      BY <1>3 DEF CacheResult
  <2>2. /\ Cardinality(At("evict")') = Cardinality(At("evict")) + 1
        /\ Cardinality(At("reset")') = Cardinality(At("reset"))
      BY <1>1, <2>1, StageCounts DEF Stages, ReadStages
  <2> QED
      BY <1>2, <2>2, Sizes DEF SizeInv
<1>4. CASE ~(CacheSize > MAX_CACHED_QUERIES)
  <2>1. Goto(w, "runlock")
      BY <1>4 DEF CacheResult
  <2>2. /\ Cardinality(At("evict")') = Cardinality(At("evict"))
        /\ Cardinality(At("reset")') = Cardinality(At("reset"))
      BY <1>1, <2>1, StageCounts DEF Stages, ReadStages
  <2>3. Cardinality(At("reset")) + 1 <= Cardinality(Workers)
    <3>1. At("reset") \cup {w} \in SUBSET Workers /\ w \notin At("reset")
        BY <1>1 DEF At
    <3>2. IsFiniteSet(Workers) /\ IsFiniteSet(At("reset"))
        BY StoreAssumption, Sizes DEF StoreAssumption
    <3>3. Cardinality(At("reset") \cup {w}) = Cardinality(At("reset")) + 1
        BY <3>1, <3>2, FS_AddElement
    <3>4. Cardinality(At("reset") \cup {w}) <= Cardinality(Workers)
        BY <3>1, <3>2, FS_Subset
    <3> QED
        BY <3>3, <3>4
  <2>4. Cardinality(Valued) <= MAX_CACHED_QUERIES
      BY <1>4, SizeSeen, Sizes
  <2> QED
      BY <1>2, <2>2, <2>3, <2>4, Sizes DEF SizeInv
<1> QED
    BY <1>3, <1>4

LEMMA SizeOnEviction ==
    ASSUME StoreTypeOK, SizeInv, NEW w \in Workers, EvictAll(w) \/ CacheAgain(w)
    PROVE  SizeInv'
<1>1. pc \in [Workers -> Stages]
    BY DEF StoreTypeOK
<1>2. CASE EvictAll(w)
  <2>1. Valued' = {}
      BY <1>2, NumberFacts DEF EvictAll, InvalidateCache, Valued
  <2>2. Cardinality(Valued') = 0
      BY <2>1, FS_EmptySet
  <2>3. /\ Cardinality(At("reset")') = Cardinality(At("reset")) + 1
        /\ Cardinality(At("evict")') = Cardinality(At("evict")) - 1
      BY <1>1, <1>2, StageCounts DEF EvictAll, Stages, ReadStages
  <2>4. Cardinality(At("evict")) >= 1
    <3>1. w \in At("evict")
        BY <1>2 DEF EvictAll, At
    <3>2. Cardinality(At("evict")) # 0
        BY <3>1, Sizes, FS_EmptySet
    <3> QED
        BY <3>2, Sizes
  <2>5. Cardinality(At("reset")') <= Cardinality(Workers)
    <3>1. At("reset")' \in SUBSET Workers /\ IsFiniteSet(Workers)
        BY StoreAssumption DEF StoreAssumption, At
    <3> QED
        BY <3>1, FS_Subset
  <2> QED
      BY <2>2, <2>3, <2>4, <2>5, Sizes DEF SizeInv
<1>3. CASE CacheAgain(w)
  <2>1. Cardinality(Valued') <= Cardinality(Valued) + 1 /\ Cardinality(Valued') \in Nat
      BY <1>3, OneMoreCached DEF CacheAgain
  <2>2. /\ Cardinality(At("reset")') = Cardinality(At("reset")) - 1
        /\ Cardinality(At("evict")') = Cardinality(At("evict"))
      BY <1>1, <1>3, StageCounts DEF CacheAgain, Stages, ReadStages
  <2> QED
      BY <2>1, <2>2, Sizes DEF SizeInv
<1> QED
    BY <1>2, <1>3

\* Steps that have to do with no eviction, and at most take entries away.
LEMMA SizeOnOtherSteps ==
    ASSUME StoreTypeOK, SizeInv, NEW w \in Workers, pc[w] \notin {"evict", "reset"},
           \E next \in Stages \ {"evict", "reset"} : Goto(w, next),
           UNCHANGED cache \/ InvalidateCache \/ RemoveEntry(query[w])
    PROVE  SizeInv'
<1>1. At("reset")' = At("reset") /\ At("evict")' = At("evict")
    BY DEF StoreTypeOK, Goto, At
<1>2. Valued' \subseteq Valued
    BY NumberFacts DEF StoreTypeOK, Valued, InvalidateCache, RemoveEntry
<1> QED
    BY <1>1, <1>2, SizeNotMore

LEMMA SizeKept == StoreTypeOK /\ SizeInv /\ [StoreNext]_storeVars => SizeInv'
<1> SUFFICES ASSUME StoreTypeOK, SizeInv, [StoreNext]_storeVars PROVE SizeInv'
    OBVIOUS
<1>1. ASSUME NEW w \in Workers, CacheResult(w) \/ EvictAll(w) \/ CacheAgain(w) PROVE SizeInv'
    BY <1>1, SizeOnCache, SizeOnEviction
<1>2. ASSUME NEW w \in Workers,
             \/ ReadLock(w) \/ RunQuery(w) \/ SkipCache(w) \/ AnswerQuery(w)
             \/ Reopen(w) \/ WriteLock(w) \/ Store(w) \/ StoreNothing(w)
             \/ InsertTriggerFails(w) \/ UpdateTriggerFails(w)
             \/ Invalidate(w) \/ AcknowledgeWrite(w) \/ ReportNothing(w)
             \/ GetWrite(w) \/ \E q \in Queries : GetQuery(w, q)
      PROVE  SizeInv'
  <2>1. pc[w] \notin {"evict", "reset"}
      BY <1>2 DEF ReadLock, RunQuery, SkipCache, AnswerQuery, Reopen, WriteLock, Store,
         StoreNothing, InsertTriggerFails, UpdateTriggerFails, Invalidate, AcknowledgeWrite,
         ReportNothing, GetWrite, GetQuery
  <2>2. \E next \in Stages \ {"evict", "reset"} : Goto(w, next)
    <3>1. {"idle", "rlock", "read", "set", "runlock", "wlock", "write", "reopen", "invalidate",
           "wunlock", "ack"} \subseteq Stages \ {"evict", "reset"}
        BY DEF Stages, ReadStages, WriteStages
    <3> QED
        BY <1>2, <3>1 DEF ReadLock, RunQuery, SkipCache, AnswerQuery, Reopen, WriteLock, Store,
           StoreNothing, InsertTriggerFails, UpdateTriggerFails, Invalidate, AcknowledgeWrite,
           ReportNothing, GetWrite, GetQuery, Finish
  <2>3. UNCHANGED cache \/ InvalidateCache \/ RemoveEntry(query[w])
      BY <1>2 DEF ReadLock, RunQuery, SkipCache, AnswerQuery, Reopen, WriteLock, Store,
         StoreNothing, InsertTriggerFails, UpdateTriggerFails, Invalidate, AcknowledgeWrite,
         ReportNothing, GetWrite, GetQuery, cacheVars
  <2> QED
      BY <2>1, <2>2, <2>3, SizeOnOtherSteps
<1>3. ASSUME UNCHANGED pc, Valued' \subseteq Valued PROVE SizeInv'
    BY <1>3, SizeNotMore DEF At
<1>4. ASSUME NEW r \in QueryWorkers, NEW q \in Queries, HitLookup(r, q) PROVE SizeInv'
  <2>1. Valued' \subseteq Valued
      BY <1>4, NumberFacts DEF HitLookup, Valued, StoreTypeOK
  <2> QED
      BY <1>3, <1>4, <2>1 DEF HitLookup
<1>5. ASSUME NEW r \in QueryWorkers, HitCopy(r) PROVE SizeInv'
    BY <1>3, <1>5 DEF HitCopy, Valued
<1>6. CASE ClearContext
    BY <1>3, <1>6, NumberFacts DEF ClearContext, InvalidateCache, Valued
<1>7. CASE UNCHANGED storeVars
    BY <1>3, <1>7 DEF storeVars, cacheVars, Valued
<1> QED
    BY <1>1, <1>2, <1>4, <1>5, <1>6, <1>7 DEF StoreNext, JobStep

\* However many workers cache results at once, and although each looks at the size
\* only before it adds its own and not at all after emptying the map, the results
\* in the map exceed its limit by no more than one for each worker, and one more for
\* each worker that is about to empty it.  Empty entries are not counted.
THEOREM StoreCacheBounded == StoreSpec => []CacheBounded
<1>1. SizeInv => CacheBounded
    BY Sizes DEF SizeInv, CacheBounded
<1>2. StoreInv /\ SizeInv /\ [StoreNext]_storeVars => SizeInv'
    BY SizeKept DEF StoreInv
<1> QED
    BY <1>1, <1>2, SizeAtStart, StoreInvariant, PTL DEF StoreSpec
================================================================================
