-------------------------- MODULE FlushWriteError --------------------------
(***************************************************************************)
(* The chain state of ChainstateFlush with a database that can fail a      *)
(* write.  CDBWrapper::WriteBatch throws, FlushStateToDisk turns that into *)
(* AbortNode, and Shutdown flushes once more.                              *)
(***************************************************************************)
EXTENDS ChainstateFlush

\* The last batch fails, after mapCoins.clear(): the coins of pcoinsTip are
\* now those of the database, its best block is still the tip, and the next
\* thing done with it is the flush of Shutdown.  (When an earlier batch fails
\* the cache still has every coin, and the next flush starts over.)
FinalBatchFails ==
    /\ mode = "flush"
    /\ coins' = db
    /\ UNCHANGED <<mode, tip, stat, disk, pos, crashes>>

WNext == Next \/ FinalBatchFails

WSpec == Init /\ [][WNext]_vars

\* The last batch marks the database as consistent with a block only when it
\* holds that block's coins ("In the last batch, mark the database as
\* consistent with hashBlock again", CCoinsViewDB::BatchWrite).
ConsistentWithBest == heads = <<>> => db = Utxo[OrGenesis(best)]
=============================================================================
