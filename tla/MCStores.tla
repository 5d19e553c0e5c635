------------------------------ MODULE MCStores ------------------------------
(* The proof stores and the backup over them, for TLC: the file store's record
   index, latest references and directory, the Pebble store, a backup and its
   restore, the frames of its archive, and the TiKV store.  They share no
   state, so focus says which of them a behaviour is about; the others start in
   one state and keep it.  The operations of the TiKV store are checked by
   family: what is about one batch cannot meet what is about another. *)
EXTENDS FileIndex, FileLatest, FileDurable, PebbleStore, BackupRestore, BackupFrames, TikvStore, TikvAnchors

VARIABLE focus

Suite1 == Operations \ [kind : {"open"}, suite : {2}]
Kinds(S) == {o \in Suite1 : o.kind \in S}
One(S) == {o \in Kinds(S) : o.batch = 1}

Families == {"manifests", "outbox", "levels", "anchors"}

Family(f) ==
    CASE f = "manifests" -> {o \in Operations : o.kind \in {"open", "ensure", "restore", "publish"}} \cup One({"manifest"})
      [] f = "outbox" -> Kinds({"open"}) \cup One({"enqueue", "reschedule", "outbox"})
      [] f = "levels" -> Kinds({"open", "ensure", "checkpoint"}) \cup One({"promote"})
      [] f = "anchors" -> Kinds({"open", "result", "latest"})

StoresInit ==
    /\ FileIndexInit /\ FileLatestInit /\ FileDurableInit /\ PebbleInit
    /\ BackupInit /\ FramesInit /\ TikvInit /\ AnchorsInit
    /\ focus \in {"index", "roots", "heads", "directory", "pebble", "backup", "frames", "schedules"} \cup Families
    /\ focus # "pebble" => proofMode = "inline" /\ life = "up"
    /\ focus # "manifests" => kv[Marker] = 1

Others(v) == UNCHANGED v /\ UNCHANGED focus

StoresNext ==
    \/ /\ focus = "index" /\ FileIndexNext
       /\ Others(<<fileLatestVars, fileDurableVars, pebbleVars, backupVars, frameVars, tikvVars, anchorsVars>>)
    \/ /\ focus = "roots" /\ FileLatestNext /\ UNCHANGED headFiles
       /\ Others(<<fileIndexVars, fileDurableVars, pebbleVars, backupVars, frameVars, tikvVars, anchorsVars>>)
    \/ /\ focus = "heads" /\ FileLatestNext /\ UNCHANGED rootFiles
       /\ Others(<<fileIndexVars, fileDurableVars, pebbleVars, backupVars, frameVars, tikvVars, anchorsVars>>)
    \/ /\ focus = "directory" /\ FileDurableNext
       /\ Others(<<fileIndexVars, fileLatestVars, pebbleVars, backupVars, frameVars, tikvVars, anchorsVars>>)
    \/ /\ focus = "pebble" /\ PebbleNext
       /\ Others(<<fileIndexVars, fileLatestVars, fileDurableVars, backupVars, frameVars, tikvVars, anchorsVars>>)
    \/ /\ focus = "backup" /\ BackupNext
       /\ Others(<<fileIndexVars, fileLatestVars, fileDurableVars, pebbleVars, frameVars, tikvVars, anchorsVars>>)
    \/ /\ focus = "frames" /\ FramesNext
       /\ Others(<<fileIndexVars, fileLatestVars, fileDurableVars, pebbleVars, backupVars, tikvVars, anchorsVars>>)
    \/ /\ focus = "schedules" /\ AnchorsNext
       /\ Others(<<fileIndexVars, fileLatestVars, fileDurableVars, pebbleVars, backupVars, frameVars, tikvVars>>)
    \/ /\ focus \in Families /\ TikvNext
       /\ \A c \in Clients : txn'[c] # NoTxn => txn'[c].op \in Family(focus)
       /\ Others(<<fileIndexVars, fileLatestVars, fileDurableVars, pebbleVars, backupVars, frameVars, anchorsVars>>)

StoresSpec ==
    StoresInit /\ [][StoresNext]_<<fileIndexVars, fileLatestVars, fileDurableVars, pebbleVars, backupVars,
                                   frameVars, tikvVars, anchorsVars, focus>>

-----------------------------------------------------------------------------

=============================================================================
