-------------------------- MODULE StoreFile_proofs --------------------------
(***************************************************************************)
(* Theorems about StoreFile, for any conversations and labels and any      *)
(* number of stops and troubles.                                           *)
(***************************************************************************)
EXTENDS StoreFile, TLAPS

(***************************************************************************)
(* The statements of the migration come in an order, and each may rely on  *)
(* what the earlier ones left: that is what makes a start-up that was      *)
(* killed harmless.                                                        *)
(***************************************************************************)
Migrated ==
  /\ ready => proc \in {"booting", "up"} /\ schema = Current
  /\ proc \in {"legacy", "column", "version"} => schema.tables
  /\ proc \in {"column", "version"} => ~schema.legacy
  /\ proc = "version" => schema.incomplete

(***************************************************************************)
(* Before an unclean stop the file is behind its log only while somebody   *)
(* has a connection open to serve a request: start-up, and the quarantine  *)
(* in it, see a file that has everything.                                  *)
(***************************************************************************)
LogIsCopied ==
  ~unclean /\ (proc # "up" \/ (writers = {} /\ others = {})) => file = db

\* Every step keeps the types.
LEMMA StoreTypesStep ==
  ASSUME StoreTypeOK, [StoreNext]_storeVars
  PROVE  StoreTypeOK'
<1>1. ASSUME start PROVE StoreTypeOK'
  <2>1. attempt' \in 1..2
    BY <1>1 DEF start
  <2> QED BY <1>1, <2>1, StoreFileAssumption
       DEF start, StoreTypeOK, Stages, Opening, Others,
       bootVars, pathVars, dataVars, connVars, faultVars
<1>2. ASSUME connect PROVE StoreTypeOK'
  BY <1>2, StoreFileAssumption DEF connect, StoreTypeOK, Stages, Opening, Others,
     bootVars, pathVars, dataVars, connVars, faultVars
<1>3. ASSUME run_script PROVE StoreTypeOK'
  <2>1. schema' \in Schemas
    BY <1>3 DEF run_script, StoreTypeOK, Schemas, SCHEMA_VERSION, pathVars
  <2> QED BY <1>3, <2>1, StoreFileAssumption
       DEF run_script, StoreTypeOK, Stages, Opening, Others,
       bootVars, pathVars, dataVars, connVars, faultVars
<1>4. ASSUME drop_legacy PROVE StoreTypeOK'
  <2>1. schema' \in Schemas
    BY <1>4 DEF drop_legacy, StoreTypeOK, Schemas, SCHEMA_VERSION, pathVars
  <2> QED BY <1>4, <2>1, StoreFileAssumption
       DEF drop_legacy, StoreTypeOK, Stages, Opening, Others,
       bootVars, pathVars, dataVars, connVars, faultVars
<1>5. ASSUME add_incomplete PROVE StoreTypeOK'
  <2>1. schema' \in Schemas
    BY <1>5 DEF add_incomplete, StoreTypeOK, Schemas, SCHEMA_VERSION, pathVars
  <2> QED BY <1>5, <2>1, StoreFileAssumption
       DEF add_incomplete, StoreTypeOK, Stages, Opening, Others,
       bootVars, pathVars, dataVars, connVars, faultVars
<1>6. ASSUME set_version PROVE StoreTypeOK'
  <2>1. schema' \in Schemas
    BY <1>6 DEF set_version, StoreTypeOK, Schemas, SCHEMA_VERSION, pathVars
  <2> QED BY <1>6, <2>1, StoreFileAssumption
       DEF set_version, close, StoreTypeOK, Stages, Opening, Others,
       bootVars, pathVars, dataVars, connVars, faultVars
<1>7. ASSUME fail PROVE StoreTypeOK'
  <2>1. attempt' \in 1..2
    BY <1>7 DEF fail
  <2>2. trouble' \in 0..MaxTrouble
    BY <1>7, StoreFileAssumption DEF fail, in_trouble, StoreTypeOK
  <2> QED BY <1>7, <2>1, <2>2, StoreFileAssumption
       DEF fail, close, in_trouble, StoreTypeOK, Stages, Opening, Others,
       bootVars, pathVars, dataVars, connVars, faultVars
<1>8. ASSUME fail_otherwise PROVE StoreTypeOK'
  BY <1>8, StoreFileAssumption DEF fail_otherwise, in_trouble, StoreTypeOK, Stages, Opening,
     Others,
     bootVars, pathVars, dataVars, connVars, faultVars
<1>9. ASSUME recover PROVE StoreTypeOK'
  <2>1. CASE schema' = NewFile /\ whole' = TRUE /\ UNCHANGED trouble
    <3>1. schema' \in Schemas BY <2>1 DEF NewFile, Schemas, SCHEMA_VERSION
    <3>2. attempt' \in 1..2 BY <1>9 DEF recover
    <3> QED BY <1>9, <2>1, <3>1, <3>2 DEF recover, in_trouble, StoreTypeOK, Stages, Opening,
    Others,
       bootVars, pathVars, dataVars, connVars, faultVars
  <2>2. CASE in_trouble /\ UNCHANGED <<pathVars, dataVars>>
    <3>1. trouble' \in 0..MaxTrouble BY <2>2, StoreFileAssumption DEF in_trouble, StoreTypeOK
    <3>2. attempt' \in 1..2 BY <1>9 DEF recover
    <3>3. UNCHANGED <<schema, whole, db, file, aside>> BY <2>2 DEF pathVars, dataVars
    <3> QED BY <1>9, <3>1, <3>2, <3>3 DEF recover, StoreTypeOK, Stages, Opening, connVars
  <2> QED BY <1>9, <2>1, <2>2 DEF recover
<1>10. ASSUME older_release PROVE StoreTypeOK'
  <2>1. schema' \in Schemas
    BY <1>10 DEF older_release, StoreTypeOK, Schemas, SCHEMA_VERSION, pathVars
  <2> QED BY <1>10, <2>1, StoreFileAssumption
       DEF older_release, StoreTypeOK, Stages, Opening, Others,
       bootVars, pathVars, dataVars, connVars, faultVars
<1>11. ASSUME restored PROVE StoreTypeOK'
  <2>1. schema' \in Schemas
    BY <1>11 DEF restored, StoreTypeOK, Schemas, SCHEMA_VERSION, pathVars
  <2> QED BY <1>11, <2>1, StoreFileAssumption
       DEF restored, StoreTypeOK, Stages, Opening, Others,
       bootVars, pathVars, dataVars, connVars, faultVars
<1>12. ASSUME decays PROVE StoreTypeOK'
  BY <1>12, StoreFileAssumption DEF decays, StoreTypeOK, Stages, Opening, Others,
     bootVars, pathVars, dataVars, connVars, faultVars
<1>13. ASSUME serve PROVE StoreTypeOK'
  BY <1>13, StoreFileAssumption DEF serve, StoreTypeOK, Stages, Opening, Others,
     bootVars, pathVars, dataVars, connVars, faultVars
<1>14. ASSUME stop PROVE StoreTypeOK'
  <2>1. attempt' \in 1..2
    BY <1>14 DEF stop
  <2>2. stops' \in 0..MaxStops
    BY <1>14, StoreFileAssumption DEF stop, StoreTypeOK
  <2> QED BY <1>14, <2>1, <2>2, StoreFileAssumption
       DEF stop, StoreTypeOK, Stages, Opening, Others,
       bootVars, pathVars, dataVars, connVars, faultVars
<1>15. ASSUME NEW x \in Exchanges, commit(x) PROVE StoreTypeOK'
  <2>1. schema' \in Schemas
    BY <1>15 DEF commit, ensure_schema, Current, StoreTypeOK, Schemas, SCHEMA_VERSION, pathVars
  <2> QED BY <1>15, <2>1, StoreFileAssumption
       DEF commit, usable, ensure_schema, StoreTypeOK, Stages, Opening, Others,
       bootVars, pathVars, dataVars, connVars, faultVars
<1>16. ASSUME NEW x \in Exchanges, finish(x) PROVE StoreTypeOK'
  BY <1>16, StoreFileAssumption DEF finish, close, StoreTypeOK, Stages, Opening, Others,
     bootVars, pathVars, dataVars, connVars, faultVars
<1>17. ASSUME NEW C \in SUBSET Cids, erase(C) PROVE StoreTypeOK'
  <2>1. schema' \in Schemas
    BY <1>17 DEF erase, ensure_schema, Current, StoreTypeOK, Schemas, SCHEMA_VERSION, pathVars
  <2> QED BY <1>17, <2>1, StoreFileAssumption
       DEF erase, usable, ensure_schema, Of, StoreTypeOK, Stages, Opening, Others,
       bootVars, pathVars, dataVars, connVars, faultVars
<1>18. ASSUME open_reader PROVE StoreTypeOK'
  BY <1>18, StoreFileAssumption DEF open_reader, usable, StoreTypeOK, Stages, Opening, Others,
     bootVars, pathVars, dataVars, connVars, faultVars
<1>19. ASSUME close_reader PROVE StoreTypeOK'
  BY <1>19, StoreFileAssumption DEF close_reader, close, StoreTypeOK, Stages, Opening, Others,
     bootVars, pathVars, dataVars, connVars, faultVars
<1>20. CASE UNCHANGED storeVars
  BY <1>20 DEF StoreTypeOK, storeVars, bootVars, pathVars, dataVars, connVars, faultVars
<1> QED BY <1>1, <1>2, <1>3, <1>4, <1>5, <1>6, <1>7, <1>8, <1>9, <1>10, <1>11, <1>12, <1>13,
<1>14, <1>15, <1>16, <1>17, <1>18, <1>19, <1>20
   DEF StoreNext, Initialize, Environment

\* Every step keeps the order of the migration.
LEMMA MigrationStep ==
  ASSUME StoreTypeOK, Migrated, [StoreNext]_storeVars
  PROVE  Migrated'
<1>1. ASSUME start PROVE Migrated'
  BY <1>1, StoreFileAssumption DEF start, StoreTypeOK, Migrated, Opening, Schemas,
     SCHEMA_VERSION, Current,
     bootVars, pathVars, dataVars, connVars, faultVars
<1>2. ASSUME connect PROVE Migrated'
  BY <1>2, StoreFileAssumption DEF connect, StoreTypeOK, Migrated, Opening, Schemas,
     SCHEMA_VERSION, Current,
     bootVars, pathVars, dataVars, connVars, faultVars
<1>3. ASSUME run_script PROVE Migrated'
  BY <1>3, StoreFileAssumption DEF run_script, StoreTypeOK, Migrated, Opening, Schemas,
     SCHEMA_VERSION, Current,
     bootVars, pathVars, dataVars, connVars, faultVars
<1>4. ASSUME drop_legacy PROVE Migrated'
  BY <1>4, StoreFileAssumption DEF drop_legacy, StoreTypeOK, Migrated, Opening, Schemas,
     SCHEMA_VERSION, Current,
     bootVars, pathVars, dataVars, connVars, faultVars
<1>5. ASSUME add_incomplete PROVE Migrated'
  BY <1>5, StoreFileAssumption DEF add_incomplete, StoreTypeOK, Migrated, Opening, Schemas,
     SCHEMA_VERSION, Current,
     bootVars, pathVars, dataVars, connVars, faultVars
<1>6. ASSUME set_version PROVE Migrated'
  BY <1>6, StoreFileAssumption DEF set_version, close, StoreTypeOK, Migrated, Opening,
     Schemas, SCHEMA_VERSION, Current,
     bootVars, pathVars, dataVars, connVars, faultVars
<1>7. ASSUME fail PROVE Migrated'
  BY <1>7, StoreFileAssumption DEF fail, close, in_trouble, StoreTypeOK, Migrated, Opening,
     Schemas, SCHEMA_VERSION, Current,
     bootVars, pathVars, dataVars, connVars, faultVars
<1>8. ASSUME fail_otherwise PROVE Migrated'
  BY <1>8, StoreFileAssumption DEF fail_otherwise, in_trouble, StoreTypeOK, Migrated,
     Opening, Schemas, SCHEMA_VERSION, Current,
     bootVars, pathVars, dataVars, connVars, faultVars
<1>9. ASSUME recover PROVE Migrated'
  BY <1>9, StoreFileAssumption DEF recover, in_trouble, StoreTypeOK, Migrated, Opening,
     Schemas, SCHEMA_VERSION, Current, NewFile,
     bootVars, pathVars, dataVars, connVars, faultVars
<1>10. ASSUME older_release PROVE Migrated'
  BY <1>10, StoreFileAssumption DEF older_release, StoreTypeOK, Migrated, Opening, Schemas,
     SCHEMA_VERSION, Current,
     bootVars, pathVars, dataVars, connVars, faultVars
<1>11. ASSUME restored PROVE Migrated'
  BY <1>11, StoreFileAssumption DEF restored, StoreTypeOK, Migrated, Opening, Schemas,
     SCHEMA_VERSION, Current,
     bootVars, pathVars, dataVars, connVars, faultVars
<1>12. ASSUME decays PROVE Migrated'
  BY <1>12, StoreFileAssumption DEF decays, StoreTypeOK, Migrated, Opening, Schemas,
     SCHEMA_VERSION, Current,
     bootVars, pathVars, dataVars, connVars, faultVars
<1>13. ASSUME serve PROVE Migrated'
  BY <1>13, StoreFileAssumption DEF serve, StoreTypeOK, Migrated, Opening, Schemas,
     SCHEMA_VERSION, Current,
     bootVars, pathVars, dataVars, connVars, faultVars
<1>14. ASSUME stop PROVE Migrated'
  BY <1>14, StoreFileAssumption DEF stop, StoreTypeOK, Migrated, Opening, Schemas,
     SCHEMA_VERSION, Current,
     bootVars, pathVars, dataVars, connVars, faultVars
<1>15. ASSUME NEW x \in Exchanges, commit(x) PROVE Migrated'
  BY <1>15, StoreFileAssumption DEF commit, usable, ensure_schema, StoreTypeOK, Migrated,
     Opening, Schemas, SCHEMA_VERSION, Current,
     bootVars, pathVars, dataVars, connVars, faultVars
<1>16. ASSUME NEW x \in Exchanges, finish(x) PROVE Migrated'
  BY <1>16, StoreFileAssumption DEF finish, close, StoreTypeOK, Migrated, Opening, Schemas,
     SCHEMA_VERSION, Current,
     bootVars, pathVars, dataVars, connVars, faultVars
<1>17. ASSUME NEW C \in SUBSET Cids, erase(C) PROVE Migrated'
  BY <1>17, StoreFileAssumption DEF erase, usable, ensure_schema, Of, StoreTypeOK, Migrated,
     Opening, Schemas, SCHEMA_VERSION, Current,
     bootVars, pathVars, dataVars, connVars, faultVars
<1>18. ASSUME open_reader PROVE Migrated'
  BY <1>18, StoreFileAssumption DEF open_reader, usable, StoreTypeOK, Migrated, Opening,
     Schemas, SCHEMA_VERSION, Current,
     bootVars, pathVars, dataVars, connVars, faultVars
<1>19. ASSUME close_reader PROVE Migrated'
  BY <1>19, StoreFileAssumption DEF close_reader, close, StoreTypeOK, Migrated, Opening,
     Schemas, SCHEMA_VERSION, Current,
     bootVars, pathVars, dataVars, connVars, faultVars
<1>20. CASE UNCHANGED storeVars
  BY <1>20 DEF StoreTypeOK, Migrated, Opening, Schemas, SCHEMA_VERSION, Current, storeVars,
     bootVars, pathVars, dataVars, connVars, faultVars
<1> QED BY <1>1, <1>2, <1>3, <1>4, <1>5, <1>6, <1>7, <1>8, <1>9, <1>10, <1>11, <1>12, <1>13,
<1>14, <1>15, <1>16, <1>17, <1>18, <1>19, <1>20 DEF StoreNext, Initialize, Environment

\* Every step keeps the file level with its log where it has to be.
LEMMA LogStep ==
  ASSUME StoreTypeOK, LogIsCopied, [StoreNext]_storeVars
  PROVE  LogIsCopied'
<1>1. ASSUME start PROVE LogIsCopied'
  BY <1>1, StoreFileAssumption DEF start, StoreTypeOK, LogIsCopied, Opening,
     bootVars, pathVars, dataVars, connVars, faultVars
<1>2. ASSUME connect PROVE LogIsCopied'
  BY <1>2, StoreFileAssumption DEF connect, StoreTypeOK, LogIsCopied, Opening,
     bootVars, pathVars, dataVars, connVars, faultVars
<1>3. ASSUME run_script PROVE LogIsCopied'
  BY <1>3, StoreFileAssumption DEF run_script, StoreTypeOK, LogIsCopied, Opening,
     bootVars, pathVars, dataVars, connVars, faultVars
<1>4. ASSUME drop_legacy PROVE LogIsCopied'
  BY <1>4, StoreFileAssumption DEF drop_legacy, StoreTypeOK, LogIsCopied, Opening,
     bootVars, pathVars, dataVars, connVars, faultVars
<1>5. ASSUME add_incomplete PROVE LogIsCopied'
  BY <1>5, StoreFileAssumption DEF add_incomplete, StoreTypeOK, LogIsCopied, Opening,
     bootVars, pathVars, dataVars, connVars, faultVars
<1>6. ASSUME set_version PROVE LogIsCopied'
  BY <1>6, StoreFileAssumption DEF set_version, close, StoreTypeOK, LogIsCopied, Opening,
     bootVars, pathVars, dataVars, connVars, faultVars
<1>7. ASSUME fail PROVE LogIsCopied'
  BY <1>7, StoreFileAssumption DEF fail, close, in_trouble, StoreTypeOK, LogIsCopied, Opening,
     bootVars, pathVars, dataVars, connVars, faultVars
<1>8. ASSUME fail_otherwise PROVE LogIsCopied'
  BY <1>8, StoreFileAssumption DEF fail_otherwise, in_trouble, StoreTypeOK, LogIsCopied,
     Opening,
     bootVars, pathVars, dataVars, connVars, faultVars
<1>9. ASSUME recover PROVE LogIsCopied'
  BY <1>9, StoreFileAssumption DEF recover, in_trouble, StoreTypeOK, LogIsCopied, Opening,
     bootVars, pathVars, dataVars, connVars, faultVars
<1>10. ASSUME older_release PROVE LogIsCopied'
  BY <1>10, StoreFileAssumption DEF older_release, StoreTypeOK, LogIsCopied, Opening,
     bootVars, pathVars, dataVars, connVars, faultVars
<1>11. ASSUME restored PROVE LogIsCopied'
  BY <1>11, StoreFileAssumption DEF restored, StoreTypeOK, LogIsCopied, Opening,
     bootVars, pathVars, dataVars, connVars, faultVars
<1>12. ASSUME decays PROVE LogIsCopied'
  BY <1>12, StoreFileAssumption DEF decays, StoreTypeOK, LogIsCopied, Opening,
     bootVars, pathVars, dataVars, connVars, faultVars
<1>13. ASSUME serve PROVE LogIsCopied'
  BY <1>13, StoreFileAssumption DEF serve, StoreTypeOK, LogIsCopied, Opening,
     bootVars, pathVars, dataVars, connVars, faultVars
<1>14. ASSUME stop PROVE LogIsCopied'
  BY <1>14, StoreFileAssumption DEF stop, StoreTypeOK, LogIsCopied, Opening,
     bootVars, pathVars, dataVars, connVars, faultVars
<1>15. ASSUME NEW x \in Exchanges, commit(x) PROVE LogIsCopied'
  BY <1>15, StoreFileAssumption DEF commit, usable, ensure_schema, StoreTypeOK, LogIsCopied,
     Opening,
     bootVars, pathVars, dataVars, connVars, faultVars
<1>16. ASSUME NEW x \in Exchanges, finish(x) PROVE LogIsCopied'
  BY <1>16, StoreFileAssumption DEF finish, close, StoreTypeOK, LogIsCopied, Opening,
     bootVars, pathVars, dataVars, connVars, faultVars
<1>17. ASSUME NEW C \in SUBSET Cids, erase(C) PROVE LogIsCopied'
  BY <1>17, StoreFileAssumption DEF erase, usable, ensure_schema, Of, StoreTypeOK,
     LogIsCopied, Opening,
     bootVars, pathVars, dataVars, connVars, faultVars
<1>18. ASSUME open_reader PROVE LogIsCopied'
  BY <1>18, StoreFileAssumption DEF open_reader, usable, StoreTypeOK, LogIsCopied, Opening,
     bootVars, pathVars, dataVars, connVars, faultVars
<1>19. ASSUME close_reader PROVE LogIsCopied'
  BY <1>19, StoreFileAssumption DEF close_reader, close, StoreTypeOK, LogIsCopied, Opening,
     bootVars, pathVars, dataVars, connVars, faultVars
<1>20. CASE UNCHANGED storeVars
  BY <1>20 DEF StoreTypeOK, LogIsCopied, Opening, storeVars, bootVars, pathVars, dataVars,
     connVars, faultVars
<1> QED BY <1>1, <1>2, <1>3, <1>4, <1>5, <1>6, <1>7, <1>8, <1>9, <1>10, <1>11, <1>12, <1>13,
<1>14, <1>15, <1>16, <1>17, <1>18, <1>19, <1>20 DEF StoreNext, Initialize, Environment

\* No step but an unclean stop makes a confirmed exchange vulnerable.
LEMMA ToldStep ==
  ASSUME StoreTypeOK, LogIsCopied, ToldSurvivesCleanStops, [StoreNext]_storeVars
  PROVE  ToldSurvivesCleanStops'
<1>1. ASSUME start PROVE ToldSurvivesCleanStops'
  BY <1>1, StoreFileAssumption DEF start, StoreTypeOK, LogIsCopied, ToldSurvivesCleanStops,
     bootVars, pathVars, dataVars, connVars, faultVars
<1>2. ASSUME connect PROVE ToldSurvivesCleanStops'
  BY <1>2, StoreFileAssumption DEF connect, StoreTypeOK, LogIsCopied, ToldSurvivesCleanStops,
     bootVars, pathVars, dataVars, connVars, faultVars
<1>3. ASSUME run_script PROVE ToldSurvivesCleanStops'
  BY <1>3, StoreFileAssumption DEF run_script, StoreTypeOK, LogIsCopied, ToldSurvivesCleanStops,
     bootVars, pathVars, dataVars, connVars, faultVars
<1>4. ASSUME drop_legacy PROVE ToldSurvivesCleanStops'
  BY <1>4, StoreFileAssumption DEF drop_legacy, StoreTypeOK, LogIsCopied,
     ToldSurvivesCleanStops,
     bootVars, pathVars, dataVars, connVars, faultVars
<1>5. ASSUME add_incomplete PROVE ToldSurvivesCleanStops'
  BY <1>5, StoreFileAssumption DEF add_incomplete, StoreTypeOK, LogIsCopied,
     ToldSurvivesCleanStops,
     bootVars, pathVars, dataVars, connVars, faultVars
<1>6. ASSUME set_version PROVE ToldSurvivesCleanStops'
  BY <1>6, StoreFileAssumption DEF set_version, close, StoreTypeOK, LogIsCopied,
     ToldSurvivesCleanStops,
     bootVars, pathVars, dataVars, connVars, faultVars
<1>7. ASSUME fail PROVE ToldSurvivesCleanStops'
  BY <1>7, StoreFileAssumption DEF fail, close, in_trouble, StoreTypeOK, LogIsCopied,
     ToldSurvivesCleanStops,
     bootVars, pathVars, dataVars, connVars, faultVars
<1>8. ASSUME fail_otherwise PROVE ToldSurvivesCleanStops'
  BY <1>8, StoreFileAssumption DEF fail_otherwise, in_trouble, StoreTypeOK, LogIsCopied,
     ToldSurvivesCleanStops,
     bootVars, pathVars, dataVars, connVars, faultVars
<1>9. ASSUME recover PROVE ToldSurvivesCleanStops'
  BY <1>9, StoreFileAssumption DEF recover, in_trouble, StoreTypeOK, LogIsCopied,
     ToldSurvivesCleanStops,
     bootVars, pathVars, dataVars, connVars, faultVars
<1>10. ASSUME older_release PROVE ToldSurvivesCleanStops'
  BY <1>10, StoreFileAssumption DEF older_release, StoreTypeOK, LogIsCopied,
     ToldSurvivesCleanStops,
     bootVars, pathVars, dataVars, connVars, faultVars
<1>11. ASSUME restored PROVE ToldSurvivesCleanStops'
  BY <1>11, StoreFileAssumption DEF restored, StoreTypeOK, LogIsCopied, ToldSurvivesCleanStops,
     bootVars, pathVars, dataVars, connVars, faultVars
<1>12. ASSUME decays PROVE ToldSurvivesCleanStops'
  BY <1>12, StoreFileAssumption DEF decays, StoreTypeOK, LogIsCopied, ToldSurvivesCleanStops,
     bootVars, pathVars, dataVars, connVars, faultVars
<1>13. ASSUME serve PROVE ToldSurvivesCleanStops'
  BY <1>13, StoreFileAssumption DEF serve, StoreTypeOK, LogIsCopied, ToldSurvivesCleanStops,
     bootVars, pathVars, dataVars, connVars, faultVars
<1>14. ASSUME stop PROVE ToldSurvivesCleanStops'
  BY <1>14, StoreFileAssumption DEF stop, StoreTypeOK, LogIsCopied, ToldSurvivesCleanStops,
     bootVars, pathVars, dataVars, connVars, faultVars
<1>15. ASSUME NEW x \in Exchanges, commit(x) PROVE ToldSurvivesCleanStops'
  BY <1>15, StoreFileAssumption DEF commit, usable, ensure_schema, StoreTypeOK, LogIsCopied,
     ToldSurvivesCleanStops,
     bootVars, pathVars, dataVars, connVars, faultVars
<1>16. ASSUME NEW x \in Exchanges, finish(x) PROVE ToldSurvivesCleanStops'
  BY <1>16, StoreFileAssumption DEF finish, close, StoreTypeOK, LogIsCopied,
     ToldSurvivesCleanStops,
     bootVars, pathVars, dataVars, connVars, faultVars
<1>17. ASSUME NEW C \in SUBSET Cids, erase(C) PROVE ToldSurvivesCleanStops'
  BY <1>17, StoreFileAssumption DEF erase, usable, ensure_schema, Of, StoreTypeOK,
     LogIsCopied, ToldSurvivesCleanStops,
     bootVars, pathVars, dataVars, connVars, faultVars
<1>18. ASSUME open_reader PROVE ToldSurvivesCleanStops'
  BY <1>18, StoreFileAssumption DEF open_reader, usable, StoreTypeOK, LogIsCopied,
     ToldSurvivesCleanStops,
     bootVars, pathVars, dataVars, connVars, faultVars
<1>19. ASSUME close_reader PROVE ToldSurvivesCleanStops'
  BY <1>19, StoreFileAssumption DEF close_reader, close, StoreTypeOK, LogIsCopied,
     ToldSurvivesCleanStops,
     bootVars, pathVars, dataVars, connVars, faultVars
<1>20. CASE UNCHANGED storeVars
  BY <1>20 DEF StoreTypeOK, LogIsCopied, ToldSurvivesCleanStops, storeVars, bootVars,
     pathVars, dataVars, connVars, faultVars
<1> QED BY <1>1, <1>2, <1>3, <1>4, <1>5, <1>6, <1>7, <1>8, <1>9, <1>10, <1>11, <1>12, <1>13,
<1>14, <1>15, <1>16, <1>17, <1>18, <1>19, <1>20 DEF StoreNext, Initialize, Environment

StoreInv == StoreTypeOK /\ Migrated /\ LogIsCopied /\ ToldSurvivesCleanStops

\* The invariant holds at first.
LEMMA StoreInitial == StoreInit => StoreInv
<1>1. ASSUME StoreInit PROVE StoreInv
  <2>1. schema \in Schemas BY <1>1 DEF StoreInit, NewFile, Schemas, SCHEMA_VERSION
  <2>2. attempt \in 1..2 BY <1>1 DEF StoreInit
  <2>3. stops \in 0..MaxStops /\ trouble \in 0..MaxTrouble
    BY <1>1, StoreFileAssumption DEF StoreInit
  <2>4. StoreTypeOK
    BY <1>1, <2>1, <2>2, <2>3 DEF StoreInit, StoreTypeOK, Stages, Opening
  <2> QED BY <1>1, <2>4
       DEF StoreInit, StoreInv, Migrated, LogIsCopied, ToldSurvivesCleanStops
<1> QED BY <1>1

\* What the four lemmas give together.
LEMMA StoreInvStep == StoreInv /\ [StoreNext]_storeVars => StoreInv'
  BY StoreTypesStep, MigrationStep, LogStep, ToldStep DEF StoreInv

\* It holds always.
LEMMA StoreInvariant == StoreSpec => []StoreInv
  BY StoreInitial, StoreInvStep, PTL DEF StoreSpec

\* The store's variables keep their types.
THEOREM StoreTypeCorrect == StoreSpec => []StoreTypeOK
<1>1. StoreInv => StoreTypeOK BY DEF StoreInv
<1> QED BY <1>1, StoreInvariant, PTL

\* A store that is ready has the current schema, whatever file it found and
\* wherever earlier start-ups were killed.
THEOREM SchemaIsCurrent == StoreSpec => []ReadyMeansCurrent
<1>1. StoreInv => ReadyMeansCurrent BY DEF StoreInv, Migrated, ReadyMeansCurrent
<1> QED BY <1>1, StoreInvariant, PTL

\* As long as the process never ended with a connection open, a confirmed
\* exchange is in the store or in a quarantined file.
THEOREM QuarantineLosesNothingTold == StoreSpec => []ToldSurvivesCleanStops
<1>1. StoreInv => ToldSurvivesCleanStops BY DEF StoreInv
<1> QED BY <1>1, StoreInvariant, PTL
=============================================================================
