--------------------------- MODULE Archive_proofs ---------------------------
(***************************************************************************)
(* Theorems about Archive, for any interviews, exchanges, clips, clocks    *)
(* and bounds.                                                             *)
(***************************************************************************)
EXTENDS Archive, StoreFile_proofs

\* Every step of Archive is one of StoreFile, or leaves its variables alone.
LEMMA StoreStep ==
  ASSUME victim \in Cids, [Next]_vars
  PROVE  [StoreNext]_storeVars
<1>1. ASSUME Elapse PROVE [StoreNext]_storeVars
  BY <1>1 DEF Elapse, Sealed
<1>2. ASSUME NEW c \in Cids, create_conversation(c) PROVE [StoreNext]_storeVars
  BY <1>2 DEF create_conversation, Sealed
<1>3. ASSUME NEW c \in Cids, hydrate(c) PROVE [StoreNext]_storeVars
  BY <1>3 DEF hydrate, Sealed
<1>4. ASSUME NEW x \in Exchanges, store_turn(x) PROVE [StoreNext]_storeVars
  BY <1>4 DEF store_turn, StoreNext
<1>5. ASSUME NEW x \in Exchanges, store_farewell(x) PROVE [StoreNext]_storeVars
  BY <1>5 DEF store_farewell, StoreNext
<1>6. ASSUME NEW x \in Exchanges, turn_stored(x) PROVE [StoreNext]_storeVars
  BY <1>6 DEF turn_stored, StoreNext
<1>7. ASSUME NEW c \in Cids, farewell_unstored(c) PROVE [StoreNext]_storeVars
  BY <1>7 DEF farewell_unstored, Sealed
<1>8. ASSUME NEW c \in Cids, look(c) PROVE [StoreNext]_storeVars
  BY <1>8 DEF look, Sealed
<1>9. ASSUME NEW c \in Cids, write_farewell(c) PROVE [StoreNext]_storeVars
  BY <1>9 DEF write_farewell, Sealed
<1>10. ASSUME NEW c \in Cids, link_farewell(c) PROVE [StoreNext]_storeVars
  BY <1>10 DEF link_farewell, Sealed
<1>11. ASSUME evict_stale_conversations PROVE [StoreNext]_storeVars
  BY <1>11 DEF evict_stale_conversations, Sealed
<1>12. ASSUME write_evicted PROVE [StoreNext]_storeVars
  BY <1>12 DEF write_evicted, Sealed
<1>13. ASSUME link_evicted PROVE [StoreNext]_storeVars
  BY <1>13 DEF link_evicted, Sealed
<1>14. ASSUME pop_linked PROVE [StoreNext]_storeVars
  BY <1>14 DEF pop_linked, Sealed
<1>15. ASSUME evict_conversation PROVE [StoreNext]_storeVars
  <2>1. {victim} \in SUBSET Cids OBVIOUS
  <2> QED BY <1>15, <2>1 DEF evict_conversation, delete_rows, Sealed, StoreNext
<1>16. ASSUME cleanup_stale_audio PROVE [StoreNext]_storeVars
  BY <1>16 DEF cleanup_stale_audio, Sealed
<1>17. ASSUME cleanup_expired PROVE [StoreNext]_storeVars
  BY <1>17 DEF cleanup_expired, Sealed
<1>18. ASSUME prune_conversations PROVE [StoreNext]_storeVars
  <2>1. {c \in Cids : Stale(rowActive[c])} \in SUBSET Cids OBVIOUS
  <2> QED BY <1>18, <2>1 DEF prune_conversations, delete_rows, Sealed, StoreNext
<1>19. ASSUME NEW f \in Clips, synthesize(f) PROVE [StoreNext]_storeVars
  BY <1>19 DEF synthesize, Sealed
<1>20. ASSUME start_up PROVE [StoreNext]_storeVars
  BY <1>20 DEF start_up, StoreNext
<1>21. ASSUME die PROVE [StoreNext]_storeVars
  BY <1>21 DEF die, StoreNext
<1>22. ASSUME StoreOnly PROVE [StoreNext]_storeVars
  BY <1>22 DEF StoreOnly, StoreNext
<1>23. CASE UNCHANGED vars
  BY <1>23 DEF vars
<1> QED BY <1>1, <1>2, <1>3, <1>4, <1>5, <1>6, <1>7, <1>8, <1>9, <1>10, <1>11, <1>12,
  <1>13, <1>14, <1>15, <1>16, <1>17, <1>18, <1>19, <1>20, <1>21, <1>22, <1>23
  DEF Next, Turns, Farewell, Sweep

(***************************************************************************)
(* The types, in three parts: what the clean-ups read, where everyone      *)
(* stands, and what is remembered of each interview.                       *)
(***************************************************************************)
ClockTypes ==
  /\ now \in Nat
  /\ active \in [Cids -> Nat] /\ rowActive \in [Cids -> Nat]
  /\ clips \subseteq Clips \X Nat \X Int

StandTypes ==
  /\ goodbye \in [Cids -> Goodbyes]
  /\ sweep \in Sweeps /\ todo \subseteq Cids /\ victim \in Cids
  /\ live \subseteq Cids /\ said \in [Cids -> SUBSET Exchanges]

RecordTypes ==
  /\ reports \subseteq Report
  /\ reported \subseteq Cids /\ spoiled \subseteq Cids
  /\ everTold \subseteq Cids /\ orphaned \subseteq Cids

\* What is written of an interview is a report.
LEMMA ReportType ==
  ASSUME ClockTypes, NEW c \in Cids, NEW writer \in {"goodbye", "sweep"},
         NEW is_whole \in BOOLEAN
  PROVE  report(c, writer, is_whole) \in Report
<1>1. alone(c, writer) \in BOOLEAN BY DEF alone
<1> QED BY <1>1 DEF report, Report, ClockTypes

\* Every step keeps the types of the clocks.
LEMMA ClockTypesStep ==
  ASSUME ClockTypes, StandTypes, [Next]_vars
  PROVE  ClockTypes'
<1>1. ASSUME Elapse PROVE ClockTypes'
  BY <1>1, ArchiveAssumption DEF Elapse, ClockTypes, StandTypes,
     memVars, reportVars, sweepVars, pastVars
<1>2. ASSUME NEW c \in Cids, create_conversation(c) PROVE ClockTypes'
  BY <1>2, ArchiveAssumption DEF create_conversation, ClockTypes, StandTypes,
     memVars, reportVars, sweepVars, pastVars
<1>3. ASSUME NEW c \in Cids, hydrate(c) PROVE ClockTypes'
  BY <1>3, ArchiveAssumption DEF hydrate, ClockTypes, StandTypes,
     memVars, reportVars, sweepVars, pastVars
<1>4. ASSUME NEW x \in Exchanges, store_turn(x) PROVE ClockTypes'
  BY <1>4, ArchiveAssumption DEF store_turn, ClockTypes, StandTypes,
     memVars, reportVars, sweepVars, pastVars
<1>5. ASSUME NEW x \in Exchanges, store_farewell(x) PROVE ClockTypes'
  BY <1>5, ArchiveAssumption DEF store_farewell, ClockTypes, StandTypes,
     memVars, reportVars, sweepVars, pastVars
<1>6. ASSUME NEW x \in Exchanges, turn_stored(x) PROVE ClockTypes'
  BY <1>6, ArchiveAssumption DEF turn_stored, ClockTypes, StandTypes,
     memVars, reportVars, sweepVars, pastVars
<1>7. ASSUME NEW c \in Cids, farewell_unstored(c) PROVE ClockTypes'
  BY <1>7, ArchiveAssumption DEF farewell_unstored, ClockTypes, StandTypes,
     memVars, reportVars, sweepVars, pastVars
<1>8. ASSUME NEW c \in Cids, look(c) PROVE ClockTypes'
  BY <1>8, ArchiveAssumption DEF look, ClockTypes, StandTypes,
     memVars, reportVars, sweepVars, pastVars
<1>9. ASSUME NEW c \in Cids, write_farewell(c) PROVE ClockTypes'
  BY <1>9, ArchiveAssumption DEF write_farewell, ClockTypes, StandTypes,
     memVars, reportVars, sweepVars, pastVars
<1>10. ASSUME NEW c \in Cids, link_farewell(c) PROVE ClockTypes'
  BY <1>10, ArchiveAssumption DEF link_farewell, ClockTypes, StandTypes,
     memVars, reportVars, sweepVars, pastVars
<1>11. ASSUME evict_stale_conversations PROVE ClockTypes'
  BY <1>11, ArchiveAssumption DEF evict_stale_conversations, evict_next, pop, ClockTypes,
     StandTypes,
     memVars, reportVars, sweepVars, pastVars
<1>12. ASSUME write_evicted PROVE ClockTypes'
  BY <1>12, ArchiveAssumption DEF write_evicted, pop, ClockTypes, StandTypes,
     memVars, reportVars, sweepVars, pastVars
<1>13. ASSUME link_evicted PROVE ClockTypes'
  BY <1>13, ArchiveAssumption DEF link_evicted, ClockTypes, StandTypes,
     memVars, reportVars, sweepVars, pastVars
<1>14. ASSUME pop_linked PROVE ClockTypes'
  BY <1>14, ArchiveAssumption DEF pop_linked, pop, ClockTypes, StandTypes,
     memVars, reportVars, sweepVars, pastVars
<1>15. ASSUME evict_conversation PROVE ClockTypes'
  BY <1>15, ArchiveAssumption DEF evict_conversation, delete_rows, ClockTypes, StandTypes,
     memVars, reportVars, sweepVars, pastVars
<1>16. ASSUME cleanup_stale_audio PROVE ClockTypes'
  BY <1>16, ArchiveAssumption DEF cleanup_stale_audio, stale_clips, ClockTypes, StandTypes,
     memVars, reportVars, sweepVars, pastVars
<1>17. ASSUME cleanup_expired PROVE ClockTypes'
  BY <1>17, ArchiveAssumption DEF cleanup_expired, ClockTypes, StandTypes,
     memVars, reportVars, sweepVars, pastVars
<1>18. ASSUME prune_conversations PROVE ClockTypes'
  BY <1>18, ArchiveAssumption DEF prune_conversations, delete_rows, ClockTypes, StandTypes,
     memVars, reportVars, sweepVars, pastVars
<1>19. ASSUME NEW f \in Clips, synthesize(f) PROVE ClockTypes'
  BY <1>19, ArchiveAssumption DEF synthesize, ClockTypes, StandTypes,
     memVars, reportVars, sweepVars, pastVars
<1>20. ASSUME start_up PROVE ClockTypes'
  BY <1>20, ArchiveAssumption DEF start_up, stale_clips, ClockTypes, StandTypes,
     memVars, reportVars, sweepVars, pastVars
<1>21. ASSUME die PROVE ClockTypes'
  BY <1>21, ArchiveAssumption DEF die, ClockTypes, StandTypes,
     memVars, reportVars, sweepVars, pastVars
<1>22. ASSUME StoreOnly PROVE ClockTypes'
  BY <1>22, ArchiveAssumption DEF StoreOnly, archiveVars, ClockTypes, StandTypes,
     memVars, reportVars, sweepVars, pastVars
<1>23. CASE UNCHANGED vars
  BY <1>23 DEF ClockTypes, StandTypes, vars, archiveVars, memVars, reportVars, sweepVars,
     pastVars
<1> QED BY <1>1, <1>2, <1>3, <1>4, <1>5, <1>6, <1>7, <1>8, <1>9, <1>10, <1>11, <1>12,
  <1>13, <1>14, <1>15, <1>16, <1>17, <1>18, <1>19, <1>20, <1>21, <1>22, <1>23
  DEF Next, Turns, Farewell, Sweep

\* Every step keeps the types of where everyone stands.
LEMMA StandTypesStep ==
  ASSUME StoreTypeOK, StandTypes, [Next]_vars
  PROVE  StandTypes'
<1>1. ASSUME Elapse PROVE StandTypes'
  BY <1>1 DEF Elapse, StandTypes, Goodbyes, Sweeps,
     memVars, reportVars, sweepVars, pastVars
<1>2. ASSUME NEW c \in Cids, create_conversation(c) PROVE StandTypes'
  BY <1>2 DEF create_conversation, goto, StandTypes, Goodbyes, Sweeps,
     memVars, reportVars, sweepVars, pastVars
<1>3. ASSUME NEW c \in Cids, hydrate(c) PROVE StandTypes'
  <2>1. Of({c}, db) \in SUBSET Exchanges BY DEF Of, StoreTypeOK
  <2> QED BY <1>3, <2>1 DEF hydrate, StandTypes, reportVars, sweepVars, pastVars
<1>4. ASSUME NEW x \in Exchanges, store_turn(x) PROVE StandTypes'
  BY <1>4 DEF store_turn, StandTypes, Goodbyes, Sweeps,
     memVars, reportVars, sweepVars, pastVars
<1>5. ASSUME NEW x \in Exchanges, store_farewell(x) PROVE StandTypes'
  BY <1>5 DEF store_farewell, goto, StandTypes, Goodbyes, Sweeps,
     memVars, reportVars, sweepVars, pastVars
<1>6. ASSUME NEW x \in Exchanges, turn_stored(x) PROVE StandTypes'
  <2> DEFINE c == x[1]
  <2>1. c \in Cids /\ x \in Exchanges BY DEF Exchanges
  <2>2. /\ said' = said \/ said' = [said EXCEPT ![c] = said[c] \cup {x}]
        /\ \/ goodbye' = goodbye
           \/ goodbye' = [goodbye EXCEPT ![c] = "looking"]
           \/ goodbye' = [goodbye EXCEPT ![c] = "said"]
    BY <1>6 DEF turn_stored
  <2>3. UNCHANGED <<live, sweep, todo, victim>> BY <1>6 DEF turn_stored, sweepVars
  <2> HIDE DEF c
  <2>4. said' \in [Cids -> SUBSET Exchanges] BY <2>1, <2>2 DEF StandTypes
  <2>5. goodbye' \in [Cids -> Goodbyes] BY <2>1, <2>2 DEF StandTypes, Goodbyes
  <2> QED BY <2>3, <2>4, <2>5 DEF StandTypes
<1>7. ASSUME NEW c \in Cids, farewell_unstored(c) PROVE StandTypes'
  BY <1>7 DEF farewell_unstored, goto, StandTypes, Goodbyes, Sweeps,
     memVars, reportVars, sweepVars, pastVars
<1>8. ASSUME NEW c \in Cids, look(c) PROVE StandTypes'
  BY <1>8 DEF look, goto, StandTypes, Goodbyes, Sweeps,
     memVars, reportVars, sweepVars, pastVars
<1>9. ASSUME NEW c \in Cids, write_farewell(c) PROVE StandTypes'
  BY <1>9 DEF write_farewell, goto, StandTypes, Goodbyes, Sweeps,
     memVars, reportVars, sweepVars, pastVars
<1>10. ASSUME NEW c \in Cids, link_farewell(c) PROVE StandTypes'
  BY <1>10 DEF link_farewell, goto, StandTypes, Goodbyes, Sweeps,
     memVars, reportVars, sweepVars, pastVars
<1>11. ASSUME evict_stale_conversations PROVE StandTypes'
  BY <1>11 DEF evict_stale_conversations, evict_next, pop, StandTypes, Goodbyes, Sweeps,
     memVars, reportVars, sweepVars, pastVars
<1>12. ASSUME write_evicted PROVE StandTypes'
  BY <1>12 DEF write_evicted, pop, StandTypes, Goodbyes, Sweeps,
     memVars, reportVars, sweepVars, pastVars
<1>13. ASSUME link_evicted PROVE StandTypes'
  BY <1>13 DEF link_evicted, StandTypes, Goodbyes, Sweeps,
     memVars, reportVars, sweepVars, pastVars
<1>14. ASSUME pop_linked PROVE StandTypes'
  BY <1>14 DEF pop_linked, pop, StandTypes, Goodbyes, Sweeps,
     memVars, reportVars, sweepVars, pastVars
<1>15. ASSUME evict_conversation PROVE StandTypes'
  BY <1>15 DEF evict_conversation, StandTypes, Goodbyes, Sweeps,
     memVars, reportVars, sweepVars, pastVars
<1>16. ASSUME cleanup_stale_audio PROVE StandTypes'
  BY <1>16 DEF cleanup_stale_audio, StandTypes, Goodbyes, Sweeps,
     memVars, reportVars, sweepVars, pastVars
<1>17. ASSUME cleanup_expired PROVE StandTypes'
  BY <1>17 DEF cleanup_expired, StandTypes, Goodbyes, Sweeps,
     memVars, reportVars, sweepVars, pastVars
<1>18. ASSUME prune_conversations PROVE StandTypes'
  BY <1>18 DEF prune_conversations, StandTypes, Goodbyes, Sweeps,
     memVars, reportVars, sweepVars, pastVars
<1>19. ASSUME NEW f \in Clips, synthesize(f) PROVE StandTypes'
  BY <1>19 DEF synthesize, StandTypes, Goodbyes, Sweeps,
     memVars, reportVars, sweepVars, pastVars
<1>20. ASSUME start_up PROVE StandTypes'
  BY <1>20 DEF start_up, StandTypes, Goodbyes, Sweeps,
     memVars, reportVars, sweepVars, pastVars
<1>21. ASSUME die PROVE StandTypes'
  BY <1>21 DEF die, StandTypes, Goodbyes, Sweeps,
     memVars, reportVars, sweepVars, pastVars
<1>22. ASSUME StoreOnly PROVE StandTypes'
  BY <1>22 DEF StoreOnly, archiveVars, StandTypes, Goodbyes, Sweeps,
     memVars, reportVars, sweepVars, pastVars
<1>23. CASE UNCHANGED vars
  BY <1>23 DEF StandTypes, Goodbyes, Sweeps, vars, archiveVars, memVars, reportVars,
     sweepVars, pastVars
<1> QED BY <1>1, <1>2, <1>3, <1>4, <1>5, <1>6, <1>7, <1>8, <1>9, <1>10, <1>11, <1>12,
  <1>13, <1>14, <1>15, <1>16, <1>17, <1>18, <1>19, <1>20, <1>21, <1>22, <1>23
  DEF Next, Turns, Farewell, Sweep

\* Every step keeps the types of what is remembered.
LEMMA RecordTypesStep ==
  ASSUME ClockTypes, StandTypes, RecordTypes, [Next]_vars
  PROVE  RecordTypes'
<1>1. ASSUME Elapse PROVE RecordTypes'
  BY <1>1 DEF Elapse, ClockTypes, StandTypes, RecordTypes,
     memVars, reportVars, sweepVars, pastVars
<1>2. ASSUME NEW c \in Cids, create_conversation(c) PROVE RecordTypes'
  BY <1>2 DEF create_conversation, ClockTypes, StandTypes, RecordTypes,
     memVars, reportVars, sweepVars, pastVars
<1>3. ASSUME NEW c \in Cids, hydrate(c) PROVE RecordTypes'
  BY <1>3 DEF hydrate, ClockTypes, StandTypes, RecordTypes,
     memVars, reportVars, sweepVars, pastVars
<1>4. ASSUME NEW x \in Exchanges, store_turn(x) PROVE RecordTypes'
  BY <1>4 DEF store_turn, ClockTypes, StandTypes, RecordTypes,
     memVars, reportVars, sweepVars, pastVars
<1>5. ASSUME NEW x \in Exchanges, store_farewell(x) PROVE RecordTypes'
  BY <1>5 DEF store_farewell, ClockTypes, StandTypes, RecordTypes,
     memVars, reportVars, sweepVars, pastVars
<1>6. ASSUME NEW x \in Exchanges, turn_stored(x) PROVE RecordTypes'
  BY <1>6 DEF turn_stored, ClockTypes, StandTypes, RecordTypes,
     memVars, reportVars, sweepVars, pastVars
<1>7. ASSUME NEW c \in Cids, farewell_unstored(c) PROVE RecordTypes'
  BY <1>7 DEF farewell_unstored, ClockTypes, StandTypes, RecordTypes,
     memVars, reportVars, sweepVars, pastVars
<1>8. ASSUME NEW c \in Cids, look(c) PROVE RecordTypes'
  BY <1>8 DEF look, ClockTypes, StandTypes, RecordTypes,
     memVars, reportVars, sweepVars, pastVars
<1>9. ASSUME NEW c \in Cids, write_farewell(c) PROVE RecordTypes'
  <2>1. PICK outcome \in Outcomes : write_report(c, "goodbye", outcome)
    BY <1>9 DEF write_farewell
  <2>2. report(c, "goodbye", outcome = "whole") \in Report BY ReportType
  <2> QED BY <1>9, <2>1, <2>2 DEF write_farewell, write_report, RecordTypes, pastVars
<1>10. ASSUME NEW c \in Cids, link_farewell(c) PROVE RecordTypes'
  BY <1>10 DEF link_farewell, ClockTypes, StandTypes, RecordTypes,
     memVars, reportVars, sweepVars, pastVars
<1>11. ASSUME evict_stale_conversations PROVE RecordTypes'
  BY <1>11 DEF evict_stale_conversations, ClockTypes, StandTypes, RecordTypes,
     memVars, reportVars, sweepVars, pastVars
<1>12. ASSUME write_evicted PROVE RecordTypes'
  <2>1. PICK outcome \in Outcomes : write_report(victim, "sweep", outcome)
    BY <1>12 DEF write_evicted
  <2>2. report(victim, "sweep", outcome = "whole") \in Report BY ReportType DEF StandTypes
  <2> QED BY <1>12, <2>1, <2>2 DEF write_evicted, write_report, RecordTypes, StandTypes,
  pastVars
<1>13. ASSUME link_evicted PROVE RecordTypes'
  BY <1>13 DEF link_evicted, ClockTypes, StandTypes, RecordTypes,
     memVars, reportVars, sweepVars, pastVars
<1>14. ASSUME pop_linked PROVE RecordTypes'
  BY <1>14 DEF pop_linked, ClockTypes, StandTypes, RecordTypes,
     memVars, reportVars, sweepVars, pastVars
<1>15. ASSUME evict_conversation PROVE RecordTypes'
  BY <1>15 DEF evict_conversation, ClockTypes, StandTypes, RecordTypes,
     memVars, reportVars, sweepVars, pastVars
<1>16. ASSUME cleanup_stale_audio PROVE RecordTypes'
  BY <1>16 DEF cleanup_stale_audio, ClockTypes, StandTypes, RecordTypes,
     memVars, reportVars, sweepVars, pastVars
<1>17. ASSUME cleanup_expired PROVE RecordTypes'
  BY <1>17 DEF cleanup_expired, expired_reports, ClockTypes, StandTypes, RecordTypes,
     memVars, reportVars, sweepVars, pastVars
<1>18. ASSUME prune_conversations PROVE RecordTypes'
  BY <1>18 DEF prune_conversations, ClockTypes, StandTypes, RecordTypes,
     memVars, reportVars, sweepVars, pastVars
<1>19. ASSUME NEW f \in Clips, synthesize(f) PROVE RecordTypes'
  BY <1>19 DEF synthesize, ClockTypes, StandTypes, RecordTypes,
     memVars, reportVars, sweepVars, pastVars
<1>20. ASSUME start_up PROVE RecordTypes'
  BY <1>20 DEF start_up, expired_reports, ClockTypes, StandTypes, RecordTypes,
     memVars, reportVars, sweepVars, pastVars
<1>21. ASSUME die PROVE RecordTypes'
  <2>1. PICK W \in SUBSET interrupted :
           /\ reports' = reports \cup {report(w[1], w[2], FALSE) : w \in W}
           /\ spoiled' = spoiled \cup {w[1] : w \in W}
    BY <1>21 DEF die
  <2>2. W \subseteq Cids \X {"goodbye", "sweep"} BY DEF interrupted, StandTypes
  <2>3. ASSUME NEW w \in W PROVE report(w[1], w[2], FALSE) \in Report /\ w[1] \in Cids
    <3>1. w[1] \in Cids /\ w[2] \in {"goodbye", "sweep"} BY <2>2
    <3> QED BY <3>1, ReportType
  <2>4. reports' \subseteq Report /\ spoiled' \subseteq Cids
    BY <2>1, <2>3 DEF RecordTypes
  <2>5. orphaned' \subseteq Cids BY <1>21 DEF die, RecordTypes, StandTypes
  <2> QED BY <1>21, <2>4, <2>5 DEF die, RecordTypes
<1>22. ASSUME StoreOnly PROVE RecordTypes'
  BY <1>22 DEF StoreOnly, archiveVars, ClockTypes, StandTypes, RecordTypes,
     memVars, reportVars, sweepVars, pastVars
<1>23. CASE UNCHANGED vars
  BY <1>23 DEF ClockTypes, StandTypes, RecordTypes, vars, archiveVars, memVars, reportVars,
     sweepVars, pastVars
<1> QED BY <1>1, <1>2, <1>3, <1>4, <1>5, <1>6, <1>7, <1>8, <1>9, <1>10, <1>11, <1>12,
  <1>13, <1>14, <1>15, <1>16, <1>17, <1>18, <1>19, <1>20, <1>21, <1>22, <1>23
  DEF Next, Turns, Farewell, Sweep

(***************************************************************************)
(* Two writers, one on a thread, each looks before it writes.  Whoever is  *)
(* between the two steps has found nothing, and all there is then was      *)
(* written since by the other one, who was not alone.                      *)
(***************************************************************************)
OnlyTheOther ==
  /\ \A c \in Cids : goodbye[c] = "writing" =>
       \A r \in ReportsOf(c) : r.by = "sweep" /\ ~r.alone
  /\ sweep = "writing" =>
       \A r \in ReportsOf(victim) : r.by = "goodbye" /\ ~r.alone

(***************************************************************************)
(* What a pop drops was written down first: the rule is kept at every      *)
(* await on the way from the look at the directory to the pop.             *)
(***************************************************************************)
WrittenBeforeDropped ==
  /\ \A r \in reports : r.cid \in reported \cup spoiled
  /\ sweep \in {"linking", "pop"} => victim \in reported
  /\ \A c \in everTold : said[c] # {} \/ c \in reported \cup spoiled \cup orphaned

\* Every step keeps what the writers know of each other.
LEMMA OnlyTheOtherStep ==
  ASSUME ClockTypes, StandTypes, RecordTypes, OnlyTheOther, [Next]_vars
  PROVE  OnlyTheOther'
<1>1. ASSUME Elapse PROVE OnlyTheOther'
  BY <1>1 DEF Elapse, StandTypes, OnlyTheOther, ReportsOf,
     memVars, reportVars, sweepVars, pastVars
<1>2. ASSUME NEW c \in Cids, create_conversation(c) PROVE OnlyTheOther'
  BY <1>2 DEF create_conversation, goto, StandTypes, OnlyTheOther, ReportsOf,
     memVars, reportVars, sweepVars, pastVars
<1>3. ASSUME NEW c \in Cids, hydrate(c) PROVE OnlyTheOther'
  BY <1>3 DEF hydrate, goto, StandTypes, OnlyTheOther, ReportsOf,
     memVars, reportVars, sweepVars, pastVars
<1>4. ASSUME NEW x \in Exchanges, store_turn(x) PROVE OnlyTheOther'
  BY <1>4 DEF store_turn, StandTypes, OnlyTheOther, ReportsOf,
     memVars, reportVars, sweepVars, pastVars
<1>5. ASSUME NEW x \in Exchanges, store_farewell(x) PROVE OnlyTheOther'
  BY <1>5 DEF store_farewell, goto, StandTypes, OnlyTheOther, ReportsOf,
     memVars, reportVars, sweepVars, pastVars
<1>6. ASSUME NEW x \in Exchanges, turn_stored(x) PROVE OnlyTheOther'
  BY <1>6 DEF turn_stored, StandTypes, OnlyTheOther, ReportsOf,
     memVars, reportVars, sweepVars, pastVars
<1>7. ASSUME NEW c \in Cids, farewell_unstored(c) PROVE OnlyTheOther'
  BY <1>7 DEF farewell_unstored, goto, StandTypes, OnlyTheOther, ReportsOf,
     memVars, reportVars, sweepVars, pastVars
<1>8. ASSUME NEW c \in Cids, look(c) PROVE OnlyTheOther'
  BY <1>8 DEF look, goto, written_already, StandTypes, OnlyTheOther, ReportsOf,
     memVars, reportVars, sweepVars, pastVars
<1>9. ASSUME NEW c \in Cids, write_farewell(c) PROVE OnlyTheOther'
  <2>1. PICK outcome \in Outcomes : write_report(c, "goodbye", outcome)
    BY <1>9 DEF write_farewell
  <2> DEFINE r0 == report(c, "goodbye", outcome = "whole")
  <2>2. r0.cid = c /\ r0.by = "goodbye" /\ r0.alone = (sweep # "writing" \/ victim # c)
    BY DEF report, alone
  <2>3. reports' \subseteq reports \cup {r0} BY <2>1 DEF write_report
  <2> HIDE DEF r0
  <2>4. /\ goodbye'[c] # "writing"
        /\ \A d \in Cids \ {c} : goodbye'[d] = goodbye[d]
    BY <1>9 DEF write_farewell, goto, StandTypes
  <2>5. sweep' = sweep /\ victim' = victim BY <1>9 DEF write_farewell, sweepVars
  <2> QED BY <2>2, <2>3, <2>4, <2>5 DEF OnlyTheOther, ReportsOf
<1>10. ASSUME NEW c \in Cids, link_farewell(c) PROVE OnlyTheOther'
  BY <1>10 DEF link_farewell, goto, StandTypes, OnlyTheOther, ReportsOf,
     memVars, reportVars, sweepVars, pastVars
<1>11. ASSUME evict_stale_conversations PROVE OnlyTheOther'
  BY <1>11 DEF evict_stale_conversations, evict_next, pop, written_already, StandTypes,
     OnlyTheOther, ReportsOf,
     memVars, reportVars, sweepVars, pastVars
<1>12. ASSUME write_evicted PROVE OnlyTheOther'
  <2>1. PICK outcome \in Outcomes : write_report(victim, "sweep", outcome)
    BY <1>12 DEF write_evicted
  <2> DEFINE r0 == report(victim, "sweep", outcome = "whole")
  <2>2. r0.cid = victim /\ r0.by = "sweep" /\ r0.alone = (goodbye[victim] # "writing")
    BY DEF report, alone
  <2>3. reports' \subseteq reports \cup {r0} BY <2>1 DEF write_report
  <2> HIDE DEF r0
  <2>4. sweep' # "writing" /\ goodbye' = goodbye BY <1>12 DEF write_evicted
  <2> QED BY <2>2, <2>3, <2>4 DEF OnlyTheOther, ReportsOf
<1>13. ASSUME link_evicted PROVE OnlyTheOther'
  BY <1>13 DEF link_evicted, StandTypes, OnlyTheOther, ReportsOf,
     memVars, reportVars, sweepVars, pastVars
<1>14. ASSUME pop_linked PROVE OnlyTheOther'
  BY <1>14 DEF pop_linked, pop, StandTypes, OnlyTheOther, ReportsOf,
     memVars, reportVars, sweepVars, pastVars
<1>15. ASSUME evict_conversation PROVE OnlyTheOther'
  BY <1>15 DEF evict_conversation, StandTypes, OnlyTheOther, ReportsOf,
     memVars, reportVars, sweepVars, pastVars
<1>16. ASSUME cleanup_stale_audio PROVE OnlyTheOther'
  BY <1>16 DEF cleanup_stale_audio, StandTypes, OnlyTheOther, ReportsOf,
     memVars, reportVars, sweepVars, pastVars
<1>17. ASSUME cleanup_expired PROVE OnlyTheOther'
  BY <1>17 DEF cleanup_expired, expired_reports, StandTypes, OnlyTheOther, ReportsOf,
     memVars, reportVars, sweepVars, pastVars
<1>18. ASSUME prune_conversations PROVE OnlyTheOther'
  BY <1>18 DEF prune_conversations, StandTypes, OnlyTheOther, ReportsOf,
     memVars, reportVars, sweepVars, pastVars
<1>19. ASSUME NEW f \in Clips, synthesize(f) PROVE OnlyTheOther'
  BY <1>19 DEF synthesize, StandTypes, OnlyTheOther, ReportsOf,
     memVars, reportVars, sweepVars, pastVars
<1>20. ASSUME start_up PROVE OnlyTheOther'
  BY <1>20 DEF start_up, expired_reports, StandTypes, OnlyTheOther, ReportsOf,
     memVars, reportVars, sweepVars, pastVars
<1>21. ASSUME die PROVE OnlyTheOther'
  BY <1>21 DEF die, interrupted, report, alone, StandTypes, OnlyTheOther, ReportsOf,
     memVars, reportVars, sweepVars, pastVars
<1>22. ASSUME StoreOnly PROVE OnlyTheOther'
  BY <1>22 DEF StoreOnly, archiveVars, StandTypes, OnlyTheOther, ReportsOf,
     memVars, reportVars, sweepVars, pastVars
<1>23. CASE UNCHANGED vars
  BY <1>23 DEF StandTypes, OnlyTheOther, ReportsOf, vars, archiveVars, memVars, reportVars,
     sweepVars, pastVars
<1> QED BY <1>1, <1>2, <1>3, <1>4, <1>5, <1>6, <1>7, <1>8, <1>9, <1>10, <1>11, <1>12,
  <1>13, <1>14, <1>15, <1>16, <1>17, <1>18, <1>19, <1>20, <1>21, <1>22, <1>23
  DEF Next, Turns, Farewell, Sweep

\* Every step keeps the reports of an interview apart.
LEMMA FirstWriterStep ==
  ASSUME ClockTypes, StandTypes, RecordTypes,
         OnlyTheOther, FirstWriterWins, [Next]_vars
  PROVE  FirstWriterWins'
<1>1. ASSUME Elapse PROVE FirstWriterWins'
  BY <1>1 DEF Elapse, StandTypes, OnlyTheOther, FirstWriterWins, ReportsOf,
     memVars, reportVars, sweepVars, pastVars
<1>2. ASSUME NEW c \in Cids, create_conversation(c) PROVE FirstWriterWins'
  BY <1>2 DEF create_conversation, StandTypes, OnlyTheOther, FirstWriterWins, ReportsOf,
     memVars, reportVars, sweepVars, pastVars
<1>3. ASSUME NEW c \in Cids, hydrate(c) PROVE FirstWriterWins'
  BY <1>3 DEF hydrate, StandTypes, OnlyTheOther, FirstWriterWins, ReportsOf,
     memVars, reportVars, sweepVars, pastVars
<1>4. ASSUME NEW x \in Exchanges, store_turn(x) PROVE FirstWriterWins'
  BY <1>4 DEF store_turn, StandTypes, OnlyTheOther, FirstWriterWins, ReportsOf,
     memVars, reportVars, sweepVars, pastVars
<1>5. ASSUME NEW x \in Exchanges, store_farewell(x) PROVE FirstWriterWins'
  BY <1>5 DEF store_farewell, StandTypes, OnlyTheOther, FirstWriterWins, ReportsOf,
     memVars, reportVars, sweepVars, pastVars
<1>6. ASSUME NEW x \in Exchanges, turn_stored(x) PROVE FirstWriterWins'
  BY <1>6 DEF turn_stored, StandTypes, OnlyTheOther, FirstWriterWins, ReportsOf,
     memVars, reportVars, sweepVars, pastVars
<1>7. ASSUME NEW c \in Cids, farewell_unstored(c) PROVE FirstWriterWins'
  BY <1>7 DEF farewell_unstored, StandTypes, OnlyTheOther, FirstWriterWins, ReportsOf,
     memVars, reportVars, sweepVars, pastVars
<1>8. ASSUME NEW c \in Cids, look(c) PROVE FirstWriterWins'
  BY <1>8 DEF look, StandTypes, OnlyTheOther, FirstWriterWins, ReportsOf,
     memVars, reportVars, sweepVars, pastVars
<1>9. ASSUME NEW c \in Cids, write_farewell(c) PROVE FirstWriterWins'
  <2>1. PICK outcome \in Outcomes : write_report(c, "goodbye", outcome)
    BY <1>9 DEF write_farewell
  <2> DEFINE r0 == report(c, "goodbye", outcome = "whole")
  <2>2. r0.cid = c /\ r0.by = "goodbye" BY DEF report
  <2>3. reports' \subseteq reports \cup {r0} BY <2>1 DEF write_report
  <2> HIDE DEF r0
  <2>4. goodbye[c] = "writing" BY <1>9 DEF write_farewell, goto
  <2>5. \A r \in reports : r.cid = c => r.by = "sweep" /\ ~r.alone
    BY <2>4 DEF OnlyTheOther, ReportsOf
  <2> QED BY <2>2, <2>3, <2>5 DEF FirstWriterWins
<1>10. ASSUME NEW c \in Cids, link_farewell(c) PROVE FirstWriterWins'
  BY <1>10 DEF link_farewell, StandTypes, OnlyTheOther, FirstWriterWins, ReportsOf,
     memVars, reportVars, sweepVars, pastVars
<1>11. ASSUME evict_stale_conversations PROVE FirstWriterWins'
  BY <1>11 DEF evict_stale_conversations, StandTypes, OnlyTheOther, FirstWriterWins, ReportsOf,
     memVars, reportVars, sweepVars, pastVars
<1>12. ASSUME write_evicted PROVE FirstWriterWins'
  BY <1>12 DEF write_evicted, write_report, report, StandTypes, OnlyTheOther,
     FirstWriterWins, ReportsOf,
     memVars, reportVars, sweepVars, pastVars
<1>13. ASSUME link_evicted PROVE FirstWriterWins'
  BY <1>13 DEF link_evicted, StandTypes, OnlyTheOther, FirstWriterWins, ReportsOf,
     memVars, reportVars, sweepVars, pastVars
<1>14. ASSUME pop_linked PROVE FirstWriterWins'
  BY <1>14 DEF pop_linked, StandTypes, OnlyTheOther, FirstWriterWins, ReportsOf,
     memVars, reportVars, sweepVars, pastVars
<1>15. ASSUME evict_conversation PROVE FirstWriterWins'
  BY <1>15 DEF evict_conversation, StandTypes, OnlyTheOther, FirstWriterWins, ReportsOf,
     memVars, reportVars, sweepVars, pastVars
<1>16. ASSUME cleanup_stale_audio PROVE FirstWriterWins'
  BY <1>16 DEF cleanup_stale_audio, StandTypes, OnlyTheOther, FirstWriterWins, ReportsOf,
     memVars, reportVars, sweepVars, pastVars
<1>17. ASSUME cleanup_expired PROVE FirstWriterWins'
  BY <1>17 DEF cleanup_expired, expired_reports, StandTypes, OnlyTheOther, FirstWriterWins,
     ReportsOf,
     memVars, reportVars, sweepVars, pastVars
<1>18. ASSUME prune_conversations PROVE FirstWriterWins'
  BY <1>18 DEF prune_conversations, StandTypes, OnlyTheOther, FirstWriterWins, ReportsOf,
     memVars, reportVars, sweepVars, pastVars
<1>19. ASSUME NEW f \in Clips, synthesize(f) PROVE FirstWriterWins'
  BY <1>19 DEF synthesize, StandTypes, OnlyTheOther, FirstWriterWins, ReportsOf,
     memVars, reportVars, sweepVars, pastVars
<1>20. ASSUME start_up PROVE FirstWriterWins'
  BY <1>20 DEF start_up, expired_reports, StandTypes, OnlyTheOther, FirstWriterWins, ReportsOf,
     memVars, reportVars, sweepVars, pastVars
<1>21. ASSUME die PROVE FirstWriterWins'
  <2>1. PICK W \in SUBSET interrupted :
           reports' = reports \cup {report(w[1], w[2], FALSE) : w \in W}
    BY <1>21 DEF die
  <2>2. ASSUME NEW r \in reports', r \notin reports
        PROVE  \/ /\ r.cid \in Cids /\ goodbye[r.cid] = "writing" /\ r.by = "goodbye"
                  /\ r.alone = (sweep # "writing" \/ victim # r.cid)
                  /\ r = report(r.cid, "goodbye", FALSE)
               \/ /\ sweep = "writing" /\ r.cid = victim /\ r.by = "sweep"
                  /\ r.alone = (goodbye[r.cid] # "writing")
                  /\ r = report(victim, "sweep", FALSE)
    <3>1. PICK w \in W : r = report(w[1], w[2], FALSE) BY <2>1, <2>2
    <3>2. CASE w[1] \in Cids /\ goodbye[w[1]] = "writing" /\ w[2] = "goodbye"
      BY <3>1, <3>2 DEF report, alone
    <3>3. CASE sweep = "writing" /\ w[1] = victim /\ w[2] = "sweep"
      BY <3>1, <3>3 DEF report, alone
    <3>4. \/ w \in {c \in Cids : goodbye[c] = "writing"} \X {"goodbye"}
          \/ sweep = "writing" /\ w = <<victim, "sweep">>
      BY <3>1, Zenon DEF interrupted
    <3>5. ASSUME w \in {c \in Cids : goodbye[c] = "writing"} \X {"goodbye"}
          PROVE  w[1] \in Cids /\ goodbye[w[1]] = "writing" /\ w[2] = "goodbye"
      BY <3>5
    <3>6. ASSUME sweep = "writing", w = <<victim, "sweep">>
          PROVE  w[1] = victim /\ w[2] = "sweep"
      BY <3>6
    <3> QED BY <3>2, <3>3, <3>4, <3>5, <3>6, Zenon
  <2>3. ASSUME NEW r1 \in reports', NEW r2 \in reports', r1.cid = r2.cid, r1 # r2
        PROVE  r1.by # r2.by /\ ~(r1.alone /\ r2.alone)
    <3>1. CASE r1 \in reports /\ r2 \in reports BY <2>3, <3>1 DEF FirstWriterWins
    <3>2. CASE r1 \in reports /\ r2 \notin reports
      BY <2>2, <2>3, <3>2 DEF OnlyTheOther, ReportsOf
    <3>3. CASE r1 \notin reports /\ r2 \in reports
      BY <2>2, <2>3, <3>3 DEF OnlyTheOther, ReportsOf
    <3>4. CASE r1 \notin reports /\ r2 \notin reports
      <4>1. r1.by = "goodbye" /\ r2.by = "goodbye" => r1 = r2 BY <2>2, <2>3, <3>4
      <4>2. r1.by = "sweep" /\ r2.by = "sweep" => r1 = r2 BY <2>2, <2>3, <3>4
      <4>3. r1.by = "goodbye" /\ r2.by = "sweep" => ~r1.alone BY <2>2, <2>3, <3>4
      <4>4. r1.by = "sweep" /\ r2.by = "goodbye" => ~r2.alone BY <2>2, <2>3, <3>4
      <4>5. r1.by \in {"goodbye", "sweep"} /\ r2.by \in {"goodbye", "sweep"}
        BY <2>2, <3>4
      <4> QED BY <2>3, <4>1, <4>2, <4>3, <4>4, <4>5
    <3> QED BY <3>1, <3>2, <3>3, <3>4
  <2> QED BY <2>3 DEF FirstWriterWins
<1>22. ASSUME StoreOnly PROVE FirstWriterWins'
  BY <1>22 DEF StoreOnly, archiveVars, StandTypes, OnlyTheOther, FirstWriterWins, ReportsOf,
     memVars, reportVars, sweepVars, pastVars
<1>23. CASE UNCHANGED vars
  BY <1>23 DEF StandTypes, OnlyTheOther, FirstWriterWins, ReportsOf, vars, archiveVars,
     memVars, reportVars, sweepVars, pastVars
<1> QED BY <1>1, <1>2, <1>3, <1>4, <1>5, <1>6, <1>7, <1>8, <1>9, <1>10, <1>11, <1>12,
  <1>13, <1>14, <1>15, <1>16, <1>17, <1>18, <1>19, <1>20, <1>21, <1>22, <1>23
  DEF Next, Turns, Farewell, Sweep

\* Every step keeps the order of a write and the pop after it.
LEMMA WrittenStep ==
  ASSUME ClockTypes, StandTypes, RecordTypes, StoreTypeOK,
         WrittenBeforeDropped, GoneLeavesAReport, [Next]_vars
  PROVE  (WrittenBeforeDropped /\ GoneLeavesAReport)'
<1>1. ASSUME Elapse PROVE (WrittenBeforeDropped /\ GoneLeavesAReport)'
  BY <1>1 DEF Elapse, StandTypes, RecordTypes, WrittenBeforeDropped, GoneLeavesAReport,
     memVars, reportVars, sweepVars, pastVars
<1>2. ASSUME NEW c \in Cids,
create_conversation(c) PROVE (WrittenBeforeDropped /\ GoneLeavesAReport)'
  BY <1>2 DEF create_conversation, goto, StandTypes, RecordTypes, WrittenBeforeDropped,
     GoneLeavesAReport,
     memVars, reportVars, sweepVars, pastVars
<1>3. ASSUME NEW c \in Cids, hydrate(c) PROVE (WrittenBeforeDropped /\ GoneLeavesAReport)'
  BY <1>3 DEF hydrate, goto, StandTypes, RecordTypes, WrittenBeforeDropped, GoneLeavesAReport,
     memVars, reportVars, sweepVars, pastVars
<1>4. ASSUME NEW x \in Exchanges,
store_turn(x) PROVE (WrittenBeforeDropped /\ GoneLeavesAReport)'
  BY <1>4 DEF store_turn, StandTypes, RecordTypes, WrittenBeforeDropped, GoneLeavesAReport,
     memVars, reportVars, sweepVars, pastVars
<1>5. ASSUME NEW x \in Exchanges,
store_farewell(x) PROVE (WrittenBeforeDropped /\ GoneLeavesAReport)'
  BY <1>5 DEF store_farewell, goto, StandTypes, RecordTypes, WrittenBeforeDropped,
     GoneLeavesAReport,
     memVars, reportVars, sweepVars, pastVars
<1>6. ASSUME NEW x \in Exchanges,
turn_stored(x) PROVE (WrittenBeforeDropped /\ GoneLeavesAReport)'
  BY <1>6 DEF turn_stored, StandTypes, RecordTypes, WrittenBeforeDropped, GoneLeavesAReport,
     memVars, reportVars, sweepVars, pastVars
<1>7. ASSUME NEW c \in Cids,
farewell_unstored(c) PROVE (WrittenBeforeDropped /\ GoneLeavesAReport)'
  BY <1>7 DEF farewell_unstored, goto, StandTypes, RecordTypes, WrittenBeforeDropped,
     GoneLeavesAReport,
     memVars, reportVars, sweepVars, pastVars
<1>8. ASSUME NEW c \in Cids, look(c) PROVE (WrittenBeforeDropped /\ GoneLeavesAReport)'
  BY <1>8 DEF look, goto, written_already, StandTypes, RecordTypes, WrittenBeforeDropped,
     GoneLeavesAReport,
     memVars, reportVars, sweepVars, pastVars
<1>9. ASSUME NEW c \in Cids,
write_farewell(c) PROVE (WrittenBeforeDropped /\ GoneLeavesAReport)'
  BY <1>9 DEF write_farewell, goto, write_report, report, StandTypes, RecordTypes,
     WrittenBeforeDropped, GoneLeavesAReport,
     memVars, reportVars, sweepVars, pastVars
<1>10. ASSUME NEW c \in Cids,
link_farewell(c) PROVE (WrittenBeforeDropped /\ GoneLeavesAReport)'
  BY <1>10 DEF link_farewell, goto, StandTypes, RecordTypes, WrittenBeforeDropped,
     GoneLeavesAReport,
     memVars, reportVars, sweepVars, pastVars
<1>11. ASSUME evict_stale_conversations PROVE (WrittenBeforeDropped /\ GoneLeavesAReport)'
  <2>1. PICK S \in SUBSET Cids : evict_next(S)
    <3>1. {c \in live : Stale(active[c])} \in SUBSET Cids /\ todo \in SUBSET Cids
      BY DEF StandTypes
    <3> QED BY <1>11, <3>1 DEF evict_stale_conversations
  <2>2. UNCHANGED <<reports, reported, spoiled, everTold, orphaned>>
    BY <1>11 DEF evict_stale_conversations, reportVars, pastVars
  <2>3. sweep' \notin {"linking", "pop"} BY <2>1 DEF evict_next
  <2>4. CASE UNCHANGED memVars
    BY <2>2, <2>3, <2>4 DEF WrittenBeforeDropped, GoneLeavesAReport, memVars
  <2>5. ASSUME NEW c \in S, pop(c),
               c \notin live \/ said[c] = {} \/ written_already(c, "sweep")
        PROVE  (WrittenBeforeDropped /\ GoneLeavesAReport)'
    <3>1. c \in everTold => c \in reported \cup spoiled \cup orphaned
      BY <2>5 DEF WrittenBeforeDropped, GoneLeavesAReport, written_already, ReportsOf
    <3>2. live' = live \ {c} /\ \A d \in Cids \ {c} : said'[d] = said[d]
      BY <2>5 DEF pop, StandTypes
    <3> QED BY <2>2, <2>3, <3>1, <3>2
            DEF WrittenBeforeDropped, GoneLeavesAReport, RecordTypes
  <2> QED BY <2>1, <2>4, <2>5 DEF evict_next
<1>12. ASSUME write_evicted PROVE (WrittenBeforeDropped /\ GoneLeavesAReport)'
  BY <1>12 DEF write_evicted, write_report, report, pop, StandTypes, RecordTypes,
     WrittenBeforeDropped, GoneLeavesAReport,
     memVars, reportVars, sweepVars, pastVars
<1>13. ASSUME link_evicted PROVE (WrittenBeforeDropped /\ GoneLeavesAReport)'
  BY <1>13 DEF link_evicted, StandTypes, RecordTypes, WrittenBeforeDropped, GoneLeavesAReport,
     memVars, reportVars, sweepVars, pastVars
<1>14. ASSUME pop_linked PROVE (WrittenBeforeDropped /\ GoneLeavesAReport)'
  BY <1>14 DEF pop_linked, pop, StandTypes, RecordTypes, WrittenBeforeDropped,
     GoneLeavesAReport,
     memVars, reportVars, sweepVars, pastVars
<1>15. ASSUME evict_conversation PROVE (WrittenBeforeDropped /\ GoneLeavesAReport)'
  BY <1>15 DEF evict_conversation, StandTypes, RecordTypes, WrittenBeforeDropped,
     GoneLeavesAReport,
     memVars, reportVars, sweepVars, pastVars
<1>16. ASSUME cleanup_stale_audio PROVE (WrittenBeforeDropped /\ GoneLeavesAReport)'
  BY <1>16 DEF cleanup_stale_audio, StandTypes, RecordTypes, WrittenBeforeDropped,
     GoneLeavesAReport,
     memVars, reportVars, sweepVars, pastVars
<1>17. ASSUME cleanup_expired PROVE (WrittenBeforeDropped /\ GoneLeavesAReport)'
  BY <1>17 DEF cleanup_expired, expired_reports, StandTypes, RecordTypes,
     WrittenBeforeDropped, GoneLeavesAReport,
     memVars, reportVars, sweepVars, pastVars
<1>18. ASSUME prune_conversations PROVE (WrittenBeforeDropped /\ GoneLeavesAReport)'
  BY <1>18 DEF prune_conversations, StandTypes, RecordTypes, WrittenBeforeDropped,
     GoneLeavesAReport,
     memVars, reportVars, sweepVars, pastVars
<1>19. ASSUME NEW f \in Clips, synthesize(f) PROVE (WrittenBeforeDropped /\ GoneLeavesAReport)'
  BY <1>19 DEF synthesize, StandTypes, RecordTypes, WrittenBeforeDropped, GoneLeavesAReport,
     memVars, reportVars, sweepVars, pastVars
<1>20. ASSUME start_up PROVE (WrittenBeforeDropped /\ GoneLeavesAReport)'
  BY <1>20 DEF start_up, expired_reports, StandTypes, RecordTypes, WrittenBeforeDropped,
     GoneLeavesAReport,
     memVars, reportVars, sweepVars, pastVars
<1>21. ASSUME die PROVE (WrittenBeforeDropped /\ GoneLeavesAReport)'
  BY <1>21 DEF die, interrupted, report, StandTypes, RecordTypes, WrittenBeforeDropped,
     GoneLeavesAReport,
     memVars, reportVars, sweepVars, pastVars
<1>22. ASSUME StoreOnly PROVE (WrittenBeforeDropped /\ GoneLeavesAReport)'
  BY <1>22 DEF StoreOnly, archiveVars, StandTypes, RecordTypes, WrittenBeforeDropped,
     GoneLeavesAReport,
     memVars, reportVars, sweepVars, pastVars
<1>23. CASE UNCHANGED vars
  BY <1>23 DEF StandTypes, RecordTypes, WrittenBeforeDropped, GoneLeavesAReport, vars,
     archiveVars, memVars, reportVars, sweepVars, pastVars
<1> QED BY <1>1, <1>2, <1>3, <1>4, <1>5, <1>6, <1>7, <1>8, <1>9, <1>10, <1>11, <1>12,
  <1>13, <1>14, <1>15, <1>16, <1>17, <1>18, <1>19, <1>20, <1>21, <1>22, <1>23
  DEF Next, Turns, Farewell, Sweep

Inv ==
  /\ StoreInv /\ ClockTypes /\ StandTypes /\ RecordTypes
  /\ OnlyTheOther /\ FirstWriterWins
  /\ WrittenBeforeDropped /\ GoneLeavesAReport

\* What the lemmas give together.
LEMMA Invariant == Spec => []Inv
<1>1. ASSUME Init PROVE Inv
  <2>1. StoreInv BY <1>1, StoreInitial DEF Init
  <2>2. ClockTypes /\ StandTypes /\ RecordTypes
    BY <1>1 DEF Init, ClockTypes, StandTypes, RecordTypes, Goodbyes, Sweeps
  <2>3. OnlyTheOther /\ FirstWriterWins /\ WrittenBeforeDropped /\ GoneLeavesAReport
    BY <1>1 DEF Init, OnlyTheOther, FirstWriterWins, WrittenBeforeDropped,
       GoneLeavesAReport, ReportsOf
  <2> QED BY <2>1, <2>2, <2>3 DEF Inv
<1>2. ASSUME Inv, [Next]_vars PROVE Inv'
  <2>1. StoreInv' BY <1>2, StoreStep, StoreInvStep DEF Inv, StandTypes
  <2>2. ClockTypes' /\ StandTypes' /\ RecordTypes'
    BY <1>2, ClockTypesStep, StandTypesStep, RecordTypesStep DEF Inv, StoreInv
  <2>3. OnlyTheOther' /\ FirstWriterWins'
    BY <1>2, OnlyTheOtherStep, FirstWriterStep DEF Inv
  <2>4. WrittenBeforeDropped' /\ GoneLeavesAReport'
    BY <1>2, WrittenStep DEF Inv, StoreInv
  <2> QED BY <2>1, <2>2, <2>3, <2>4 DEF Inv
<1> QED BY <1>1, <1>2, PTL DEF Spec

\* All variables keep their types.
THEOREM TypeCorrect == Spec => []TypeOK
<1>1. Inv => TypeOK
  BY DEF Inv, StoreInv, TypeOK, ClockTypes, StandTypes, RecordTypes
<1> QED BY <1>1, Invariant, PTL

\* The interviews, the sweep and the clean-ups use the store file only as
\* StoreFile allows: what is proved of it holds under them.
THEOREM ImplementsStoreFile == Spec => StoreSpec
<1>1. Init => StoreInit BY DEF Init
<1>2. Inv /\ [Next]_vars => [StoreNext]_storeVars
  BY StoreStep DEF Inv, StandTypes
<1> QED BY <1>1, <1>2, Invariant, PTL DEF Spec, StoreSpec

\* The schema is current whenever interviews are served.
THEOREM SchemaIsCurrentHere == Spec => []ReadyMeansCurrent
  BY ImplementsStoreFile, SchemaIsCurrent, PTL

\* A quarantine at start-up costs no exchange a client was told of, as long as
\* the process never ended with a connection open.
THEOREM QuarantineIsSafeHere == Spec => []ToldSurvivesCleanStops
  BY ImplementsStoreFile, QuarantineLosesNothingTold, PTL

\* Two reports of an interview are one of each writer, and one of them was
\* written between the look and the write of the other.
THEOREM OneReport == Spec => []FirstWriterWins
<1>1. Inv => FirstWriterWins BY DEF Inv
<1> QED BY <1>1, Invariant, PTL

\* Nothing is dropped from memory that no report was written of, unless a
\* write failed or the process ended.
THEOREM EvictionLeavesAReport == Spec => []GoneLeavesAReport
<1>1. Inv => GoneLeavesAReport BY DEF Inv
<1> QED BY <1>1, Invariant, PTL
=============================================================================
