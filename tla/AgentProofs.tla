----------------------------- MODULE AgentProofs -----------------------------
(***************************************************************************)
(* The whole process, for every set of documents, clients, portfolios,     *)
(* configurations and mappings, with crashes at any step, with writes that *)
(* fail and with every thread in a request when the signal comes.          *)
(*                                                                         *)
(* That an orderly stop leaves each file that could be written as the      *)
(* memory was needs, besides what WalletSafety says of one thread at a     *)
(* time, how far the main thread has gone: who may still be at work after  *)
(* each of its steps.                                                      *)
(***************************************************************************)
EXTENDS Agent, StoreProofs

\* How far the main thread is tells the life of the wallet and who is at rest.
MainInOrder ==
  /\ main = "down" => process \in {"down", "exited"}
  /\ main # "down" => process \in {"starting", "serving"}
  /\ main \notin {"down", "wallet"} => process = "serving"
  /\ main # "down" => ended \in {"none", "misused"}
  /\ main \in {"joined", "return", "destroyed"} => Rests("socket")
  /\ main = "destroyed" => lock = "none" \/ ended = "misused"

\* The mapping file holds the mappings in memory.
MappingsInFile == camDatabase.file = "written" /\ camDatabase.content = Cam!AllMappings

\* The mapping server saves the mappings of the moment, and rests on a file that has
\* them unless its last save failed; it is gone when main returns.
ActorInOrder ==
  /\ saving = [step |-> saving.step, list |-> saving.list]
  /\ camProcess \in {"down", "exited"} => saving.step = "idle"
  /\ saving.step # "idle" => saving.list = Cam!AllMappings
  /\ "mapping" \notin unwritten /\ camProcess = "serving" /\ saving.step = "idle" => MappingsInFile
  /\ main \in {"return", "destroyed"} => camProcess = "down"

\* The database holds the documents in memory.
InDatabase ==
  /\ database.file = "written"
  /\ \A p \in Portfolios, i \in Ids :
       Stored(database.content, p, i) = Stored(SerializeWallet(portfolios), p, i)

\* Where each thread has left the database, if the last save did not fail.
Written ==
  main # "down" /\ "database" \notin unwritten =>
    /\ Listening => database.file = "written" /\ (portfolios = NoPortfolios \/ InDatabase)
    /\ work["socket"].step \in {"notify", "reply"} => InDatabase
    /\ work["srr"].step = "reload" =>
         database = [file |-> "written", content |-> SerializeWallet(portfolios)]

AInv == WInv /\ WalletKeeps(portfolios) /\ MainInOrder /\ ActorInOrder /\ Written

-----------------------------------------------------------------------------
(* What the steps of the threads leave alone *)

\* Whatever the process does is a step of the wallet, or the end of it.
LEMMA AgentIsWallet ==
  ASSUME [AgentNext]_agentVars
  PROVE  [Next]_vars \/ Halt
BY DEF AgentNext, MainStep, SocketStep, BusStep, agentVars, StartAgent, ListenOnBus, RunSocket,
       HaltBoth, StartActor, EnterLoop, Interrupt, Join, DestroyActor, DestroyServer, Exit,
       AgentCrash, SocketServes, BusServes, BusReloads, Replies, SavesFile, CamSaves, CamServes,
       CamOnly, Edit, Next, Threads

\* Only a process that is up has a thread at work.
LEMMA DownRests ==
  ASSUME WInv, process \in {"down", "exited"}
  PROVE  lock = "none" /\ \A t \in Threads : Rests(t)
BY DEF WInv, OneWorks, Threads

LEMMA ServedBySocket ==
  ASSUME WInv, WalletKeeps(portfolios), Produce \/ Read
  PROVE  /\ Listening /\ UNCHANGED <<process, database>>
         /\ \/ UNCHANGED <<lock, portfolios, work>>
            \/ /\ lock' = "socket" /\ work'["socket"].step = "open"
               /\ work'["srr"] = work["srr"] /\ work'["main"] = work["main"]
<1>1. CASE Read
  BY <1>1, ReadsOnlyAnswer
<1>2. CASE Produce
  <2>1. Listening /\ (Commits \/ Answer("ERROR", {}))
    BY <1>2, ProduceCommits DEF WInv
  <2>2. CASE Commits
    BY <2>1, <2>2, WorkType DEF Commits, Commit, Saving, WInv
  <2>3. CASE Answer("ERROR", {})
    BY <2>1, <2>3 DEF Answer
  <2>. QED
    BY <2>1, <2>2, <2>3
<1>. QED
  BY <1>1, <1>2

LEMMA ServedByBus ==
  ASSUME WInv, Srr
  PROVE  /\ Listening /\ UNCHANGED <<process, database>>
         /\ \/ UNCHANGED <<lock, portfolios, work>>
            \/ /\ lock' = "srr" /\ work'["srr"].step = "open"
               /\ work'["socket"] = work["socket"] /\ work'["main"] = work["main"]
<1>1. ASSUME NEW passphrase, SrrSave(passphrase)
      PROVE  Listening /\ UNCHANGED <<process, database, lock, portfolios, work>>
  BY <1>1 DEF SrrSave, Answer
<1>2. ASSUME NEW passphrase, NEW same, SrrRestore(passphrase, same)
      PROVE  /\ Listening /\ UNCHANGED <<process, database>>
             /\ \/ UNCHANGED <<lock, portfolios, work>>
                \/ /\ lock' = "srr" /\ work'["srr"].step = "open"
                   /\ work'["socket"] = work["socket"] /\ work'["main"] = work["main"]
  BY <1>2, WorkType DEF SrrRestore, Answer, Saving, WInv
<1>. QED
  BY <1>1, <1>2 DEF Srr

\* One step of a save, and where the thread goes on.
LEMMA SavedBy ==
  ASSUME WInv, NEW t \in Threads, OpenDatabase(t) \/ WriteDatabase(t)
  PROVE  /\ Saves(t) /\ UNCHANGED <<lock, portfolios>>
         /\ \A u \in Threads : u # t => work'[u] = work[u]
         /\ \/ work'[t].step = "write" /\ UNCHANGED process
            \/ /\ work'[t].step = AfterSave(t)
               /\ process' = IF t = "main" THEN "serving" ELSE process
<1>1. Saves(t) /\ UNCHANGED <<lock, portfolios>>
  BY DEF OpenDatabase, WriteDatabase, Saves
<1>2. CASE GoOn(t, "write", work[t].rootSi) /\ UNCHANGED process
  BY <1>1, <1>2, WorkType DEF GoOn, WInv
<1>3. CASE SaveReturns(t)
  BY <1>1, <1>3, WorkType DEF SaveReturns, GoOn, WInv
<1>. QED
  BY <1>2, <1>3 DEF OpenDatabase, WriteDatabase

-----------------------------------------------------------------------------
(* The main thread *)

LEMMA MainInOrderStep ==
  ASSUME AInv, [AgentNext]_agentVars
  PROVE  MainInOrder'
<1>1. CASE StartAgent
  <2>1. main = "down" /\ (process' = "starting" \/ process' = "exited")
    BY <1>1 DEF StartAgent, Start
  <2>. QED
    BY <1>1, <2>1 DEF StartAgent, MainInOrder
<1>2. CASE ListenOnBus \/ RunSocket \/ EnterLoop \/ Interrupt \/ DestroyActor \/ DestroyServer
  <2>1. /\ UNCHANGED <<process, lock, work, ended>> /\ main # "down" /\ process = "serving"
        /\ main' \in {"server", "socket", "loop", "join", "return", "destroyed"}
        /\ main' = "return" => main = "joined"
        /\ main' = "destroyed" => main = "return" /\ lock = "none"
    BY <1>2 DEF ListenOnBus, RunSocket, EnterLoop, Interrupt, DestroyActor, DestroyServer, vars,
                AInv, MainInOrder
  <2>. QED
    BY <2>1 DEF AInv, MainInOrder, Rests
<1>3. CASE HaltBoth("exit") \/ Exit \/ AgentCrash
  BY <1>3 DEF Exit, AgentCrash, HaltBoth, Halt, MainInOrder
<1>4. CASE StartActor
  <2>1. CASE UNCHANGED <<vars, ended>> /\ main = "socket" /\ main' = "actor"
    BY <2>1 DEF vars, AInv, MainInOrder
  <2>. QED
    BY <1>3, <1>4, <2>1 DEF StartActor
<1>5. CASE Join
  BY <1>5 DEF Join, vars, AInv, MainInOrder, Rests, Idle
<1>6. ASSUME NEW t \in Threads, SavesFile(t)
      PROVE  MainInOrder'
  <2>1. /\ Saves(t) /\ UNCHANGED <<lock, main>>
        /\ \A u \in Threads : u # t => work'[u] = work[u]
        /\ process' \in {process, "serving"}
    BY <1>6, SavedBy DEF AInv, SavesFile, WalletOnly
  <2>2. main # "down"
    BY <2>1, DownRests DEF AInv, MainInOrder, Rests, Saves
  <2>3. UNCHANGED ended
    BY <1>6 DEF SavesFile
  <2>4. main \in {"joined", "return", "destroyed"} => Rests("socket")'
    BY <2>1 DEF AInv, MainInOrder, Rests, Saves, Threads
  <2>. QED
    BY <2>1, <2>2, <2>3, <2>4 DEF AInv, MainInOrder
<1>7. CASE Replies
  <2>1. /\ ~Rests("socket") /\ UNCHANGED <<process, main, ended>>
    BY <1>7 DEF Replies, Notify, Reply, Rests, WalletOnly
  <2>. QED
    BY <2>1, DownRests DEF AInv, MainInOrder, Threads
<1>8. CASE BusReloads
  <2>1. /\ UNCHANGED <<process, main, ended>> /\ work'["socket"] = work["socket"] /\ lock' = "none"
    BY <1>8, WorkType DEF BusReloads, SrrReload, WalletOnly, AInv, WInv
  <2>. QED
    BY <2>1 DEF AInv, MainInOrder, Rests
<1>9. CASE SocketServes
  <2>1. UNCHANGED <<process, main, ended>> /\ main \in {"socket", "actor", "loop"}
    BY <1>9, ServedBySocket DEF SocketServes, WalletOnly, AInv
  <2>. QED
    BY <2>1 DEF AInv, MainInOrder
<1>10. CASE BusServes
  <2>1. /\ UNCHANGED <<process, main>> /\ work'["socket"] = work["socket"] /\ main # "down"
        /\ ended' = IF main = "destroyed" THEN "misused" ELSE ended
    BY <1>10, ServedByBus DEF BusServes, WalletOnly, AInv
  <2>. QED
    BY <2>1 DEF AInv, MainInOrder, Rests
<1>11. CASE Edit \/ CamSaves \/ CamServes \/ UNCHANGED agentVars
  <2>1. UNCHANGED <<process, lock, work, main, ended>>
    BY <1>11 DEF Edit, EditConfiguration, WalletOnly, CamSaves, CamServes, CamOnly, agentVars, vars
  <2>. QED
    BY <2>1 DEF AInv, MainInOrder, Rests
<1>. QED
  BY <1>1, <1>2, <1>3, <1>4, <1>5, <1>6, <1>7, <1>8, <1>9, <1>10, <1>11
     DEF AgentNext, MainStep, SocketStep, BusStep, Threads

-----------------------------------------------------------------------------
(* The mapping server *)

LEMMA ActorInOrderStep ==
  ASSUME AInv, [AgentNext]_agentVars
  PROVE  ActorInOrder'
<1>1. CASE /\ UNCHANGED camVars /\ ("mapping" \in unwritten => "mapping" \in unwritten')
           /\ main' \in {"return", "destroyed"} => main \in {"return", "destroyed"}
  <2>1. Cam!AllMappings' = Cam!AllMappings
    BY <1>1 DEF camVars, Cam!AllMappings
  <2>. QED
    BY <1>1, <2>1 DEF camVars, AInv, ActorInOrder, MappingsInFile
<1>2. CASE StartAgent \/ ListenOnBus \/ RunSocket \/ EnterLoop \/ Interrupt \/ Join \/ DestroyServer
  BY <1>1, <1>2 DEF StartAgent, ListenOnBus, RunSocket, EnterLoop, Interrupt, Join, DestroyServer
<1>3. CASE SocketServes \/ BusServes \/ BusReloads \/ Replies \/ Edit \/ \E t \in Threads : SavesFile(t)
  BY <1>1, <1>3 DEF SocketServes, BusServes, BusReloads, Replies, Edit, SavesFile, SaveEnds, WalletOnly
<1>4. ASSUME NEW how, HaltBoth(how)
      PROVE  ActorInOrder'
  BY <1>4 DEF HaltBoth, Cam!HaltCam, Cam!NotSaving, ActorInOrder
<1>5. CASE StartActor
  <2>1. CASE camDatabase.file # "torn" /\ Cam!StartCam /\ main' = "actor"
    <3>1. camProcess' = "starting" /\ saving' = [step |-> "open", list |-> Cam!AllMappings']
      BY <2>1 DEF Cam!StartCam
    <3>. QED
      BY <2>1, <3>1 DEF ActorInOrder
  <2>. QED
    BY <1>4, <1>5, <2>1 DEF StartActor
<1>6. CASE DestroyActor
  BY <1>6 DEF DestroyActor, Cam!StopCam, Cam!HaltCam, Cam!NotSaving, AInv, ActorInOrder
<1>7. CASE CamSaves
  <2>1. main' = main /\ main \notin {"return", "destroyed"}
    BY <1>7 DEF CamSaves, CamOnly, Cam!OpenMappings, Cam!WriteMappings, AInv, ActorInOrder
  <2>2. Cam!AllMappings' = Cam!AllMappings /\ saving.list = Cam!AllMappings
    BY <1>7 DEF CamSaves, Cam!OpenMappings, Cam!WriteMappings, Cam!SaveEnds, Cam!AllMappings,
                AInv, ActorInOrder
  <2>3. CASE saving' = [saving EXCEPT !.step = "write"] /\ camProcess' = camProcess /\ saving.step = "open"
    <3>1. saving' = [step |-> "write", list |-> saving.list]
      BY <2>3 DEF AInv, ActorInOrder
    <3>. QED
      BY <2>1, <2>2, <2>3, <3>1 DEF AInv, ActorInOrder
  <2>4. CASE Cam!SaveEnds
    <3>1. saving' = [step |-> "idle", list |-> {}] /\ camProcess' = "serving"
      BY <2>4 DEF Cam!SaveEnds, Cam!NotSaving
    <3>2. "mapping" \notin unwritten' => MappingsInFile'
      BY <1>7, <2>2, <3>1 DEF CamSaves, SaveEnds, MappingsInFile
    <3>. QED
      BY <2>1, <3>1, <3>2 DEF ActorInOrder
  <2>. QED
    BY <1>7, <2>3, <2>4 DEF CamSaves, Cam!OpenMappings, Cam!WriteMappings
<1>8. CASE CamServes
  <2>1. main' = main /\ main \notin {"return", "destroyed"}
    BY <1>8 DEF CamServes, CamOnly
  <2>2. ASSUME NEW changed, Cam!Store(changed), Cam!CamListening
        PROVE  ActorInOrder'
    <3>1. camProcess = "serving" /\ camProcess' = camProcess
          /\ saving' = [step |-> "open", list |-> Cam!AllMappings']
      BY <2>2 DEF Cam!Store, Cam!CamListening
    <3>. QED
      BY <2>1, <3>1 DEF ActorInOrder
  <2>3. ASSUME NEW status, NEW asked, NEW found, Cam!CamReply(status, asked, found)
        PROVE  ActorInOrder'
    <3>1. Cam!AllMappings' = Cam!AllMappings
      BY <2>3 DEF Cam!CamReply, Cam!AllMappings
    <3>. QED
      BY <1>8, <2>1, <2>3, <3>1 DEF CamServes, Cam!CamReply, AInv, ActorInOrder, MappingsInFile
  <2>. QED
    BY <1>8, <2>2, <2>3 DEF CamServes, Cam!CreateMapping, Cam!RemoveMapping
<1>9. CASE UNCHANGED agentVars
  BY <1>1, <1>9 DEF agentVars
<1>. QED
  BY <1>2, <1>3, <1>4, <1>5, <1>6, <1>7, <1>8, <1>9
     DEF AgentNext, MainStep, SocketStep, BusStep, Threads, Exit, AgentCrash

-----------------------------------------------------------------------------
(* What the threads leave in the database *)

\* A reload that fails leaves nothing in memory; one that succeeds leaves what the
\* database holds, and empty portfolios.
LEMMA ReloadedIsInDatabase ==
  ASSUME WInv, WalletKeeps(portfolios), WInv', Reload, UNCHANGED database,
         database = [file |-> "written", content |-> SerializeWallet(portfolios)]
  PROVE  portfolios' = NoPortfolios \/ InDatabase'
<1>1. CASE ~ReloadSucceeds
  BY <1>1 DEF Reload
<1>2. CASE ReloadSucceeds
  <2>1. Found'
    BY <1>2, ReloadIsFound
  <2>2. ASSUME NEW p \in Portfolios, NEW i \in Ids
        PROVE  Stored(database.content, p, i) = Stored(SerializeWallet(portfolios)', p, i)
    <3>1. CASE database.content[p] # NoPortfolio
      <4>1. portfolios'[p] # NoPortfolio /\ SerializePortfolio(portfolios'[p]) = database.content[p]
        BY <2>1, <3>1 DEF Found
      <4>. QED
        BY <3>1, <4>1 DEF Stored, SerializeWallet
    <3>2. CASE database.content[p] = NoPortfolio
      <4>1. portfolios'[p] \in {EmptyPortfolio, NoPortfolio}
        BY <2>1, <3>2 DEF Found
      <4>2. EmptyPortfolio.documents[i] = NoDocument
        BY DEF EmptyPortfolio
      <4>. QED
        BY <3>2, <4>1, <4>2 DEF Stored, SerializeWallet, SerializePortfolio, Has
    <3>. QED
      BY <3>1, <3>2
  <2>. QED
    BY <2>2 DEF InDatabase, Stored
<1>. QED
  BY <1>1, <1>2

LEMMA SavesAreWritten ==
  ASSUME AInv, WInv', NEW t \in Threads, SavesFile(t)
  PROVE  Written'
<1>1. /\ Saves(t) /\ UNCHANGED <<lock, portfolios, main>>
      /\ \A u \in Threads : u # t => work'[u] = work[u]
      /\ \/ work'[t].step = "write" /\ UNCHANGED process
         \/ /\ work'[t].step = AfterSave(t)
            /\ process' = IF t = "main" THEN "serving" ELSE process
  BY SavedBy DEF AInv, SavesFile, WalletOnly
<1>2. work[t].rootSi = SerializeWallet(portfolios)
  BY <1>1 DEF AInv, WInv, WritesCurrent
<1>3. t \in {"main", "socket", "srr"}
  BY DEF Threads
<1>4. \A u \in Threads : u # t => Rests(u) /\ Rests(u)'
  <2>1. ~Rests(t)
    BY <1>1 DEF Rests, Saves
  <2>2. /\ process \in {"down", "starting", "serving", "exited"}
        /\ lock \in {"none", "socket", "srr"}
    BY WorkType DEF AInv, WInv
  <2>3. \A u \in Threads : u # t => Rests(u)
    BY <1>3, <2>1, <2>2 DEF AInv, WInv, OneWorks, Threads
  <2>. QED
    BY <1>1, <2>3 DEF Rests
<1>5. CASE work'[t].step = "write"
  <2>1. ~Listening'
    BY <1>1, <1>3, <1>5 DEF AInv, WInv, OneWorks, Rests, Saves, Listening
  <2>. QED
    BY <1>3, <1>4, <1>5, <2>1 DEF Written, Rests, Threads
<1>6. CASE work'[t].step # "write" /\ main # "down" /\ "database" \notin unwritten'
  <2>1. database' = [file |-> "written", content |-> SerializeWallet(portfolios)]
    BY <1>2, <1>6 DEF SavesFile, SaveEnds
  <2>2. InDatabase'
    BY <1>1, <2>1 DEF InDatabase, Stored, SerializeWallet
  <2>3. (database = [file |-> "written", content |-> SerializeWallet(portfolios)])'
    BY <1>1, <2>1 DEF SerializeWallet
  <2>. QED
    BY <2>2, <2>3 DEF Written, InDatabase
<1>. QED
  BY <1>1, <1>5, <1>6 DEF Written

LEMMA WrittenStep ==
  ASSUME AInv, WInv', [AgentNext]_agentVars
  PROVE  Written'
<1>1. CASE /\ UNCHANGED <<process, lock, work, portfolios, database>>
           /\ main # "down" /\ ("database" \in unwritten => "database" \in unwritten')
  BY <1>1 DEF AInv, Written, InDatabase, Stored, SerializeWallet, Listening
<1>2. CASE StartAgent
  <2>1. CASE process' = "starting"
    <3>1. \A t \in {"socket", "srr"} : Rests(t)'
      BY <2>1, <1>2 DEF AInv, WInv, OneWorks, Rests
    <3>. QED
      BY <2>1, <3>1 DEF Written, Listening, Rests
  <2>2. CASE process' # "starting"
    BY <1>2, <2>2 DEF StartAgent, Start, Written
  <2>. QED
    BY <2>1, <2>2
<1>3. CASE ListenOnBus \/ RunSocket \/ EnterLoop \/ Interrupt \/ Join \/ DestroyActor \/ DestroyServer
  BY <1>1, <1>3 DEF ListenOnBus, RunSocket, EnterLoop, Interrupt, Join, DestroyActor, DestroyServer, vars
<1>4. ASSUME NEW how, HaltBoth(how)
      PROVE  Written'
  BY <1>4 DEF HaltBoth, Written
<1>5. CASE StartActor
  BY <1>1, <1>4, <1>5 DEF StartActor, vars
<1>6. ASSUME NEW t \in Threads, SavesFile(t)
      PROVE  Written'
  BY <1>6, SavesAreWritten
<1>7. CASE Notify /\ WalletOnly /\ UNCHANGED unwritten
  <2>1. /\ UNCHANGED <<process, lock, portfolios, database, main, unwritten>> /\ lock = "socket"
        /\ work["socket"].step = "notify" /\ work'["srr"] = work["srr"]
    BY <1>7, WorkType DEF Notify, GoOn, WalletOnly, AInv, WInv, OneWorks, Rests
  <2>. QED
    BY <2>1 DEF AInv, WInv, OneWorks, Rests, Written, InDatabase, Stored, SerializeWallet, Listening
<1>8. CASE Reply /\ WalletOnly /\ UNCHANGED unwritten
  <2>1. /\ UNCHANGED <<process, portfolios, database, main, unwritten>>
        /\ work["socket"].step = "reply" /\ work'["srr"] = work["srr"]
        /\ work'["socket"].step = "idle"
    BY <1>8, WorkType DEF Reply, Idle, WalletOnly, AInv, WInv
  <2>2. Rests("srr")
    BY <2>1 DEF AInv, WInv, OneWorks, Rests
  <2>. QED
    BY <2>1, <2>2 DEF AInv, Rests, Written, InDatabase, Stored, SerializeWallet
<1>9. CASE BusReloads
  <2>1. /\ UNCHANGED <<process, database, main, unwritten>> /\ Reload
        /\ work["srr"].step = "reload" /\ work'["socket"] = work["socket"]
        /\ work'["srr"].step = "idle"
    BY <1>9, WorkType DEF BusReloads, SrrReload, Idle, WalletOnly, AInv, WInv
  <2>2. Rests("socket")
    BY <2>1 DEF AInv, WInv, OneWorks, Rests
  <2>3. ASSUME main # "down", "database" \notin unwritten
        PROVE  database.file = "written" /\ (portfolios' = NoPortfolios \/ InDatabase')
    BY <2>1, <2>3, ReloadedIsInDatabase DEF AInv, Written
  <2>. QED
    BY <2>1, <2>2, <2>3 DEF Rests, Written
<1>10. CASE SocketServes
  <2>1. /\ UNCHANGED <<process, database, main, unwritten>> /\ main # "down"
        /\ \/ UNCHANGED <<lock, portfolios, work>>
           \/ /\ lock' = "socket" /\ work'["socket"].step = "open"
              /\ work'["srr"] = work["srr"]
        /\ Listening
    BY <1>10, ServedBySocket DEF SocketServes, WalletOnly, AInv
  <2>2. Rests("srr")
    BY <2>1 DEF AInv, WInv, OneWorks, Listening
  <2>. QED
    BY <1>1, <2>1, <2>2 DEF Rests, Written, Listening
<1>11. CASE BusServes
  <2>1. /\ UNCHANGED <<process, database, main, unwritten>> /\ main # "down"
        /\ \/ UNCHANGED <<lock, portfolios, work>>
           \/ /\ lock' = "srr" /\ work'["srr"].step = "open"
              /\ work'["socket"] = work["socket"]
        /\ Listening
    BY <1>11, ServedByBus DEF BusServes, WalletOnly, AInv
  <2>2. Rests("socket")
    BY <2>1 DEF AInv, WInv, OneWorks, Listening
  <2>. QED
    BY <1>1, <2>1, <2>2 DEF Rests, Written, Listening
<1>12. CASE Edit \/ CamSaves \/ CamServes \/ UNCHANGED agentVars
  <2>1. /\ UNCHANGED <<process, lock, work, portfolios, database, main>>
        /\ "database" \in unwritten => "database" \in unwritten'
    BY <1>12 DEF Edit, EditConfiguration, WalletOnly, CamSaves, SaveEnds, CamServes, CamOnly,
                 agentVars, vars
  <2>. QED
    BY <2>1 DEF AInv, Written, InDatabase, Stored, SerializeWallet, Listening
<1>. QED
  BY <1>2, <1>3, <1>4, <1>5, <1>6, <1>7, <1>8, <1>9, <1>10, <1>11, <1>12
     DEF AgentNext, MainStep, SocketStep, BusStep, Replies, Threads, Exit, AgentCrash

-----------------------------------------------------------------------------
(* The theorems *)

LEMMA AgentInvariance == AgentSpec => []AInv
<1>1. AgentInit => AInv
  <2>1. AgentInit => WInv /\ WalletKeeps(portfolios)
    BY InitCorrect, NothingKeeps
       DEF AgentInit, Init, WInv, OneWorks, WritesCurrent, Rests, Saves, Idle, Threads
  <2>2. AgentInit => MainInOrder /\ ActorInOrder /\ Written
    BY DEF AgentInit, Init, Cam!CamInit, Cam!NotSaving, MainInOrder, ActorInOrder, Written
  <2>. QED
    BY <2>1, <2>2 DEF AInv
<1>2. AInv /\ [AgentNext]_agentVars => AInv'
  <2> SUFFICES ASSUME AInv, [AgentNext]_agentVars
               PROVE  AInv'
    OBVIOUS
  <2>1. [Next]_vars \/ Halt
    BY AgentIsWallet
  <2>2. WInv' /\ WalletKeeps(portfolios')
    BY <2>1, WInvStep, WalletKeepsStep DEF AInv, WInv
  <2>. QED
    BY <2>2, MainInOrderStep, ActorInOrderStep, WrittenStep DEF AInv, WalletKeeps
<1>. QED
  BY <1>1, <1>2, PTL DEF AgentSpec

\* When the process returns from main after a signal, each file whose last save did
\* not fail is whole and holds what was in memory, the mapping file when the actor
\* ended and the wallet's when main returned, whatever the threads were at when the
\* signal came (fty_security_wallet.cc, ~SecurityWalletServer, zactor_destroy).
THEOREM StopLeavesFilesCurrent == AgentSpec => OrderlyStopSaves
<1> DEFINE ActorEnds ==
             main = "joined" /\ main' = "return" /\ "mapping" \notin unwritten =>
               camDatabase.file = "written" /\ camDatabase.content = Cam!AllMappings
           FileStays == main \in {"return", "destroyed"} => UNCHANGED camDatabase
           MainReturns ==
             main = "destroyed" /\ ended' = "success" /\ "database" \notin unwritten =>
               /\ database.file = "written"
               /\ portfolios # NoPortfolios =>
                    \A p \in Portfolios, i \in Ids :
                      Stored(database.content, p, i) = Stored(SerializeWallet(portfolios), p, i)
<1>1. ASSUME AInv, [AgentNext]_agentVars
      PROVE  ActorEnds
  <2> SUFFICES ASSUME main = "joined", main' = "return", "mapping" \notin unwritten
               PROVE  MappingsInFile
    BY DEF MappingsInFile
  <2>1. Cam!StopCam
    BY <1>1 DEF AgentNext, MainStep, SocketStep, BusStep, agentVars, StartAgent, ListenOnBus, RunSocket,
                StartActor, EnterLoop, Interrupt, Join, DestroyActor, DestroyServer, Exit, HaltBoth,
                AgentCrash, SocketServes, BusServes, BusReloads, Replies, SavesFile, CamSaves,
                CamServes, WalletOnly, CamOnly, Edit
  <2>. QED
    BY <1>1, <2>1 DEF Cam!StopCam, AInv, ActorInOrder
<1>2. ASSUME AInv, [AgentNext]_agentVars
      PROVE  FileStays
  <2> SUFFICES ASSUME main \in {"return", "destroyed"}
               PROVE  UNCHANGED camDatabase
    OBVIOUS
  <2>1. camProcess = "down" /\ saving.step = "idle"
    BY <1>2 DEF AInv, ActorInOrder
  <2>2. ~CamSaves /\ ~CamServes /\ ~StartActor /\ ~DestroyActor
    BY <2>1 DEF CamSaves, Cam!OpenMappings, Cam!WriteMappings, CamServes, StartActor, DestroyActor
  <2>. QED
    BY <1>2, <2>2
       DEF AgentNext, MainStep, SocketStep, BusStep, agentVars, camVars, StartAgent, ListenOnBus,
           RunSocket, EnterLoop, Interrupt, Join, DestroyServer, Exit, HaltBoth,
           AgentCrash, SocketServes, BusServes, BusReloads, Replies, SavesFile, WalletOnly, Edit
<1>3. ASSUME AInv, [AgentNext]_agentVars
      PROVE  MainReturns
  <2> SUFFICES ASSUME main = "destroyed", ended' = "success", "database" \notin unwritten
               PROVE  MainReturns
    OBVIOUS
  <2>1. ended = "none"
    BY <1>3
       DEF AgentNext, MainStep, SocketStep, BusStep, agentVars, StartAgent, ListenOnBus, RunSocket,
           StartActor, EnterLoop, Interrupt, Join, DestroyActor, DestroyServer, Exit, HaltBoth,
           AgentCrash, SocketServes, BusServes, BusReloads, Replies, SavesFile, CamSaves, CamServes,
           CamOnly, Edit, AInv, MainInOrder
  <2>2. Listening
    BY <1>3, <2>1 DEF AInv, MainInOrder, Listening
  <2>. QED
    BY <1>3, <2>2 DEF AInv, Written, InDatabase
<1>4. AInv /\ [AgentNext]_agentVars => [ActorEnds /\ FileStays /\ MainReturns]_agentVars
  BY <1>1, <1>2, <1>3
<1>5. [][ActorEnds /\ FileStays /\ MainReturns]_agentVars => OrderlyStopSaves
  BY PTL DEF OrderlyStopSaves
<1>. QED
  BY <1>4, <1>5, AgentInvariance, PTL DEF AgentSpec

\* With the mapping server, the signals and the end of the process around it, a save
\* still writes the wallet in memory (SecurityWallet::save, SecurityWalletServer).
THEOREM AgentSavesWriteMemory == AgentSpec => WritesMemory
<1> DEFINE Current == database'.file = "written" /\ database' # database =>
                        database'.content = SerializeWallet(portfolios)
<1>1. AInv /\ [AgentNext]_agentVars => [Current]_vars
  <2> SUFFICES ASSUME AInv, [AgentNext]_agentVars
               PROVE  Current \/ UNCHANGED vars
    OBVIOUS
  <2>1. CASE Halt
    BY <2>1 DEF Halt
  <2>2. CASE Next
    BY <2>2, SaveIsCurrent DEF AInv
  <2>. QED
    BY <2>1, <2>2, AgentIsWallet
<1>2. [][Current]_vars => WritesMemory
  BY PTL DEF WritesMemory
<1>. QED
  BY <1>1, <1>2, AgentInvariance, PTL DEF AgentSpec

-----------------------------------------------------------------------------
(* The process as a wallet *)

\* Whatever the mapping server, its actor, a signal and the end of main do to the
\* wallet, it could have met by itself: to it an exit() in the actor is a crash, and
\* so is the return of main while the bus thread is at work.  What holds of the
\* wallet alone holds of it in the process (fty_security_wallet.cc, main).
THEOREM AgentImplementsWallet ==
  ASSUME Crashes
  PROVE  AgentSpec => Spec
<1>1. AInv /\ [AgentNext]_agentVars => [Next]_vars
  <2> SUFFICES ASSUME AInv, [AgentNext]_agentVars, Halt
               PROVE  [Next]_vars
    BY AgentIsWallet
  <2>1. CASE process \in {"starting", "serving"}
    BY <2>1 DEF Crash, Next
  <2>2. CASE process \notin {"starting", "serving"}
    <3>1. main = "down"
      BY <2>2 DEF AInv, MainInOrder
    <3>. QED
      BY <3>1
         DEF AgentNext, MainStep, SocketStep, BusStep, agentVars, StartAgent, ListenOnBus, RunSocket,
             HaltBoth, StartActor, EnterLoop, Interrupt, Join, DestroyActor, DestroyServer, Exit,
             AgentCrash, SocketServes, BusServes, BusReloads, Replies, SavesFile, CamSaves, CamServes,
             CamOnly, Edit, Next, Threads
  <2>. QED
    BY <2>1, <2>2
<1>2. AgentInit => Init
  BY DEF AgentInit
<1>. QED
  BY <1>1, <1>2, AgentInvariance, PTL DEF AgentSpec, Spec

\* In the process, with its signals, exits and restarts, private parts go only to
\* their consumers and usages change only by their producers
\* (handleRequest of SecurityWalletServer).
THEOREM AgentKeepsRights ==
  ASSUME Crashes
  PROVE  AgentSpec => []SecretsOnlyToConsumers /\ UsageGuard
BY AgentImplementsWallet, SecretsStayWithConsumers, ChangesByEntitledProducers, PTL

\* When writes succeed, the process implements the abstract store: only a crash, or
\* an exit() of the actor, in the middle of a save loses documents
\* (SecurityWallet::save, CredentialAssetMappingStorage, constructor).
THEOREM AgentImplementsStore ==
  ASSUME Crashes, ~WritesFail
  PROVE  AgentSpec => ImplementsStore
BY AgentImplementsWallet, WalletImplementsStore, PTL

=============================================================================
