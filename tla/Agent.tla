------------------------------- MODULE Agent -------------------------------
(***************************************************************************)
(* The fty-security-wallet process: its main thread, which starts and      *)
(* stops the security wallet server and the credential asset mapping       *)
(* server, with the threads that serve them: the socket thread, the thread *)
(* of the message bus (SRR) and the mapping actor.  The two servers share  *)
(* their fate: whatever ends the process ends both, wherever they are.     *)
(*                                                                         *)
(* The socket server, the message bus and the actor are external: a thread *)
(* that is asked to stop finishes the request it is at.  The bus thread is *)
(* asked only by the destructor of m_msgBus, which comes after those of    *)
(* m_srrProcessor and m_lock.                                              *)
(***************************************************************************)
EXTENDS WalletProperties

CONSTANTS
  Assets, Services, Protocols, Ports, Credentials, Infos, NoMapping,
  MappingsSent   \* the mappings that clients create and remove

VARIABLES
  camProcess, camDatabase, mappings, saving, camAnswer,  \* the mapping server
  main,   \* how far the main thread is
  ended,  \* how the process ended, or what went wrong in it
  unwritten  \* the files whose last save failed, which nothing in the process knows

Cam == INSTANCE CredentialMapping WITH
  MappingCrashes <- Crashes, MappingWritesFail <- WritesFail

ASSUME MappingsSentAssumption == MappingsSent \subseteq Cam!Mapping

camVars == <<camProcess, camDatabase, mappings, saving, camAnswer>>
agentVars == <<vars, camVars, main, ended, unwritten>>

AgentInit ==
  Init /\ Cam!CamInit /\ main = "down" /\ ended = "none" /\ unwritten = {}

\* A step of one server leaves the other alone.
WalletOnly == UNCHANGED <<camVars, main>>
CamOnly    == UNCHANGED <<vars, main, ended>>

-----------------------------------------------------------------------------
(* main() *)

\* The constructor of the wallet, which exits when it cannot load its files.
StartAgent ==
  /\ main = "down"
  /\ Start
  /\ IF process' = "starting" THEN main' = "wallet" /\ ended' = "none"
                              ELSE main' = main /\ ended' = "failure"
  /\ UNCHANGED <<camVars, unwritten>>

\* The rest of the constructor of the server, which listens on the message bus ...
ListenOnBus ==
  /\ main = "wallet" /\ process = "serving"
  /\ main' = "server"
  /\ UNCHANGED <<vars, camVars, ended, unwritten>>

\* ... and the socket thread.
RunSocket ==
  /\ main = "server"
  /\ main' = "socket"
  /\ UNCHANGED <<vars, camVars, ended, unwritten>>

\* Whatever ends the process, the memory of both servers is gone.
HaltBoth(how) ==
  /\ Halt
  /\ Cam!HaltCam
  /\ UNCHANGED camDatabase
  /\ main' = "down"
  /\ ended' = how
  /\ unwritten' = {}

\* zactor_new: the actor constructs its storage, which calls exit() when it cannot
\* load its file, whatever the other threads are at ...
StartActor ==
  /\ main = "socket"
  /\ \/ /\ camDatabase.file # "torn"
        /\ Cam!StartCam
        /\ main' = "actor"
        /\ UNCHANGED <<vars, ended, unwritten>>
     \/ camDatabase.file = "torn" /\ HaltBoth("exit")

\* ... and signals when it is ready.
EnterLoop ==
  /\ main = "actor" /\ camProcess = "serving"
  /\ main' = "loop"
  /\ UNCHANGED <<vars, camVars, ended, unwritten>>

\* A signal interrupts zstr_recv; requestStop.
Interrupt ==
  /\ main = "loop"
  /\ main' = "join"
  /\ UNCHANGED <<vars, camVars, ended, unwritten>>

Join ==
  /\ main = "join" /\ work["socket"] = Idle
  /\ main' = "joined"
  /\ UNCHANGED <<vars, camVars, ended, unwritten>>

\* zactor_destroy waits for the actor, which finishes its request.
DestroyActor ==
  /\ main = "joined"
  /\ Cam!StopCam
  /\ main' = "return"
  /\ UNCHANGED <<vars, ended, unwritten>>

\* Variant used to test the properties: the destructor does not wait.
DestroyServerAtOnce ==
  /\ main = "return"
  /\ main' = "destroyed"
  /\ UNCHANGED <<vars, camVars, ended, unwritten>>

\* ~SecurityWalletServer takes the lock, and releases it when it returns.
DestroyServer ==
  /\ main = "return" /\ lock = "none"
  /\ main' = "destroyed"
  /\ UNCHANGED <<vars, camVars, ended, unwritten>>

\* The members are gone, and main returns.
Exit ==
  /\ main = "destroyed"
  /\ HaltBoth(IF ended = "none" THEN "success" ELSE ended)

AgentCrash == Crashes /\ main # "down" /\ HaltBoth("crash")

-----------------------------------------------------------------------------
(* The other threads *)

\* The socket thread takes no new request once it has been asked to stop.
SocketServes ==
  /\ main \in {"socket", "actor", "loop"}
  /\ Produce \/ Read
  /\ WalletOnly
  /\ UNCHANGED <<ended, unwritten>>

\* Nothing stops the bus thread from using the server that has been destroyed.
BusServes ==
  /\ main \notin {"down", "wallet"}
  /\ Srr
  /\ ended' = IF main = "destroyed" THEN "misused" ELSE ended
  /\ WalletOnly
  /\ UNCHANGED unwritten

BusReloads == SrrReload /\ WalletOnly /\ UNCHANGED <<ended, unwritten>>

Replies == (Notify \/ Reply) /\ WalletOnly /\ UNCHANGED <<ended, unwritten>>

\* When a save ends, its file holds what it wrote, or is left behind the memory.
SaveEnds(file, succeeded) ==
  unwritten' = IF succeeded THEN unwritten \ {file} ELSE unwritten \cup {file}

\* A save of thread t.
SavesFile(t) ==
  /\ OpenDatabase(t) \/ WriteDatabase(t)
  /\ \/ work'[t].step = "write" /\ UNCHANGED unwritten
     \/ /\ work'[t].step # "write"
        /\ SaveEnds("database", database' = [file |-> "written", content |-> work[t].rootSi])
  /\ WalletOnly
  /\ UNCHANGED ended

CamSaves ==
  /\ Cam!OpenMappings \/ Cam!WriteMappings
  /\ \/ saving'.step = "write" /\ UNCHANGED unwritten
     \/ /\ saving'.step # "write"
        /\ SaveEnds("mapping", camDatabase' = [file |-> "written", content |-> saving.list])
  /\ CamOnly

\* Every other change of a mapping goes through the same save.
CamServes ==
  /\ main \in {"actor", "loop", "join", "joined"}
  /\ \E m \in MappingsSent : Cam!CreateMapping(m) \/ Cam!RemoveMapping(Cam!KeyOf(m))
  /\ CamOnly
  /\ UNCHANGED unwritten

Edit == EditConfiguration /\ WalletOnly /\ UNCHANGED <<ended, unwritten>>

-----------------------------------------------------------------------------
MainStep ==
  \/ StartAgent \/ SavesFile("main") \/ ListenOnBus \/ RunSocket \/ StartActor \/ EnterLoop
  \/ Join \/ DestroyActor \/ DestroyServer \/ Exit

SocketStep == SavesFile("socket") \/ Replies
BusStep    == SavesFile("srr") \/ BusReloads

AgentNext ==
  \/ MainStep \/ SocketStep \/ BusStep \/ CamSaves
  \/ Interrupt \/ AgentCrash \/ SocketServes \/ BusServes \/ CamServes \/ Edit

AgentSpec == AgentInit /\ [][AgentNext]_agentVars

\* Every thread that can go on does.  Where the main thread waits for the lock or
\* for the actor, requests do not come back to back for ever.
AgentFairSpec ==
  /\ AgentSpec
  /\ SF_agentVars(MainStep)
  /\ WF_agentVars(SocketStep) /\ WF_agentVars(BusStep) /\ WF_agentVars(CamSaves)

-----------------------------------------------------------------------------
\* When the process returns from main, each of the two files whose last save did not
\* fail is whole and holds what was in memory, however many threads were in a
\* request when the signal came: the mapping file when the actor ends, after which
\* nothing writes it, and the wallet's when main returns, but for a wallet that a
\* failed reload has emptied (requestStop, join, zactor_destroy and
\* ~SecurityWalletServer come in the right order).
OrderlyStopSaves ==
  [][/\ main = "joined" /\ main' = "return" /\ "mapping" \notin unwritten =>
          camDatabase.file = "written" /\ camDatabase.content = Cam!AllMappings
     /\ main \in {"return", "destroyed"} => UNCHANGED camDatabase
     /\ main = "destroyed" /\ ended' = "success" /\ "database" \notin unwritten =>
          /\ database.file = "written"
          /\ portfolios # NoPortfolios =>
               \A p \in Portfolios, i \in Ids :
                 Stored(database.content, p, i) = Stored(SerializeWallet(portfolios), p, i)
    ]_agentVars

\* A destroyed server is left alone: the comment in ~SecurityWalletServer says
\* "ensure nothing else is on going".
DestroyedIsUnused == main = "destroyed" => work["srr"] = Idle

\* A process that a signal interrupts ends: no thread that main waits for waits
\* for main, or for ever for the lock.
StopCompletes == main = "join" ~> main = "down"

\* The process has ended because a constructor could not load a file, and the file
\* has not been repaired since.
FileUnloadable ==
  /\ main = "down"
  /\ \/ ended = "failure" /\ ~ReloadSucceeds
     \/ ended = "exit" /\ camDatabase.file = "torn"

\* Whatever ended the process, it gets to its loop again, unless it keeps crashing
\* or a constructor ends it because of a file that it cannot load (Restart=always).
AgentServesAgain ==
  <>[][~AgentCrash]_agentVars => (main = "down" ~> main = "loop" \/ FileUnloadable)

=============================================================================
