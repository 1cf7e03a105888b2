------------------------------- MODULE Setup -------------------------------
(***************************************************************************)
(* The commands that come before the server, one of them at work: the      *)
(* runtime and the models are installed (Install), the hosts are set up    *)
(* (HostSetup), the symbols are enriched (Enrich).                         *)
(***************************************************************************)
EXTENDS Enrich

CONSTANTS Commands,
          Processes, Machines, Models, Chunks, Overlap, Corruptions, Deaths,
          Starts, HookInPath

VARIABLES
  command,  \* the one at work
  machine, files, parts, data, job, corruptions, fetchFailures, deaths, cutFiles, stranded,
  disk, dirs, git, installed, initAt, left, asked, out, mine, done, cut, inits, userEdits, initFailures

installVars == <<machine, files, parts, data, job, corruptions, fetchFailures, deaths, cutFiles, stranded>>
hostVars == <<disk, dirs, git, installed, initAt, left, asked, out, mine, done, cut, inits, userEdits, initFailures>>

setupVars == <<command, vars, installVars, hostVars>>

I == INSTANCE Install WITH failures <- fetchFailures, cut <- cutFiles
H == INSTANCE HostSetup WITH at <- initAt, todo <- left, runs <- inits, edits <- userEdits, failures <- initFailures

ASSUME SetupGiven == I!InstallAssumption /\ H!HostSetupAssumption

\* Of a command that is not at work only one initial state is taken.
SetupInit ==
  /\ command \in Commands /\ Init
  /\ I!Init /\ (command # "install" => machine = CHOOSE m \in Machines : TRUE)
  /\ H!Init /\ (command # "init" => [disk |-> disk, dirs |-> dirs, git |-> git] = CHOOSE s \in Starts : TRUE)

SetupNext ==
  \/ command = "install" /\ I!Next /\ UNCHANGED <<command, vars, hostVars>>
  \/ command = "enrich" /\ Next /\ UNCHANGED <<command, installVars, hostVars>>
  \/ command = "init" /\ H!Next /\ UNCHANGED <<command, vars, installVars>>

\* What Enrich is fair to never happens as long as it does not run.
SetupFairness ==
  /\ Fairness
  /\ \A p \in Processes : /\ WF_installVars(command = "install" /\ I!Runs(p))
                          /\ WF_installVars(command = "install" /\ I!NewEmbedder(p))

SetupSpec == SetupInit /\ [][SetupNext]_setupVars /\ SetupFairness

-----------------------------------------------------------------------------
\* ensureRuntime, DownloadModel: a file that is there is the file that was
\* pinned, however the runs that fetched it ended ("the hash is verified after
\* download"); a run that reports success leaves a runtime that loads, and one
\* that fails leaves neither archive nor .tmp file, but one that could not be
\* renamed.
RuntimeWhole == I!DownloadsWhole /\ I!ReadyWhole /\ I!FailureLeavesNothing

\* InstallHosts: what the user has in the hosts' files stays there, a second
\* run changes nothing, and a host that is done starts this program.
HostsKept == H!UsersKept /\ H!Idempotent /\ H!Wired

\* enrich: no run undoes the summaries of an earlier one, one that ends has
\* saved all it got, and a death loses what a save per worker holds at most.
EnrichmentKept == []LossBounded /\ SummariesKept /\ EndedIsSaved

\* With a network that fails now and then a later run ends with an embedder,
\* and an enrichment ends, also when it is cancelled or its save fails.
CommandsEnd == RunEnds /\ (command = "install" => I!EventuallyReady)
=============================================================================
