------------------------------ MODULE MCSetup ------------------------------
(***************************************************************************)
(* Instances of Setup: files of two chunks and the machines whose plans    *)
(* differ, the starts of HostSetup, and lists of symbols to enrich.        *)
(***************************************************************************)
EXTENDS Setup

OfHosts == INSTANCE MCHostSetup WITH Starts <- {}, at <- initAt, todo <- left, runs <- inits,
                                     edits <- userEdits, failures <- initFailures
Machine(os, provider, cuda, attaches) == [os |-> os, asked |-> provider, cuda |-> cuda, attaches |-> attaches]
MCMachines == {Machine("linux-amd64", "auto", FALSE, FALSE), Machine("linux-amd64", "cuda", TRUE, TRUE),
               Machine("windows-amd64", "auto", FALSE, TRUE), Machine("windows-amd64", "directml", FALSE, FALSE),
               Machine("windows-amd64", "directml", FALSE, TRUE),
               Machine("darwin-amd64", "auto", FALSE, FALSE)}
OneMachine == {Machine("linux-amd64", "cpu", FALSE, FALSE)}
MCModels == <<"model.onnx", "tokenizer.json">>
MCStarts == OfHosts!MCStarts
MCSymbols == <<"a", "b", "c", "d", "e">>
Overloads == <<"a", "a">>

\* What the code does not keep of an install.
EvenWhenCut == command = "install" => I!EvenWhenCut
RenameLeavesNothing == I!RenameLeavesNothing
OverlapWhole == I!DownloadsWhole
=============================================================================
