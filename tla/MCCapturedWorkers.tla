--------------------------- MODULE MCCapturedWorkers ---------------------------
(* CapturedWorkers for TLC: four chunks through a pipe that holds two messages,  *)
(* so the worker meets a full pipe and prints on after it, an empty one and a    *)
(* torn message; or two workers, each with its reader, and one main thread.      *)
EXTENDS CapturedWorkers
=============================================================================
