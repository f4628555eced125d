--------------------------- MODULE ProcessExports ---------------------------
(***************************************************************************)
(* ProcessCollector::collect (src/prometheus/standard_exports.cc): four    *)
(* readers of /proc, each of which opens a file, reads it and closes it.   *)
(* A descriptor may be there for one of them and not for the next, since   *)
(* the other threads of the process use descriptors too.  Two readers use  *)
(* std::stoi, which throws for what is not the text of an int.             *)
(***************************************************************************)
EXTENDS Naturals

CONSTANTS
  Threads,
  Processes,      \* [limit, spaced, fits]: the processes it may run in
  Reserved,       \* descriptors that are open all the time
  Garbage         \* a member that no constructor initialises and no read sets

ASSUME ProcessExportsAssumption ==
  /\ Reserved \in Nat
  /\ Processes \subseteq [limit : {n \in Nat : n >= Reserved}, spaced : BOOLEAN,
                            fits : SUBSET {"btime", "limits"}]
  /\ Garbage \notin Nat /\ Garbage # "read"

VARIABLES
  process,  \* its RLIMIT_NOFILE, whether its name has a space, and which of
            \* the boot time and the limit fit an int
  open,     \* number of open descriptors
  at,       \* at[t]: which reader t is at, and whether it has its file open
  fields    \* fields[t]: the members of t's four readers

peVars == <<process, open, at, fields>>

Holding == {"stat_open", "btime_open", "fd_open", "limits_open"}
Stages == {"idle", "stat", "btime", "fd", "limits", "collected", "threw"} \union Holding

FieldsType == [stat : {"read", Garbage}, btime : {"read", Garbage},
               num_open_files : Nat, max_open_files : Nat \union {Garbage}]

Uninitialised_All ==                            \* mutant: no initialiser
  [stat |-> Garbage, btime |-> Garbage,
   num_open_files |-> Garbage, max_open_files |-> Garbage]

\* num_open_files(0) is the only member that is initialised.
Uninitialised ==
  [stat |-> Garbage, btime |-> Garbage,
   num_open_files |-> 0, max_open_files |-> Garbage]

PEInit ==
  /\ process \in Processes
  /\ open = Reserved
  /\ at = [t \in Threads |-> "idle"]
  /\ fields = [t \in Threads |-> Uninitialised]

PECall(t) ==
  /\ at[t] = "idle"
  /\ at' = [at EXCEPT ![t] = "stat"]
  /\ fields' = [fields EXCEPT ![t] = Uninitialised]

\* ifstream's constructor or opendir: without a descriptor the three ifstreams
\* silently read nothing, and ProcSelfFdReader throws OpenDirException.
OpenFile_UntilEof(t, now, opened, otherwise) == \* mutant: while (!in.eof())
  /\ at[t] = now
  /\ IF open < process.limit
     THEN /\ open' = open + 1
          /\ at' = [at EXCEPT ![t] = opened]
     ELSE /\ at' = [at EXCEPT ![t] = IF now \in {"btime", "limits"} THEN now
                                    ELSE otherwise]
          /\ UNCHANGED open
  /\ UNCHANGED fields

OpenFile(t, now, opened, otherwise) ==
  /\ at[t] = now
  /\ IF open < process.limit
     THEN /\ open' = open + 1
          /\ at' = [at EXCEPT ![t] = opened]
     ELSE /\ at' = [at EXCEPT ![t] = otherwise]
          /\ UNCHANGED open
  /\ UNCHANGED fields

CloseFile_Leaks(t, now, next) ==                \* mutant: closedir forgotten
  /\ at[t] = now
  /\ at' = [at EXCEPT ![t] = next]
  /\ open' = IF now = "fd_open" THEN open ELSE open - 1

CloseFile(t, now, next) ==
  /\ at[t] = now
  /\ at' = [at EXCEPT ![t] = next]
  /\ open' = open - 1

\* With a space in the program's name the fields after it are misread.
ReadStat(t) ==
  /\ CloseFile(t, "stat_open", "btime")
  /\ fields' = [fields EXCEPT ![t].stat = IF process.spaced THEN Garbage ELSE "read"]

ReadBtime(t) ==
  /\ "btime" \in process.fits
  /\ CloseFile(t, "btime_open", "fd")
  /\ fields' = [fields EXCEPT ![t].btime = "read"]

\* std::stoi throws out_of_range: the ifstream's destructor closes the file.
ReadBtimeThrows(t) ==
  /\ "btime" \notin process.fits
  /\ CloseFile(t, "btime_open", "threw")
  /\ UNCHANGED fields

\* readdir() lists ".", ".." and the directory's own descriptor with the others.
ReadFd(t) ==
  /\ CloseFile(t, "fd_open", "limits")
  /\ fields' = [fields EXCEPT ![t].num_open_files = open + 2]

\* readdir() fails: the directory is closed before the exception.
ReadFdFails(t) ==
  /\ CloseFile(t, "fd_open", "threw")
  /\ UNCHANGED fields

ReadLimits(t) ==
  /\ "limits" \in process.fits
  /\ CloseFile(t, "limits_open", "collected")
  /\ fields' = [fields EXCEPT ![t].max_open_files = process.limit]

\* std::stoi throws invalid_argument ("unlimited") or out_of_range.
ReadLimitsThrows(t) ==
  /\ "limits" \notin process.fits
  /\ CloseFile(t, "limits_open", "threw")
  /\ UNCHANGED fields

PEStep(t) ==
  /\ \/ OpenFile(t, "stat", "stat_open", "btime") \/ ReadStat(t)
     \/ OpenFile(t, "btime", "btime_open", "fd") \/ ReadBtime(t) \/ ReadBtimeThrows(t)
     \/ OpenFile(t, "fd", "fd_open", "threw") \/ ReadFd(t) \/ ReadFdFails(t)
     \/ OpenFile(t, "limits", "limits_open", "collected")
     \/ ReadLimits(t) \/ ReadLimitsThrows(t)
  /\ UNCHANGED process
=============================================================================
