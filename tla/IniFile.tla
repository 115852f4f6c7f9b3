------------------------------- MODULE IniFile -------------------------------
(***************************************************************************)
(* The ini files of the common library (util.cpp): writeIniCfg and          *)
(* readIniCfg under g_iniMtx.  Both read the whole file into a tree, change *)
(* the tree and write the whole file back; write_ini truncates the file     *)
(* when it opens it and writes when it closes it (the file is shorter than  *)
(* the stream's buffer).  The process may be killed in between, and the     *)
(* disk may be full, which write_ini does not notice.                       *)
(*                                                                          *)
(* A missing file is created empty and is the same as an empty one here.    *)
(* The file is only written by these functions, so read_ini accepts it.     *)
(***************************************************************************)
EXTENDS Integers

CONSTANTS IniThreads, Keys,  \* a key stands for section and key
          Values, Absent,
          Default            \* the default value readers pass

ASSUME IniAssumption == Absent \notin Values /\ Default \in Values

VARIABLES file,    \* the value of each key in the file
          at,      \* where each thread is
          tree,    \* its property tree, from read_ini to write_ini
          arg,     \* [key, val, op]: what it was called with
          stored,  \* history: the value each key was last given
          damaged  \* history: a write was cut short

iniVars == <<file, at, tree, arg, stored, damaged>>

Contents == [Keys -> Values \cup {Absent}]
Empty    == [k \in Keys |-> Absent]
NoArg    == [key |-> Absent, val |-> Absent, op |-> "none"]

\* Mutant of Unlocked: no scoped_lock
Unlocked_Always == TRUE

\* g_iniMtx is free
Unlocked == \A t \in IniThreads : at[t] = "out"

\* Mutant of Load: the tree starts empty, read_ini is not called
Load_Fresh(t, k, v, op) ==
  /\ at' = [at EXCEPT ![t] = "loaded"]
  /\ tree' = [tree EXCEPT ![t] = [Empty EXCEPT ![k] = v]]
  /\ arg' = [arg EXCEPT ![t] = [key |-> k, val |-> v, op |-> op]]
  /\ UNCHANGED <<file, stored, damaged>>

\* read_ini and tree.put, with the lock held from here on
Load(t, k, v, op) ==
  /\ at' = [at EXCEPT ![t] = "loaded"]
  /\ tree' = [tree EXCEPT ![t] = [file EXCEPT ![k] = v]]
  /\ arg' = [arg EXCEPT ![t] = [key |-> k, val |-> v, op |-> op]]
  /\ UNCHANGED <<file, stored, damaged>>

writeIniCfg(t, k, v) == at[t] = "out" /\ Unlocked /\ Load(t, k, v, "write")

\* Mutant of readIniCfg: the key is not looked up before the default is put
readIniCfg_Blind(t, k) ==
  at[t] = "out" /\ Unlocked /\ Load(t, k, Default, "read")

\* With the key in the file, or with no default, the call returns and leaves
\* everything alone; else the default is put into the file
readIniCfg(t, k) ==
  /\ at[t] = "out" /\ Unlocked
  /\ file[k] = Absent
  /\ Load(t, k, Default, "read")

\* write_ini opens the file
Truncate(t) ==
  /\ at[t] = "loaded"
  /\ at' = [at EXCEPT ![t] = "truncated"]
  /\ file' = Empty
  /\ UNCHANGED <<tree, arg, stored, damaged>>

Return(t) ==
  /\ at' = [at EXCEPT ![t] = "out"]
  /\ tree' = [tree EXCEPT ![t] = Empty]
  /\ arg' = [arg EXCEPT ![t] = NoArg]

\* write_ini writes and closes it
Flush(t) ==
  /\ at[t] = "truncated"
  /\ file' = tree[t]
  /\ stored' = [stored EXCEPT ![arg[t].key] = arg[t].val]
  /\ Return(t)
  /\ UNCHANGED damaged

\* ... or cannot, and returns all the same: nobody looks at the stream again
FlushFails(t) ==
  /\ at[t] = "truncated"
  /\ damaged' = TRUE
  /\ Return(t)
  /\ UNCHANGED <<file, stored>>

\* The process ends and is started again
Restarted ==
  /\ at' = [t \in IniThreads |-> "out"]
  /\ tree' = [t \in IniThreads |-> Empty]
  /\ arg' = [t \in IniThreads |-> NoArg]
  /\ damaged' = (damaged \/ \E t \in IniThreads : at[t] = "truncated")
  /\ UNCHANGED <<file, stored>>

IniInit ==
  /\ file = Empty /\ stored = Empty /\ damaged = FALSE
  /\ at = [t \in IniThreads |-> "out"]
  /\ tree = [t \in IniThreads |-> Empty]
  /\ arg = [t \in IniThreads |-> NoArg]

IniNext ==
  \/ \E t \in IniThreads :
       \/ \E k \in Keys : readIniCfg(t, k) \/ \E v \in Values : writeIniCfg(t, k, v)
       \/ Truncate(t) \/ Flush(t) \/ FlushFails(t)
  \/ Restarted

IniSpec == IniInit /\ [][IniNext]_iniVars

-----------------------------------------------------------------------------
\* One thread at a time is between read_ini and the end of write_ini, and only
\* that thread has a tree.
IniTypeOK ==
  /\ file \in Contents /\ stored \in Contents /\ damaged \in BOOLEAN
  /\ at \in [IniThreads -> {"out", "loaded", "truncated"}]
  /\ \A t, u \in IniThreads : at[t] # "out" /\ at[u] # "out" => t = u
  /\ \A t \in IniThreads : at[t] = "out" => tree[t] = Empty
  /\ tree \in [IniThreads -> Contents]
  /\ arg \in [IniThreads -> [key : Keys \cup {Absent}, val : Values \cup {Absent},
                             op : {"none", "write", "read"}]]

\* Whatever is cut short or done by other threads, no key of the file holds
\* anything but the value it was given last: a lost setting may be missing,
\* it never comes back with an older value (writeIniCfg reads the file again
\* under the lock it writes it with).
NeverStale == \A k \in Keys : file[k] \in {Absent, stored[k]}

\* Unless a write was cut short, every setting anyone stored is in the file
\* whenever the lock is free, for each function writes all the keys back.
SettingsKept == Unlocked /\ ~damaged => file = stored

\* A reader's default replaces no setting, unless a write was cut short
\* before: readIniCfg saves its default only for a key that has none.
DefaultsYield ==
  \A t \in IniThreads :
    arg[t].op = "read" /\ ~damaged => stored[arg[t].key] = Absent
==============================================================================
