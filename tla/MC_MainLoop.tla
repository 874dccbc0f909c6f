---------------------------- MODULE MC_MainLoop ----------------------------
(* Small instances of MainLoop for TLC: the contents of the configuration *)
(* files that a reload may find, and the command line.  max-workers is no *)
(* option.                                                                *)
EXTENDS MainLoop

Item(key, value) == [key |-> key, value |-> value]
Address(host, port) == [host |-> host, port |-> port]

MCArguments == <<Item("config", "worker.cfg"), Item("hostgroups", <<"linux">>)>>

Basic == <<Item("server", <<Address("mon", ""), Address("mon", "4730")>>),
           Item("hosts", TRUE), Item("key", "secret"), Item("config", "groups.cfg")>>
Groups(names) == <<Item("hostgroups", names)>>
Disk(worker, groups) == [file \in {"worker.cfg", "groups.cfg"} |->
                           IF file = "worker.cfg" THEN worker ELSE groups]

First == Disk(Basic, Groups(<<"dmz", "">>))

MCDisks ==
    {First,
     \* in place: more workers than before, and hosts that the old workers go on checking
     Disk(Basic \o <<Item("max-workers", 5), Item("hosts", FALSE), Item("maxWorker", 10),
                     Item("minWorker", 12)>>,
          Groups(<<"dmz">>)),
     \* restarts: a hostgroup less, two dup servers more
     Disk(Basic, Groups(<<"linux">>)),
     Disk(Basic \o <<Item("dupserver", <<"d1", "d2">>)>>, Groups(<<"dmz">>)),
     \* a line without "="; no key; no key file, in place and by a restart
     Disk(Basic \o <<Malformed>>, Groups(<<"dmz">>)),
     Disk(Basic \o <<Item("key", "")>>, Groups(<<"dmz">>)),
     Disk(Basic \o <<Item("key", ""), Item("keyfile", "gone")>>, Groups(<<"dmz">>)),
     Disk(Basic \o <<Item("key", ""), Item("keyfile", "gone")>>, Groups(<<"dmz", "web">>))}

\* the open files of -1, 0, 2 and 160 workers
MCOpenFilesLimits == {54, 62, 74, 1024}
=============================================================================
