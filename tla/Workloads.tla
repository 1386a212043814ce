------------------------------ MODULE Workloads ------------------------------
(***************************************************************************)
(* The two forms of a deployment: the one a user of grid-client writes     *)
(* (grid-client/workloads: Deployment with its VMs, light VMs, disks,      *)
(* volumes, zdbs and QSFSs) and the list of zos workloads a node is sent   *)
(* (grid-client/zos), with the conversions each way.                       *)
(*                                                                         *)
(* A name is a sequence of words, so that the names the code derives (an   *)
(* "ip" or "disk" appended) are sequences too. What a conversion carries   *)
(* over verbatim (flist, cpu, root size, environment, gpus, entrypoint,    *)
(* corex, description, passwords, backends) is one opaque field, data. A   *)
(* machine has at most one network and one mycelium seed. Sizes are whole  *)
(* units that become bytes in a machine word.                              *)
(***************************************************************************)
EXTENDS Naturals, Sequences, FiniteSets, SequencesExt

CONSTANTS
  Giga,  \* bytes in a gigabyte, for scale
  Word   \* bytes wrap at this: 2^64 in the code

SizeAssumption == Giga \in Nat \ {0} /\ Word \in Nat \ {0} /\ Word % Giga = 0

NoName == <<>>
NoAddress == <<>>
BadAddress == <<"nil">>

Bytes(gb) == (gb * Giga) % Word

(* A name of a user's is not empty, of at most 36 letters of a small        *)
(* alphabet: "bad" stands for one that is not.                              *)
ValidName(name) == name # NoName /\ name # <<"bad">>

Wl(type, name, data) == [type |-> type, name |-> name, data |-> data]

(***************************************************************************)
(* From the user's form to zos'                                            *)
(***************************************************************************)
Disk(d) == Wl("zmount", d.name, [size |-> Bytes(d.size), data |-> d.data])
Volume(v) == Wl("volume", v.name, [size |-> Bytes(v.size), data |-> v.data])
Zdb(z) == Wl("zdb", z.name, [size |-> Bytes(z.size), mode |-> z.mode, data |-> z.data])

(* The metadata of a QSFS is encrypted with the key and the algorithm of    *)
(* its data.                                                                *)
Qsfs(q) == Wl("qsfs", q.name, [enc |-> q.enc, meta |-> q.enc, shards |-> q.shards, data |-> q.data])

(* A log is named by the digest of where it goes, whichever machine writes  *)
(* it.                                                                      *)
Zlog(output, machine) == Wl("zlogs", <<"md5", output>>, [machine |-> machine, output |-> output])

IpName(name) == name \o <<"ip">>
PublicIP(name, v4, v6) == Wl("ip", name, [v4 |-> v4, v6 |-> v6])

Logs(vm) == [i \in DOMAIN vm.zlogs |-> Zlog(vm.zlogs[i], vm.name)]

VM(vm) ==
  LET public == vm.pub4 \/ vm.pub6
  IN  (IF public THEN <<PublicIP(IpName(vm.name), vm.pub4, vm.pub6)>> ELSE <<>>) \o Logs(vm)
        \o <<Wl("zmachine", vm.name,
                [net |-> vm.net, ip |-> vm.ip, pub |-> IF public THEN IpName(vm.name) ELSE NoName,
                 planetary |-> vm.planetary, seed |-> vm.seed, mounts |-> vm.mounts, data |-> vm.data])>>

VMLight(vm) ==
  Logs(vm) \o <<Wl("zmachine-light", vm.name,
                   [net |-> vm.net, ip |-> vm.ip, seed |-> vm.seed, mounts |-> vm.mounts, data |-> vm.data])>>

(* The workloads of a deployment, in the order GenerateVersionlessDeploy-   *)
(* ments has them; ZosDeployment of the deployment itself puts the volumes  *)
(* last.                                                                    *)
Disks(d)   == [i \in DOMAIN d.disks |-> Disk(d.disks[i])]
Volumes(d) == [i \in DOMAIN d.volumes |-> Volume(d.volumes[i])]
Zdbs(d)    == [i \in DOMAIN d.zdbs |-> Zdb(d.zdbs[i])]
Qsfss(d)   == [i \in DOMAIN d.qsfs |-> Qsfs(d.qsfs[i])]
VMs(d)     == FlattenSeq([i \in DOMAIN d.vms |-> VM(d.vms[i])])
Lights(d)  == FlattenSeq([i \in DOMAIN d.lights |-> VMLight(d.lights[i])])

ZosWorkloads(d) == Disks(d) \o Volumes(d) \o Zdbs(d) \o VMs(d) \o Lights(d) \o Qsfss(d)
ZosDeployment(d) == Disks(d) \o Zdbs(d) \o VMs(d) \o Lights(d) \o Qsfss(d) \o Volumes(d)

(***************************************************************************)
(* Validation                                                              *)
(***************************************************************************)
(* A machine: its data says whether flist, cpu, memory and root size are    *)
(* in their ranges, which needs nothing else.                               *)
ValidMachine(vm) ==
  /\ ValidName(vm.name) /\ ValidName(vm.net)
  /\ vm.data # "bad" /\ vm.seed # "bad" /\ vm.ip # BadAddress
  /\ \A i \in DOMAIN vm.mounts : ValidName(vm.mounts[i])

ValidVMLight(vm) == ValidMachine(vm)
ValidDisk(d) == ValidName(d.name) /\ d.size # 0
ValidVolume(v) == ValidName(v.name) /\ v.size # 0
ValidZdb(z) == ValidName(z.name) /\ z.size # 0 /\ z.mode \in {"user", "seq"}
ValidQsfs(q) == ValidName(q.name) /\ q.shards[1] <= q.shards[2]

ValidDeployment(d, node) ==
  /\ ValidName(d.name)
  /\ d.vms # <<>> => ValidName(d.net)
  /\ node # 0
  /\ d.vms = <<>> \/ d.lights = <<>>
  /\ \A i \in DOMAIN d.vms : ValidMachine(d.vms[i])
  /\ \A i \in DOMAIN d.lights : ValidVMLight(d.lights[i])
  /\ \A i \in DOMAIN d.disks : ValidDisk(d.disks[i])
  /\ \A i \in DOMAIN d.volumes : ValidVolume(d.volumes[i])
  /\ \A i \in DOMAIN d.zdbs : ValidZdb(d.zdbs[i])
  /\ \A i \in DOMAIN d.qsfs : ValidQsfs(d.qsfs[i])

(***************************************************************************)
(* From zos' form to the user's                                            *)
(***************************************************************************)
(* A node adds to each workload the state of its result and what it gives   *)
(* out: "none" is a result without data. A paused workload is okay too.     *)
IsOkay(w) == w.state \in {"ok", "paused"}

Get(dl, name) == SelectSeq(dl, LAMBDA w : w.name = name)

(* ByType looks through a deployment once for every light workload in it,   *)
(* and then once more.                                                      *)
ByTypeOnce(dl, type) == SelectSeq(dl, LAMBDA w : w.type = type)
IsLight(w) == w.type \in {"zmachine-light", "network-light"}
ByType(dl, type) ==
  FlattenSeq([i \in 1..Len(SelectSeq(dl, IsLight)) |-> ByTypeOnce(dl, type)]) \o ByTypeOnce(dl, type)

(* zlogs: those of the machine whose log is up.                             *)
ZlogsOf(dl, name) ==
  LET mine == SelectSeq(ByType(dl, "zlogs"), LAMBDA w : IsOkay(w) /\ w.data.machine = name)
  IN  [i \in DOMAIN mine |-> mine[i].data.output]

(* pubIP: of an ip that is not up nothing is said, and no error is made.    *)
PubIP(dl, name) ==
  LET got == Get(dl, name)
  IN  IF got = <<>> \/ ~IsOkay(got[1]) THEN [v4 |-> FALSE, v6 |-> FALSE] ELSE got[1].data

NewDisk(w) == [name |-> w.name, size |-> w.data.size \div Giga, data |-> w.data.data]
NewVolume(w) == NewDisk(w)
NewZdb(w) == [name |-> w.name, size |-> w.data.size \div Giga, mode |-> w.data.mode, data |-> w.data.data]
NewQsfs(w) ==
  [name |-> w.name, enc |-> w.data.enc, meta |-> w.data.meta, shards |-> w.data.shards, data |-> w.data.data]

(* A machine sent without address is read as one with an address that does  *)
(* not parse.                                                               *)
Address(w) == IF w.data.ip = NoAddress THEN BadAddress ELSE w.data.ip

(* NewVMFromWorkload: whether a machine has a public or a planetary address *)
(* is read from what the node gave out, not from what was asked.            *)
NewVM(w, dl) ==
  LET pub == IF w.data.pub = NoName THEN [v4 |-> FALSE, v6 |-> FALSE] ELSE PubIP(dl, w.data.pub)
  IN  [name |-> w.name, net |-> w.data.net, ip |-> Address(w), pub4 |-> pub.v4, pub6 |-> pub.v6,
       planetary |-> IsOkay(w) /\ w.data.planetary, seed |-> w.data.seed,
       zlogs |-> ZlogsOf(dl, w.name), mounts |-> w.data.mounts, data |-> w.data.data]
NewVMLight(w, dl) ==
  [name |-> w.name, net |-> w.data.net, ip |-> Address(w), pub4 |-> FALSE, pub6 |-> FALSE,
   planetary |-> FALSE, seed |-> w.data.seed,
   zlogs |-> ZlogsOf(dl, w.name), mounts |-> w.data.mounts, data |-> w.data.data]

(* What cannot be read: a machine or a zdb whose result has no data, a      *)
(* machine whose public ip is not in the deployment.                        *)
Readable(w, dl) ==
  /\ w.type \in {"zmachine", "zmachine-light", "zdb"} => w.state # "none"
  /\ w.type = "zmachine" /\ w.data.pub # NoName => Get(dl, w.data.pub) # <<>>

(* The lists of a deployment, read from the workloads sel of dl.            *)
Lists(sel, dl) ==
  LET of(type) == SelectSeq(sel, LAMBDA w : w.type = type)
      disks    == of("zmount")
      volumes  == of("volume")
      zdbs     == of("zdb")
      qsfs     == of("qsfs")
      vms      == of("zmachine")
      lights   == of("zmachine-light")
  IN  [disks |-> [i \in DOMAIN disks |-> NewDisk(disks[i])],
       volumes |-> [i \in DOMAIN volumes |-> NewVolume(volumes[i])],
       zdbs |-> [i \in DOMAIN zdbs |-> NewZdb(zdbs[i])],
       qsfs |-> [i \in DOMAIN qsfs |-> NewQsfs(qsfs[i])],
       vms |-> [i \in DOMAIN vms |-> NewVM(vms[i], dl)],
       lights |-> [i \in DOMAIN lights |-> NewVMLight(lights[i], dl)]]

(* NewDeploymentFromZosDeployment reads all workloads, whatever their       *)
(* state, and takes the network of the last machine.                        *)
NewDeployment(name, dl) ==
  LET lists    == Lists(dl, dl)
      machines == SelectSeq(dl, LAMBDA w : w.type \in {"zmachine", "zmachine-light"})
  IN  [name |-> name, net |-> IF machines = <<>> THEN NoName ELSE Last(machines).data.net] @@ lists

(***************************************************************************)
(* Match: the order the user had                                           *)
(***************************************************************************)
Place(items, key) ==
  LET at == {i \in DOMAIN items : items[i] = key} IN IF at = {} THEN Len(items) + 1 ELSE Max(at)

(* What sorting by the place in the old list may give: what was not there   *)
(* comes last, in any order.                                                *)
SortedLike(items, keys, old) ==
  {[i \in DOMAIN items |-> items[p[i]]] : p \in
     {p \in SetToSeqs(DOMAIN items) :
        \A i \in 1..(Len(items) - 1) : Place(old, keys[p[i]]) <= Place(old, keys[p[i + 1]])}}

Names(items) == [i \in DOMAIN items |-> items[i].name]
ByName(items, old) == SortedLike(items, Names(items), Names(old))
Like(items, old) == SortedLike(items, items, old)

(* LoadFromVM: the logs and mounts of a machine, in the order they had.     *)
LoadFromVM(vm, olds) ==
  LET same == SelectSeq(olds, LAMBDA o : o.name = vm.name)
  IN  IF same = <<>> THEN {vm}
      ELSE {[vm EXCEPT !.zlogs = z, !.mounts = m] :
              z \in Like(vm.zlogs, Last(same).zlogs), m \in Like(vm.mounts, Last(same).mounts)}

MatchMachines(items, olds) ==
  UNION {{s \in [DOMAIN items -> UNION {LoadFromVM(o[i], olds) : i \in DOMAIN o}] :
            \A i \in DOMAIN items : s[i] \in LoadFromVM(o[i], olds)} : o \in ByName(items, olds)}

(* Match of a deployment d with lists that were read.                       *)
Match(d, lists) ==
  {[d EXCEPT !.disks = di, !.volumes = vo, !.zdbs = zd, !.qsfs = qs, !.vms = v, !.lights = l] :
     di \in ByName(lists.disks, d.disks), vo \in ByName(lists.volumes, d.volumes),
     zd \in ByName(lists.zdbs, d.zdbs), qs \in ByName(lists.qsfs, d.qsfs),
     v \in MatchMachines(lists.vms, d.vms), l \in MatchMachines(lists.lights, d.lights)}
=============================================================================
