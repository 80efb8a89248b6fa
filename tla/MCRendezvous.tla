---------------------------- MODULE MCRendezvous ----------------------------
(***************************************************************************)
(* Values of spec.hostPathPrefix and kinds of node for the runs of         *)
(* Rendezvous.                                                             *)
(***************************************************************************)
EXTENDS Rendezvous

\* spec.hostPathPrefix is not set.
Unset == <<>>

\* spec.hostPathPrefix: /var/lib
VarLib == <<"var", "lib">>

\* A node with the systemd cgroup driver and containerd's overlay
\* snapshotter.
Containerd ==
    [cgroup |-> "systemd", rootfs |-> "overlay",
     runtime |-> <<"var", "lib", "containerd">>]

OnlyContainerd == {Containerd}

\* That node, and nodes that differ from it in one respect: the cgroupfs
\* driver, a snapshotter without overlay, a runtime with another directory.
OneOff ==
    {Containerd,
     [Containerd EXCEPT !.cgroup = "cgroupfs"],
     [Containerd EXCEPT !.rootfs = "other"],
     [Containerd EXCEPT !.runtime = <<"var", "lib", "containers">>]}

\* A container with a command, and nothing else set.
Container(command) ==
    [command |-> command, args |-> <<>>, workingDir |-> <<>>, capAdd |-> {}]

\* spec.template.container of the examples: a command of one plain word.
PlainCommand == {Container(<<<<"a">>>>)}

\* Words of up to two characters, of which one stands for every run of
\* characters the shell reads nothing into.
ShortWords == BoundedSeq(ShellChars \cup {"a"}, 2)

\* Containers whose command is one such word; commands of several words,
\* split over Command and Args; working directories with a space and with
\* a single quote; a container without a command; one that adds a
\* capability.
QuotedCommands ==
    {Container(<<w>>) : w \in ShortWords}
    \cup {[Container(<<<<"a">>>>) EXCEPT !.args = args] :
             args \in {<<<<Quote>>, <<"a", Space>>>>, <<<<>>, <<Dollar>>>>}}
    \cup {[Container(<<<<"a">>>>) EXCEPT !.workingDir = dir] :
             dir \in {<<"a", Space>>, <<"a", Quote>>, <<Dollar, "a">>}}
    \cup {Container(<<>>),
          [Container(<<>>) EXCEPT !.args = <<<<"a">>>>, !.capAdd = {"NET_ADMIN"}]}

=============================================================================
