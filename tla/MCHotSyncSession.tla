-------------------------- MODULE MCHotSyncSession --------------------------
EXTENDS HotSyncSession

\* Two PCs sync one user; at home there is a folder of another user, too.
ThreeFolders == {"home", "work", "guest"}

ComputerIds == [s \in ThreeFolders |-> IF s = "work" THEN "workPc" ELSE "homePc"]

UserNames == [s \in ThreeFolders |-> IF s = "guest" THEN "other" ELSE "user"]

OneFolder == {"home"}

OneComputer == [s \in OneFolder |-> "homePc"]

OneUser == [s \in OneFolder |-> "user"]
=============================================================================
