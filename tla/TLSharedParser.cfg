SPECIFICATION Spec
CONSTANTS
  Threads = {t1, t2}
  Uris = {u1}
  Contents = {v1, v2}
  Algos = {sha256}
  OddAlgos = {}
  Shape <- AllXml
  Objs = {o1, o2, o3}
  v1 = v1
  v2 = v2
  v3 = v3
  v4 = v4
  v5 = v5
  v6 = v6
  Undecodable = Undecodable
  ListOnly = ListOnly
  Nil = Nil
INVARIANT ListIsAttested
