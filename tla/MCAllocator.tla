----------------------------- MODULE MCAllocator -----------------------------
(* Instances of Allocator for TLC. *)
EXTENDS Allocator, TLC

(* Sizes on the sides of half the preferred block size, and beyond it; the *)
(* two flags about resources change nothing for plain memory.              *)
AllRequests ==
  {r \in [kind : {"resource", "memory"}, size : {1, 3, 5},
          pool : {"default", "custom", "explicit"}, committed : BOOLEAN,
          neverAllocate : BOOLEAN, canAlias : BOOLEAN, smallBuffer : BOOLEAN] :
     r.kind = "memory" => ~ r.canAlias /\ ~ r.smallBuffer}

(* The calls for which a failing CreatePlacedResource is the last thing    *)
(* that happens: no aliasable resource, no resource with committed memory  *)
(* to fall back to.                                                        *)
WithoutFallback ==
  {r \in AllRequests :
     r.kind = "resource" => ~ r.canAlias /\ Attempts(r) # <<"placed", "committed">>}

Symmetry == Permutations(Threads) \cup Permutations(Objects) \cup Permutations(BlockIds)
=============================================================================
