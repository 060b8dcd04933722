-------------------------- MODULE MCModelCatalogue --------------------------
EXTENDS ModelCatalogue, TLC

CatalogueSymmetry == Permutations(Lists) \cup Permutations(Reloads)
=============================================================================
