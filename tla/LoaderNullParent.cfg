SPECIFICATION Spec
CONSTANTS
    d1 = d1  d2 = d2  d3 = d3  d4 = d4  d5 = d5
    Dexes = {d1, d2, d3, d4, d5}
    Ships <- Apks
    Loaders = {k1, k2, k3}
    NoDex = NoDex  NoLoader = NoLoader
INVARIANT ZeroMeansInserted
