SPECIFICATION Spec
CONSTANTS
    Stations <- MCStations
    StationAddr <- MCStationAddr
    ProxyArp = {"g"}
    Leases <- MCLeases
    HomeAddr <- MCHome
    HomeServer <- MCHomeServer
    OtherServer <- MCOtherServer
    Bits <- MCBits
    ClassC <- MCClassC
    Noise <- MCNoise
    OddOptions <- MCOdd
    MaxPackets = 2
    MaxOps = 2
    MaxFaults = 2
    MaxEarly = 1
INVARIANTS InterfaceSound PathsSound 
PROPERTIES LoopsEnd
