\* Programs through the C compiler; devices, desktop, browser, cores and allocators bounded in MCDevices.
SPECIFICATION MCSpec
CONSTANTS
    Compiled <- Compile
    Programs <- MCPrograms
    Globals <- MCGlobals
    Files <- MCFiles
    MaxText = 400
    Byte = 4
    Top = 160
    Parts = {"occ", "windows", "pinned", "flat", "space", "surfaces", "canvas", "passthru", "media", "probe", "usb", "ps2", "web", "buddy", "shm", "smp", "cmdsmp", "threads"}
\* A program ends, and every bound may be used up.
CHECK_DEADLOCK FALSE
INVARIANTS CompiledRight DesktopSound SurfacesSound CanvasSound PassthruSound MediaSound ProbeSound InputSound WebSound BuddySound SharedSound JobsSound ThreadsSound
